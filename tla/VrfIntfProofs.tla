---------------------------- MODULE VrfIntfProofs ----------------------------
(***************************************************************************)
(* VrfIntf for any interfaces, VRFs and mixtures of faults.                *)
(***************************************************************************)
EXTENDS VrfIntf, TLAPS

(* What the requests pass from one command to the next.                    *)
States ==
  [at : [Ifs -> {Default, Mgmt}], macvlan : SUBSET (Ifs \X (Data \cup {Default})),
   off : SUBSET Ifs, drop : [Places -> Nat], masq : [Places -> Nat]]

(* Links and moved interfaces are where there is a namespace.              *)
Housed(s) ==
  /\ \A i \in Ifs : s.at[i] \in netns \cup {Default}
  /\ \A x \in s.macvlan : x[2] \in netns \cup {Default}

(* The inductive invariant.  That IPv6 is on again when a link goes rests  *)
(* on the interface being in the VRF it is unbound from.                   *)
IInv ==
  /\ WellFormed
  /\ modes \cap {"fail", "again"} = {} => InPlace
  /\ modes \cap {"fail", "again", "absent"} = {} => Rebindable
  /\ modes \cap {"fail", "again", "wrong", "early"} = {} => Ipv6Separated
  /\ "fail" \notin modes => RulesInPlace

(* The VRFs are told from one another and from the default VRF.            *)
LEMMA Names == Mgmt \notin Data /\ Default \notin Vrfs /\ Default # Mgmt /\ Default \notin Data /\ None \notin Vrfs
  BY NamesAssumption DEF Vrfs

(* What a request starts from is well formed.                              *)
LEMMA NowIsState ==
  ASSUME TypeOK
  PROVE  Now \in States /\ Housed(Now)
  BY DEF TypeOK, Now, States, Housed

(* An outcome carries a state of those it may, and says how the request    *)
(* ended.                                                                  *)
LEMMA OutcomeOf ==
  ASSUME NEW done, NEW failed, NEW o \in Outcomes(done, failed)
  PROVE  /\ o.ok \in BOOLEAN
         /\ o.ok => o.s \in done
         /\ ~o.ok => o.s \in failed
<1>1. (\E s \in done : o = Outcome(s, TRUE)) \/ (\E s \in failed : o = Outcome(s, FALSE))
  BY DEF Outcomes
<1>2. CASE \E s \in done : o = Outcome(s, TRUE)
  BY <1>2 DEF Outcome
<1>3. CASE \E s \in failed : o = Outcome(s, FALSE)
  BY <1>3 DEF Outcome
<1> QED
  BY <1>1, <1>2, <1>3

(* Before a command that fails the state is as it was.                     *)
LEMMA StopsAt ==
  ASSUME NEW s, NEW t \in Stops(s)
  PROVE  t = s /\ "fail" \in modes
  BY DEF Stops

(* The rules of a bind change nothing but the rules.                       *)
LEMMA RulesAddedEffect ==
  ASSUME NEW s \in States, NEW i \in Ifs, NEW v \in Vrfs, NEW o \in RulesAdded(s, i, v)
  PROVE  /\ o.s \in States
         /\ o.s.at = s.at /\ o.s.macvlan = s.macvlan /\ o.s.off = s.off
         /\ o.ok \in BOOLEAN
<1> DEFINE d == Dropping(s, i, v)
           q == Masquerading(d, i, v)
<1>1. <<v, i>> \in Places
  BY DEF Places
<1>2. d \in States /\ d.at = s.at /\ d.macvlan = s.macvlan /\ d.off = s.off
  <2> DEFINE x == [s.drop EXCEPT ![<<v, i>>] = @ + 1]
  <2>1. x \in [Places -> Nat] /\ d = [s EXCEPT !.drop = x]
    BY <1>1 DEF Dropping, States
  <2> HIDE DEF x, d
  <2> QED
    BY <2>1 DEF States
<1>3. q \in States /\ q.at = d.at /\ q.macvlan = d.macvlan /\ q.off = d.off
  <2> HIDE DEF d
  <2> DEFINE x == [d.masq EXCEPT ![<<v, i>>] = @ + 1]
  <2>1. x \in [Places -> Nat] /\ q = [d EXCEPT !.masq = x]
    BY <1>1, <1>2 DEF Masquerading, States
  <2> HIDE DEF x, q
  <2> QED
    BY <1>2, <2>1 DEF States
<1>4. o \in Outcomes({q} \cup Stops(d), Stops(s))
  BY DEF RulesAdded
<1>5. o.s \in {q, d, s} /\ o.ok \in BOOLEAN
  <2> HIDE DEF q, d
  <2>1. o.ok \in BOOLEAN /\ (o.ok => o.s \in {q} \cup Stops(d)) /\ (~o.ok => o.s \in Stops(s))
    BY <1>4, OutcomeOf
  <2> QED
    BY <2>1, StopsAt
<1> QED
  BY <1>2, <1>3, <1>5

(* Without failing commands there is one DROP and one MASQUERADE rule more.*)
LEMMA RulesAddedExact ==
  ASSUME NEW s \in States, NEW i \in Ifs, NEW v \in Vrfs, NEW o \in RulesAdded(s, i, v),
         "fail" \notin modes
  PROVE  /\ o.ok
         /\ o.s.drop = [s.drop EXCEPT ![<<v, i>>] = @ + 1]
         /\ o.s.masq = [s.masq EXCEPT ![<<v, i>>] = @ + 1]
<1> DEFINE d == Dropping(s, i, v)
           q == Masquerading(d, i, v)
<1>1. <<v, i>> \in Places
  BY DEF Places
<1>2. d.drop = [s.drop EXCEPT ![<<v, i>>] = @ + 1] /\ d.masq = s.masq /\ d \in States
  <2> DEFINE x == [s.drop EXCEPT ![<<v, i>>] = @ + 1]
  <2>1. x \in [Places -> Nat] /\ d = [s EXCEPT !.drop = x]
    BY <1>1 DEF Dropping, States
  <2> HIDE DEF x, d
  <2>2. d.drop = x /\ d.masq = s.masq /\ d \in States
    BY <2>1 DEF States
  <2> QED
    BY <2>2 DEF x
<1>3. q.drop = d.drop /\ q.masq = [d.masq EXCEPT ![<<v, i>>] = @ + 1]
  <2> HIDE DEF d
  <2> QED
    BY <1>1, <1>2 DEF Masquerading, States
<1>4. o \in Outcomes({q} \cup Stops(d), Stops(s))
  BY DEF RulesAdded
<1>5. o.s = q /\ o.ok
  <2> HIDE DEF q, d
  <2>1. o.ok \in BOOLEAN /\ (o.ok => o.s \in {q} \cup Stops(d)) /\ (~o.ok => o.s \in Stops(s))
    BY <1>4, OutcomeOf
  <2> QED
    BY <2>1, StopsAt
<1> QED
  BY <1>2, <1>3, <1>5

(* An unbind's last command changes nothing but the MASQUERADE rules, and  *)
(* the unbind has succeeded.                                               *)
LEMMA MasqueradeRemovedEffect ==
  ASSUME NEW s \in States, NEW i \in Ifs, NEW v \in Vrfs, NEW o \in MasqueradeRemoved(s, i, v)
  PROVE  /\ o.s \in States /\ o.ok /\ o.ok \in BOOLEAN
         /\ o.s.at = s.at /\ o.s.macvlan = s.macvlan /\ o.s.off = s.off /\ o.s.drop = s.drop
         /\ "fail" \notin modes =>
              o.s.masq = [s.masq EXCEPT ![<<v, i>>] = IF @ > 0 THEN @ - 1 ELSE @]
<1> DEFINE n == s.masq[<<v, i>>]
           q == [s EXCEPT !.masq[<<v, i>>] = IF n > 0 THEN n - 1 ELSE n]
<1>1. <<v, i>> \in Places /\ n \in Nat
  BY DEF Places, States
<1>2. q \in States /\ q.at = s.at /\ q.macvlan = s.macvlan /\ q.off = s.off /\ q.drop = s.drop
  <2> DEFINE x == [s.masq EXCEPT ![<<v, i>>] = IF n > 0 THEN n - 1 ELSE n]
  <2>1. x \in [Places -> Nat] /\ q = [s EXCEPT !.masq = x]
    BY <1>1 DEF States
  <2> HIDE DEF x, q, n
  <2> QED
    BY <2>1 DEF States
<1>3. q.masq = [s.masq EXCEPT ![<<v, i>>] = IF n > 0 THEN n - 1 ELSE n]
  BY DEF States
<1>4. o \in Outcomes({q} \cup Stops(s), {})
  BY DEF MasqueradeRemoved
<1>5. o.s \in {q, s} /\ ("fail" \notin modes => o.s = q) /\ o.ok /\ o.ok \in BOOLEAN
  <2> HIDE DEF q
  <2>1. o.ok \in BOOLEAN /\ (o.ok => o.s \in {q} \cup Stops(s)) /\ (~o.ok => o.s \in {})
    BY <1>4, OutcomeOf
  <2> QED
    BY <2>1, StopsAt
<1> QED
  BY <1>2, <1>3, <1>5

(* Whatever happens, a bind takes no link from a VRF, and a bind by a link *)
(* that succeeds has made it.                                              *)
LEMMA BindEffect ==
  ASSUME TypeOK, NEW i \in Ifs, NEW v \in Vrfs, NEW o \in BindOutcomes(i, v)
  PROVE  /\ o.s \in States /\ Housed(o.s) /\ o.ok \in BOOLEAN
         /\ \A j \in Ifs, w \in Data : <<j, w>> \in macvlan => <<j, w>> \in o.s.macvlan
         /\ o.ok /\ v \in Data => <<i, v>> \in o.s.macvlan
<1> DEFINE s == Now
           made == [s EXCEPT !.macvlan = @ \cup {<<i, Default>>}]
           moved == Moved(made, i, v)
           off == Ipv6Disabled(moved, i)
           away == [s EXCEPT !.at[i] = Mgmt]
<1>1. s \in States /\ Housed(s) /\ s.macvlan = macvlan
  BY NowIsState DEF Now
<1>2. Default \notin Data
  BY Names
<1> HIDE DEF s
<1>3. CASE v = Mgmt
  <2>1. away \in States /\ away.macvlan = s.macvlan
    BY <1>1 DEF States
  <2>2. \A j \in Ifs : away.at[j] = IF j = i THEN Mgmt ELSE s.at[j]
    BY <1>1 DEF States
  <2>3. Mgmt \in netns => Housed(away)
    BY <1>1, <2>1, <2>2 DEF Housed
  <2>4. \/ o.s = s /\ o.ok = FALSE
        \/ Mgmt \in netns /\ o \in RulesAdded(away, i, Mgmt)
    <3>1. o \in BindMgmt(s, i)
      BY <1>3 DEF BindOutcomes, s
    <3>2. \/ o \in Outcomes({}, {s})
          \/ o \in Outcomes({}, Stops(s))
          \/ Mgmt \in netns /\ o \in RulesAdded(away, i, Mgmt)
      BY <3>1 DEF BindMgmt
    <3>3. CASE o \in Outcomes({}, {s})
      BY <3>3, OutcomeOf
    <3>4. CASE o \in Outcomes({}, Stops(s))
      <4>1. o.ok = FALSE /\ o.s \in Stops(s)
        BY <3>4, OutcomeOf
      <4> QED
        BY <4>1, StopsAt
    <3> QED
      BY <3>2, <3>3, <3>4
  <2>5. v \notin Data
    BY <1>3, Names
  <2>6. CASE o.s = s /\ o.ok = FALSE
    BY <1>1, <2>5, <2>6
  <2>7. CASE Mgmt \in netns /\ o \in RulesAdded(away, i, Mgmt)
    <3>0. Mgmt \in Vrfs
      BY DEF Vrfs
    <3>1. o.s \in States /\ o.s.at = away.at /\ o.s.macvlan = away.macvlan /\ o.ok \in BOOLEAN
      <4> HIDE DEF away
      <4> QED
        BY <2>1, <2>7, <3>0, RulesAddedEffect
    <3>2. Housed(o.s)
      BY <2>3, <2>7, <3>1 DEF Housed
    <3> QED
      BY <1>1, <2>1, <2>5, <3>1, <3>2
  <2> QED
    BY <2>4, <2>6, <2>7
<1>4. CASE v # Mgmt
  <2>1. v \in Data
    BY <1>4 DEF Vrfs
  <2>2. made \in States /\ made.macvlan = s.macvlan \cup {<<i, Default>>} /\ made.at = s.at
    BY <1>1 DEF States
  <2>3. /\ moved \in States /\ moved.at = made.at
        /\ moved.macvlan = (made.macvlan \ {<<i, Default>>}) \cup {<<i, v>>}
    <3> HIDE DEF made
    <3> QED
      BY <2>1, <2>2 DEF States, Moved
  <2>4. off \in States /\ off.at = moved.at /\ off.macvlan = moved.macvlan
    <3> HIDE DEF moved
    <3> QED
      BY <2>3 DEF States, Ipv6Disabled
  <2>5. \/ o.s \in {s, made} /\ o.ok = FALSE
        \/ v \in netns /\ o.s = moved /\ o.ok = FALSE
        \/ v \in netns /\ o \in RulesAdded(off, i, v)
    <3>1. o \in BindData(s, i, v)
      BY <1>4 DEF BindOutcomes, s
    <3>2. \/ o \in Outcomes({}, {s})
          \/ o \in Outcomes({}, {made} \cup Stops(s))
          \/ v \in netns /\ o \in RulesAdded(off, i, v)
          \/ v \in netns /\ o \in Outcomes({}, Stops(s) \cup Stops(made) \cup Stops(moved))
      BY <3>1 DEF BindData
    <3> HIDE DEF made, moved, off
    <3>3. CASE o \in Outcomes({}, {s})
      BY <3>3, OutcomeOf
    <3>4. CASE o \in Outcomes({}, {made} \cup Stops(s))
      <4>1. o.ok = FALSE /\ o.s \in {made} \cup Stops(s)
        BY <3>4, OutcomeOf
      <4> QED
        BY <4>1, StopsAt
    <3>5. CASE v \in netns /\ o \in Outcomes({}, Stops(s) \cup Stops(made) \cup Stops(moved))
      <4>1. o.ok = FALSE /\ o.s \in Stops(s) \cup Stops(made) \cup Stops(moved)
        BY <3>5, OutcomeOf
      <4> QED
        BY <3>5, <4>1, StopsAt
    <3> QED
      BY <3>2, <3>3, <3>4, <3>5
  <2> HIDE DEF made, moved, off
  <2>6. Housed(made)
    BY <1>1, <2>2 DEF Housed
  <2>7. v \in netns => Housed(moved) /\ Housed(off)
    BY <2>2, <2>3, <2>4, <2>6 DEF Housed
  <2>8. \A j \in Ifs, w \in Data : <<j, w>> \in macvlan =>
          <<j, w>> \in s.macvlan /\ <<j, w>> \in made.macvlan /\ <<j, w>> \in moved.macvlan
    BY <1>1, <1>2, <2>2, <2>3
  <2>9. CASE o.s \in {s, made} /\ o.ok = FALSE
    BY <1>1, <2>2, <2>6, <2>8, <2>9
  <2>10. CASE v \in netns /\ o.s = moved /\ o.ok = FALSE
    BY <2>3, <2>7, <2>8, <2>10
  <2>11. CASE v \in netns /\ o \in RulesAdded(off, i, v)
    <3>1. o.s \in States /\ o.s.at = off.at /\ o.s.macvlan = moved.macvlan /\ o.ok \in BOOLEAN
      BY <2>4, <2>11, RulesAddedEffect
    <3>2. Housed(o.s)
      BY <2>4, <2>7, <2>11, <3>1 DEF Housed
    <3> QED
      BY <2>3, <2>8, <3>1, <3>2
  <2> QED
    BY <2>5, <2>9, <2>10, <2>11
<1> QED
  BY <1>3, <1>4

(* What a bind does where no command fails.                                *)
LEMMA BindExact ==
  ASSUME TypeOK, NEW i \in Ifs, NEW v \in Vrfs, NEW o \in BindOutcomes(i, v),
         "fail" \notin modes
  PROVE  /\ o.ok => /\ o.s.drop = [drop EXCEPT ![<<v, i>>] = @ + 1]
                    /\ o.s.masq = [masq EXCEPT ![<<v, i>>] = @ + 1]
         /\ ~o.ok => o.s.drop = drop /\ o.s.masq = masq
         /\ \/ /\ ~o.ok
               /\ o.s.at = at /\ o.s.macvlan = macvlan /\ o.s.off = ipv6_off
            \/ /\ ~o.ok /\ v \in Data /\ (v \notin netns \/ <<i, v>> \in macvlan)
               /\ o.s.at = at /\ o.s.macvlan = macvlan \cup {<<i, Default>>} /\ o.s.off = ipv6_off
            \/ /\ o.ok /\ v \in Data /\ v \in netns /\ at[i] = Default
               /\ <<i, Default>> \notin macvlan /\ <<i, v>> \notin macvlan
               /\ o.s.at = at /\ o.s.macvlan = macvlan \cup {<<i, v>>} /\ o.s.off = ipv6_off \cup {i}
            \/ /\ o.ok /\ v = Mgmt /\ Mgmt \in netns /\ at[i] = Default
               /\ o.s.at = [at EXCEPT ![i] = Mgmt] /\ o.s.macvlan = macvlan /\ o.s.off = ipv6_off
<1> DEFINE s == Now
           made == [s EXCEPT !.macvlan = @ \cup {<<i, Default>>}]
           moved == Moved(made, i, v)
           off == Ipv6Disabled(moved, i)
           away == [s EXCEPT !.at[i] = Mgmt]
<1>1. /\ s \in States /\ s.at = at /\ s.macvlan = macvlan /\ s.off = ipv6_off
      /\ s.drop = drop /\ s.masq = masq
  BY NowIsState DEF Now
<1>2. Stops(s) = {} /\ Stops(made) = {} /\ Stops(moved) = {}
  BY DEF Stops
<1> HIDE DEF s
<1>3. CASE v = Mgmt
  <2>1. /\ away \in States /\ away.macvlan = s.macvlan /\ away.off = s.off
        /\ away.drop = s.drop /\ away.masq = s.masq /\ away.at = [s.at EXCEPT ![i] = Mgmt]
    BY <1>1 DEF States
  <2>2. o \in BindMgmt(s, i)
    BY <1>3 DEF BindOutcomes, s
  <2>3. \/ o \in Outcomes({}, {s})
        \/ o \in Outcomes({}, Stops(s))
        \/ s.at[i] = Default /\ Mgmt \in netns /\ o \in RulesAdded(away, i, Mgmt)
    BY <2>2 DEF BindMgmt
  <2> HIDE DEF away
  <2>4. CASE o \in Outcomes({}, {s})
    <3>1. ~o.ok /\ o.s = s
      BY <2>4, OutcomeOf
    <3> QED
      BY <1>1, <3>1
  <2>5. CASE o \in Outcomes({}, Stops(s))
    BY <1>2, <2>5, OutcomeOf
  <2>6. CASE s.at[i] = Default /\ Mgmt \in netns /\ o \in RulesAdded(away, i, Mgmt)
    <3>1. Mgmt \in Vrfs
      BY DEF Vrfs
    <3>2. o.s.at = away.at /\ o.s.macvlan = away.macvlan /\ o.s.off = away.off
      BY <2>1, <2>6, <3>1, RulesAddedEffect
    <3>3. /\ o.ok
          /\ o.s.drop = [away.drop EXCEPT ![<<Mgmt, i>>] = @ + 1]
          /\ o.s.masq = [away.masq EXCEPT ![<<Mgmt, i>>] = @ + 1]
      BY <2>1, <2>6, <3>1, RulesAddedExact
    <3> QED
      BY <1>1, <1>3, <2>1, <2>6, <3>2, <3>3
  <2> QED
    BY <2>3, <2>4, <2>5, <2>6
<1>4. CASE v # Mgmt
  <2>1. v \in Data
    BY <1>4 DEF Vrfs
  <2>2. /\ made \in States /\ made.macvlan = s.macvlan \cup {<<i, Default>>} /\ made.at = s.at
        /\ made.off = s.off /\ made.drop = s.drop /\ made.masq = s.masq
    BY <1>1 DEF States
  <2>3. /\ moved \in States /\ moved.at = s.at /\ moved.off = s.off
        /\ moved.drop = s.drop /\ moved.masq = s.masq
        /\ moved.macvlan = (made.macvlan \ {<<i, Default>>}) \cup {<<i, v>>}
    <3> HIDE DEF made
    <3> QED
      BY <2>1, <2>2 DEF States, Moved
  <2>4. /\ off \in States /\ off.at = s.at /\ off.macvlan = moved.macvlan
        /\ off.off = s.off \cup {i} /\ off.drop = s.drop /\ off.masq = s.masq
    <3> HIDE DEF moved
    <3> QED
      BY <2>3 DEF States, Ipv6Disabled
  <2>5. o \in BindData(s, i, v)
    BY <1>4 DEF BindOutcomes, s
  <2>6. \/ o \in Outcomes({}, {s})
        \/ (v \notin netns \/ <<i, v>> \in s.macvlan) /\ o \in Outcomes({}, {made} \cup Stops(s))
        \/ /\ s.at[i] = Default /\ <<i, Default>> \notin s.macvlan
           /\ v \in netns /\ <<i, v>> \notin s.macvlan
           /\ \/ o \in RulesAdded(off, i, v)
              \/ o \in Outcomes({}, Stops(s) \cup Stops(made) \cup Stops(moved))
    BY <2>5 DEF BindData
  <2> HIDE DEF made, moved, off
  <2>7. CASE o \in Outcomes({}, {s})
    <3>1. ~o.ok /\ o.s = s
      BY <2>7, OutcomeOf
    <3> QED
      BY <1>1, <3>1
  <2>8. CASE (v \notin netns \/ <<i, v>> \in s.macvlan) /\ o \in Outcomes({}, {made} \cup Stops(s))
    <3>1. ~o.ok /\ o.s \in {made} \cup Stops(s)
      BY <2>8, OutcomeOf
    <3>2. o.s = made
      BY <1>2, <3>1
    <3> QED
      BY <1>1, <2>1, <2>2, <2>8, <3>1, <3>2
  <2>9. CASE /\ s.at[i] = Default /\ <<i, Default>> \notin s.macvlan
             /\ v \in netns /\ <<i, v>> \notin s.macvlan
             /\ o \in RulesAdded(off, i, v)
    <3>1. o.s.at = off.at /\ o.s.macvlan = off.macvlan /\ o.s.off = off.off
      BY <2>4, <2>9, RulesAddedEffect
    <3>2. /\ o.ok
          /\ o.s.drop = [off.drop EXCEPT ![<<v, i>>] = @ + 1]
          /\ o.s.masq = [off.masq EXCEPT ![<<v, i>>] = @ + 1]
      BY <2>4, <2>9, RulesAddedExact
    <3>3. moved.macvlan = macvlan \cup {<<i, v>>}
      BY <1>1, <2>2, <2>3, <2>9
    <3> QED
      BY <1>1, <2>1, <2>4, <2>9, <3>1, <3>2, <3>3
  <2>10. CASE o \in Outcomes({}, Stops(s) \cup Stops(made) \cup Stops(moved))
    <3>1. o.ok \in BOOLEAN /\ ~o.ok /\ o.s \in Stops(s) \cup Stops(made) \cup Stops(moved)
      BY <2>10, OutcomeOf
    <3> QED
      BY <1>2, <3>1
  <2> QED
    BY <2>6, <2>7, <2>8, <2>9, <2>10
<1> QED
  BY <1>3, <1>4

(* What an unbind does to links, whatever happens: it takes the link it    *)
(* is asked for, and only if it succeeds.                                  *)
LEMMA UnbindEffect ==
  ASSUME TypeOK, NEW i \in Ifs, NEW v \in Vrfs, NEW o \in UnbindOutcomes(i, v)
  PROVE  /\ o.s \in States /\ Housed(o.s) /\ o.ok \in BOOLEAN
         /\ \A j \in Ifs, w \in Data :
              <<j, w>> \in macvlan /\ (~o.ok \/ <<j, w>> # <<i, v>>) => <<j, w>> \in o.s.macvlan
         /\ "fail" \notin modes =>
              \/ /\ ~o.ok
                 /\ o.s.at = at /\ o.s.macvlan = macvlan /\ o.s.drop = drop /\ o.s.masq = masq
                 /\ \/ o.s.off = ipv6_off
                    \/ v \in Data /\ <<i, v>> \notin macvlan /\ o.s.off = ipv6_off \ {i}
              \/ /\ o.ok /\ v \in Data /\ at[i] = Default /\ <<i, v>> \in macvlan
                 /\ o.s.at = at /\ o.s.macvlan = macvlan \ {<<i, v>>} /\ o.s.off = ipv6_off \ {i}
                 /\ o.s.drop = drop /\ o.s.masq = [masq EXCEPT ![<<v, i>>] = IF @ > 0 THEN @ - 1 ELSE @]
              \/ /\ o.ok /\ v = Mgmt /\ at[i] = Mgmt
                 /\ o.s.at = [at EXCEPT ![i] = Default] /\ o.s.macvlan = macvlan /\ o.s.off = ipv6_off
                 /\ o.s.drop = drop /\ o.s.masq = [masq EXCEPT ![<<v, i>>] = IF @ > 0 THEN @ - 1 ELSE @]
<1> DEFINE s == Now
           on == [s EXCEPT !.off = @ \ {i}]
           gone == [on EXCEPT !.macvlan = @ \ {<<i, v>>}]
           back == [s EXCEPT !.at[i] = Default]
<1>1. /\ s \in States /\ Housed(s) /\ s.at = at /\ s.macvlan = macvlan /\ s.off = ipv6_off
      /\ s.drop = drop /\ s.masq = masq
  BY NowIsState DEF Now
<1>2. Default \notin Data
  BY Names
<1> HIDE DEF s
<1>3. CASE v = Mgmt
  <2>1. /\ back \in States /\ back.macvlan = s.macvlan /\ back.off = s.off
        /\ back.drop = s.drop /\ back.masq = s.masq /\ back.at = [s.at EXCEPT ![i] = Default]
    BY <1>1 DEF States
  <2>2. \A j \in Ifs : back.at[j] = IF j = i THEN Default ELSE s.at[j]
    BY <1>1, <2>1 DEF States
  <2>3. o \in UnbindMgmt(s, i)
    BY <1>3 DEF UnbindOutcomes, s
  <2>4. \/ o \in Outcomes({}, {s})
        \/ s.at[i] = Mgmt /\ o \in MasqueradeRemoved(back, i, Mgmt)
        \/ o \in Outcomes({}, Stops(s) \cup Stops(back))
    BY <2>3 DEF UnbindMgmt
  <2> HIDE DEF back
  <2>5. Housed(back)
    BY <1>1, <2>1, <2>2 DEF Housed
  <2>6. CASE o \in Outcomes({}, {s})
    <3>1. o.ok \in BOOLEAN /\ ~o.ok /\ o.s = s
      BY <2>6, OutcomeOf
    <3> QED
      BY <1>1, <3>1
  <2>7. CASE o \in Outcomes({}, Stops(s) \cup Stops(back))
    <3>1. o.ok \in BOOLEAN /\ ~o.ok /\ o.s \in Stops(s) \cup Stops(back)
      BY <2>7, OutcomeOf
    <3>2. o.s \in {s, back} /\ "fail" \in modes
      BY <3>1, StopsAt
    <3> QED
      BY <1>1, <2>1, <2>5, <3>1, <3>2
  <2>8. CASE s.at[i] = Mgmt /\ o \in MasqueradeRemoved(back, i, Mgmt)
    <3>1. Mgmt \in Vrfs /\ v \notin Data
      BY <1>3, Names DEF Vrfs
    <3>2. /\ o.s \in States /\ o.ok /\ o.ok \in BOOLEAN
          /\ o.s.at = back.at /\ o.s.macvlan = back.macvlan /\ o.s.off = back.off /\ o.s.drop = back.drop
          /\ "fail" \notin modes =>
               o.s.masq = [back.masq EXCEPT ![<<Mgmt, i>>] = IF @ > 0 THEN @ - 1 ELSE @]
      BY <2>1, <2>8, <3>1, MasqueradeRemovedEffect
    <3>3. Housed(o.s)
      BY <2>5, <3>2 DEF Housed
    <3> QED
      BY <1>1, <1>3, <2>1, <2>8, <3>1, <3>2, <3>3
  <2> QED
    BY <2>4, <2>6, <2>7, <2>8
<1>4. CASE v # Mgmt
  <2>1. v \in Data
    BY <1>4 DEF Vrfs
  <2>2. /\ on \in States /\ on.macvlan = s.macvlan /\ on.at = s.at
        /\ on.off = s.off \ {i} /\ on.drop = s.drop /\ on.masq = s.masq
    BY <1>1 DEF States
  <2>3. /\ gone \in States /\ gone.at = s.at /\ gone.off = s.off \ {i}
        /\ gone.drop = s.drop /\ gone.masq = s.masq /\ gone.macvlan = s.macvlan \ {<<i, v>>}
    <3> HIDE DEF on
    <3> QED
      BY <2>1, <2>2 DEF States
  <2>4. o \in UnbindData(s, i, v)
    BY <1>4 DEF UnbindOutcomes, s
  <2>5. \/ o \in Outcomes({}, {s})
        \/ <<i, v>> \notin s.macvlan /\ o \in Outcomes({}, {on} \cup Stops(s))
        \/ s.at[i] = Default /\ <<i, v>> \in s.macvlan /\ o \in MasqueradeRemoved(gone, i, v)
        \/ o \in Outcomes({}, Stops(s) \cup Stops(on))
    BY <2>4 DEF UnbindData
  <2> HIDE DEF on, gone
  <2>6. Housed(on) /\ Housed(gone)
    BY <1>1, <2>2, <2>3 DEF Housed
  <2>7. CASE o \in Outcomes({}, {s})
    <3>1. o.ok \in BOOLEAN /\ ~o.ok /\ o.s = s
      BY <2>7, OutcomeOf
    <3> QED
      BY <1>1, <3>1
  <2>8. CASE <<i, v>> \notin s.macvlan /\ o \in Outcomes({}, {on} \cup Stops(s))
    <3>1. o.ok \in BOOLEAN /\ ~o.ok /\ o.s \in {on} \cup Stops(s)
      BY <2>8, OutcomeOf
    <3>2. o.s \in {s, on}
      BY <3>1, StopsAt
    <3> QED
      BY <1>1, <2>1, <2>2, <2>6, <2>8, <3>1, <3>2
  <2>9. CASE o \in Outcomes({}, Stops(s) \cup Stops(on))
    <3>1. o.ok \in BOOLEAN /\ ~o.ok /\ o.s \in Stops(s) \cup Stops(on)
      BY <2>9, OutcomeOf
    <3>2. o.s \in {s, on} /\ "fail" \in modes
      BY <3>1, StopsAt
    <3> QED
      BY <1>1, <2>2, <2>6, <3>1, <3>2
  <2>10. CASE s.at[i] = Default /\ <<i, v>> \in s.macvlan /\ o \in MasqueradeRemoved(gone, i, v)
    <3>1. /\ o.s \in States /\ o.ok /\ o.ok \in BOOLEAN
          /\ o.s.at = gone.at /\ o.s.macvlan = gone.macvlan /\ o.s.off = gone.off /\ o.s.drop = gone.drop
          /\ "fail" \notin modes =>
               o.s.masq = [gone.masq EXCEPT ![<<v, i>>] = IF @ > 0 THEN @ - 1 ELSE @]
      BY <2>3, <2>10, MasqueradeRemovedEffect
    <3>2. Housed(o.s)
      BY <2>6, <3>1 DEF Housed
    <3> QED
      BY <1>1, <2>1, <2>3, <2>10, <3>1, <3>2
  <2> QED
    BY <2>5, <2>7, <2>8, <2>9, <2>10
<1> QED
  BY <1>3, <1>4

(* What a request leads to is well formed if its states are.               *)
LEMMA BecomesTyped ==
  ASSUME NEW s \in States, Housed(s), Becomes(s), netns \subseteq Vrfs, UNCHANGED netns,
         bound' \in [Ifs -> Vrfs \cup {None}]
  PROVE  TypeOK'
<1>1. at' = s.at /\ macvlan' = s.macvlan /\ ipv6_off' = s.off /\ drop' = s.drop /\ masq' = s.masq
  BY DEF Becomes
<1> QED
  BY <1>1 DEF States, Housed, TypeOK

(* Where interfaces are depends on the links and on at.                    *)
LEMMA CarrierOf ==
  ASSUME NEW i \in Ifs, NEW w \in Vrfs, TypeOK
  PROVE  w \in Carrier(i) <=> IF w = Mgmt THEN at[i] = Mgmt ELSE <<i, w>> \in macvlan
  BY Names DEF Carrier, TypeOK, Vrfs

(* A VRF holds an interface, and only VRFs do.                             *)
LEMMA CarrierType ==
  ASSUME NEW i \in Ifs, TypeOK
  PROVE  Carrier(i) \subseteq Vrfs
  BY Names DEF Carrier, TypeOK, Vrfs

(* The kernel's tables are empty at the start.                             *)
LEMMA InitEstablishes == Init => IInv
<1> SUFFICES ASSUME Init PROVE IInv
  OBVIOUS
<1>1. TypeOK
  BY DEF Init, TypeOK
<1>2. \A i \in Ifs : Carrier(i) = {} /\ bound[i] = None
  BY DEF Init, Carrier
<1>3. BoundHasLink
  BY <1>2, Names DEF BoundHasLink, Vrfs
<1>4. InPlace /\ Rebindable /\ Ipv6Separated
  BY <1>2 DEF Init, InPlace, Rebindable, Ipv6Separated
<1>5. RulesInPlace
  BY <1>2 DEF Init, RulesInPlace, Places
<1> QED
  BY <1>1, <1>3, <1>4, <1>5 DEF IInv, WellFormed

(* A bind keeps the invariant: where nothing fails it adds the one link,   *)
(* and where VRFs exist, none is left in the default namespace.            *)
LEMMA BindKeeps ==
  ASSUME IInv, NEW i \in Ifs, NEW v \in Vrfs, Bind(i, v), UNCHANGED modes
  PROVE  IInv'
<1>1. TypeOK /\ BoundHasLink
  BY DEF IInv, WellFormed
<1>2. PICK o \in BindOutcomes(i, v) :
        Becomes(o.s) /\ bound' = IF o.ok THEN [bound EXCEPT ![i] = v] ELSE bound
  BY DEF Bind
<1>3. /\ netns' = netns
      /\ bound[i] # None => "again" \in modes
      /\ v \notin netns => "absent" \in modes
  BY DEF Bind
<1>4. /\ o.s \in States /\ Housed(o.s) /\ o.ok \in BOOLEAN
      /\ \A j \in Ifs, w \in Data : <<j, w>> \in macvlan => <<j, w>> \in o.s.macvlan
      /\ o.ok /\ v \in Data => <<i, v>> \in o.s.macvlan
  BY <1>1, BindEffect
<1>5. /\ at' = o.s.at /\ macvlan' = o.s.macvlan /\ ipv6_off' = o.s.off
      /\ drop' = o.s.drop /\ masq' = o.s.masq
  BY <1>2 DEF Becomes
<1>6. bound \in [Ifs -> Vrfs \cup {None}] /\ bound' \in [Ifs -> Vrfs \cup {None}]
  BY <1>1, <1>2 DEF TypeOK
<1>7. TypeOK'
  BY <1>1, <1>2, <1>3, <1>4, <1>6, BecomesTyped DEF TypeOK
<1>8. BoundHasLink'
  <2> SUFFICES ASSUME NEW j \in Ifs, bound'[j] \in Data PROVE <<j, bound'[j]>> \in macvlan'
    BY DEF BoundHasLink
  <2>1. CASE o.ok /\ j = i
    BY <1>2, <1>4, <1>5, <1>6, <2>1
  <2>2. CASE ~(o.ok /\ j = i)
    <3>1. bound'[j] = bound[j]
      BY <1>2, <1>6, <2>2
    <3> QED
      BY <1>1, <1>4, <1>5, <3>1 DEF BoundHasLink
  <2> QED
    BY <2>1, <2>2
<1>9. "fail" \notin modes =>
        /\ o.ok => /\ drop' = [drop EXCEPT ![<<v, i>>] = @ + 1]
                   /\ masq' = [masq EXCEPT ![<<v, i>>] = @ + 1]
        /\ ~o.ok => drop' = drop /\ masq' = masq
        /\ \/ ~o.ok /\ at' = at /\ macvlan' = macvlan /\ ipv6_off' = ipv6_off
           \/ /\ ~o.ok /\ v \in Data /\ (v \notin netns \/ <<i, v>> \in macvlan)
              /\ at' = at /\ macvlan' = macvlan \cup {<<i, Default>>} /\ ipv6_off' = ipv6_off
           \/ /\ o.ok /\ v \in Data /\ v \in netns /\ at[i] = Default
              /\ <<i, Default>> \notin macvlan /\ <<i, v>> \notin macvlan
              /\ at' = at /\ macvlan' = macvlan \cup {<<i, v>>} /\ ipv6_off' = ipv6_off \cup {i}
           \/ /\ o.ok /\ v = Mgmt /\ Mgmt \in netns /\ at[i] = Default
              /\ at' = [at EXCEPT ![i] = Mgmt] /\ macvlan' = macvlan /\ ipv6_off' = ipv6_off
  BY <1>1, <1>5, BindExact
(* Where interfaces are after the bind. *)
<1>10. "fail" \notin modes =>
         \A j \in Ifs, w \in Vrfs :
           /\ (w \in Carrier(j))' <=> w \in Carrier(j) \/ (o.ok /\ j = i /\ w = v)
           /\ o.ok => v \notin Carrier(i)
  <2> SUFFICES ASSUME "fail" \notin modes, NEW j \in Ifs, NEW w \in Vrfs
               PROVE  /\ (w \in Carrier(j))' <=> w \in Carrier(j) \/ (o.ok /\ j = i /\ w = v)
                      /\ o.ok => v \notin Carrier(i)
    OBVIOUS
  <2>1. w \in Carrier(j) <=> IF w = Mgmt THEN at[j] = Mgmt ELSE <<j, w>> \in macvlan
    BY <1>1, CarrierOf
  <2>2. v \in Carrier(i) <=> IF v = Mgmt THEN at[i] = Mgmt ELSE <<i, v>> \in macvlan
    BY <1>1, CarrierOf
  <2>3. (w \in Carrier(j))' <=> IF w = Mgmt THEN at'[j] = Mgmt ELSE <<j, w>> \in macvlan'
    BY <1>7, Names DEF Carrier, TypeOK, Vrfs
  <2>4. Default \notin Vrfs /\ Mgmt \notin Data /\ Default # Mgmt /\ at \in [Ifs -> {Default, Mgmt}]
    BY <1>1, Names DEF TypeOK
  <2>5. CASE ~o.ok /\ at' = at /\ macvlan' \in {macvlan, macvlan \cup {<<i, Default>>}}
    BY <2>1, <2>2, <2>3, <2>4, <2>5
  <2>6. CASE /\ o.ok /\ v \in Data /\ <<i, v>> \notin macvlan
             /\ at' = at /\ macvlan' = macvlan \cup {<<i, v>>}
    BY <2>1, <2>2, <2>3, <2>4, <2>6
  <2>7. CASE o.ok /\ v = Mgmt /\ at[i] = Default /\ at' = [at EXCEPT ![i] = Mgmt] /\ macvlan' = macvlan
    BY <2>1, <2>2, <2>3, <2>4, <2>7
  <2> QED
    BY <1>9, <2>5, <2>6, <2>7
<1>11. ASSUME modes \cap {"fail", "again"} = {}
       PROVE  InPlace'
  <2>1. bound[i] = None /\ InPlace /\ "fail" \notin modes
    BY <1>3, <1>11 DEF IInv
  <2> SUFFICES ASSUME NEW j \in Ifs PROVE Carrier(j)' = {bound'[j]} \ {None}
    BY DEF InPlace
  <2>2. Carrier(j) = {bound[j]} \ {None} /\ Carrier(j) \subseteq Vrfs /\ Carrier(j)' \subseteq Vrfs
    <3>1. Carrier(j)' \subseteq Vrfs
      BY <1>7, Names DEF Carrier, TypeOK, Vrfs
    <3> QED
      BY <1>1, <2>1, <3>1, CarrierType DEF InPlace
  <2>3. \A w \in Vrfs : w \in Carrier(j)' <=> w \in Carrier(j) \/ (o.ok /\ j = i /\ w = v)
    BY <1>10, <2>1
  <2>4. Carrier(j)' = Carrier(j) \cup {w \in {v} : o.ok /\ j = i}
    BY <2>2, <2>3
  <2>5. None \notin Vrfs
    BY Names
  <2>6. bound'[j] = IF o.ok /\ j = i THEN v ELSE bound[j]
    BY <1>2, <1>6
  <2> QED
    BY <2>1, <2>2, <2>4, <2>5, <2>6
<1>12. ASSUME modes \cap {"fail", "again", "absent"} = {}
       PROVE  Rebindable'
  <2>1. bound[i] = None /\ InPlace /\ Rebindable /\ "fail" \notin modes /\ v \in netns
    BY <1>3, <1>12 DEF IInv
  <2>2. Carrier(i) = {}
    BY <2>1 DEF InPlace
  <2>3. v \in Data => <<i, v>> \notin macvlan
    BY <2>2 DEF Carrier
  <2>4. \/ macvlan' = macvlan
        \/ v \in Data /\ macvlan' = macvlan \cup {<<i, v>>}
    BY <1>9, <2>1, <2>3
  <2> QED
    BY <2>1, <2>4, Names DEF Rebindable
<1>13. ASSUME modes \cap {"fail", "again", "wrong", "early"} = {}
       PROVE  Ipv6Separated'
  <2>1. Ipv6Separated /\ "fail" \notin modes
    BY <1>13 DEF IInv
  <2>2. \/ ipv6_off' = ipv6_off /\ macvlan' \in {macvlan, macvlan \cup {<<i, Default>>}}
        \/ v \in Data /\ ipv6_off' = ipv6_off \cup {i} /\ macvlan' = macvlan \cup {<<i, v>>}
    BY <1>9, <2>1
  <2> QED
    BY <2>1, <2>2, Names DEF Ipv6Separated
<1>14. ASSUME "fail" \notin modes
       PROVE  RulesInPlace'
  <2>1. RulesInPlace
    BY <1>14 DEF IInv
  <2> SUFFICES ASSUME NEW x \in Places
               PROVE  /\ masq'[x] = IF x[1] \in Carrier(x[2])' THEN 1 ELSE 0
                      /\ x[1] \in Carrier(x[2])' => drop'[x] > 0
    BY DEF RulesInPlace
  <2>2. PICK w \in Vrfs, j \in Ifs : x = <<w, j>>
    BY DEF Places
  <2>3. masq \in [Places -> Nat] /\ drop \in [Places -> Nat] /\ <<v, i>> \in Places
    BY <1>1 DEF TypeOK, Places
  <2>4. masq[x] = (IF w \in Carrier(j) THEN 1 ELSE 0) /\ (w \in Carrier(j) => drop[x] > 0)
    BY <2>1, <2>2 DEF RulesInPlace
  <2>5. /\ w \in Carrier(j)' <=> w \in Carrier(j) \/ (o.ok /\ j = i /\ w = v)
        /\ o.ok => v \notin Carrier(i)
    BY <1>10, <1>14
  <2>6. CASE ~o.ok
    BY <1>9, <1>14, <2>2, <2>4, <2>5, <2>6
  <2>7. CASE o.ok /\ x = <<v, i>>
    <3>1. masq'[x] = masq[x] + 1 /\ drop'[x] = drop[x] + 1
      BY <1>9, <1>14, <2>3, <2>7
    <3>2. w = v /\ j = i
      BY <2>2, <2>7
    <3> QED
      BY <2>2, <2>3, <2>4, <2>5, <2>7, <3>1, <3>2
  <2>8. CASE o.ok /\ x # <<v, i>>
    <3>1. masq'[x] = masq[x] /\ drop'[x] = drop[x]
      BY <1>9, <1>14, <2>3, <2>8
    <3> QED
      BY <2>2, <2>4, <2>5, <2>8, <3>1
  <2> QED
    BY <1>4, <2>6, <2>7, <2>8
<1> QED
  BY <1>7, <1>8, <1>11, <1>12, <1>13, <1>14 DEF IInv, WellFormed

(* An unbind keeps the invariant: where requests fit, what it is asked to  *)
(* undo is what a bind did.                                                *)
LEMMA UnbindKeeps ==
  ASSUME IInv, NEW i \in Ifs, NEW v \in Vrfs, Unbind(i, v), UNCHANGED modes
  PROVE  IInv'
<1>1. TypeOK /\ BoundHasLink
  BY DEF IInv, WellFormed
<1>2. PICK o \in UnbindOutcomes(i, v) :
        Becomes(o.s) /\ bound' = IF o.ok /\ bound[i] = v THEN [bound EXCEPT ![i] = None] ELSE bound
  BY DEF Unbind
<1>3. netns' = netns /\ (bound[i] # v => "wrong" \in modes)
  BY DEF Unbind
<1>4. /\ o.s \in States /\ Housed(o.s) /\ o.ok \in BOOLEAN
      /\ \A j \in Ifs, w \in Data :
           <<j, w>> \in macvlan /\ (~o.ok \/ <<j, w>> # <<i, v>>) => <<j, w>> \in o.s.macvlan
  BY <1>1, UnbindEffect
<1>5. /\ at' = o.s.at /\ macvlan' = o.s.macvlan /\ ipv6_off' = o.s.off
      /\ drop' = o.s.drop /\ masq' = o.s.masq
  BY <1>2 DEF Becomes
<1>6. bound \in [Ifs -> Vrfs \cup {None}] /\ bound' \in [Ifs -> Vrfs \cup {None}]
  BY <1>1, <1>2 DEF TypeOK
<1>7. TypeOK'
  BY <1>1, <1>2, <1>3, <1>4, <1>6, BecomesTyped DEF TypeOK
<1>8. BoundHasLink'
  <2> SUFFICES ASSUME NEW j \in Ifs, bound'[j] \in Data PROVE <<j, bound'[j]>> \in macvlan'
    BY DEF BoundHasLink
  <2>1. None \notin Data
    BY Names DEF Vrfs
  <2>2. bound'[j] = bound[j] /\ (~o.ok \/ <<j, bound[j]>> # <<i, v>>)
    BY <1>2, <1>4, <1>6, <2>1
  <2> QED
    BY <1>1, <1>4, <1>5, <2>2 DEF BoundHasLink
<1>9. "fail" \notin modes =>
        \/ /\ ~o.ok
           /\ at' = at /\ macvlan' = macvlan /\ drop' = drop /\ masq' = masq
           /\ \/ ipv6_off' = ipv6_off
              \/ v \in Data /\ <<i, v>> \notin macvlan /\ ipv6_off' = ipv6_off \ {i}
        \/ /\ o.ok /\ v \in Data /\ at[i] = Default /\ <<i, v>> \in macvlan
           /\ at' = at /\ macvlan' = macvlan \ {<<i, v>>} /\ ipv6_off' = ipv6_off \ {i}
           /\ drop' = drop /\ masq' = [masq EXCEPT ![<<v, i>>] = IF @ > 0 THEN @ - 1 ELSE @]
        \/ /\ o.ok /\ v = Mgmt /\ at[i] = Mgmt
           /\ at' = [at EXCEPT ![i] = Default] /\ macvlan' = macvlan /\ ipv6_off' = ipv6_off
           /\ drop' = drop /\ masq' = [masq EXCEPT ![<<v, i>>] = IF @ > 0 THEN @ - 1 ELSE @]
  BY <1>1, <1>5, UnbindEffect
(* Where interfaces are after the unbind. *)
<1>10. "fail" \notin modes =>
         \A j \in Ifs, w \in Vrfs :
           /\ (w \in Carrier(j))' <=> w \in Carrier(j) /\ ~(o.ok /\ j = i /\ w = v)
           /\ o.ok => v \in Carrier(i)
  <2> SUFFICES ASSUME "fail" \notin modes, NEW j \in Ifs, NEW w \in Vrfs
               PROVE  /\ (w \in Carrier(j))' <=> w \in Carrier(j) /\ ~(o.ok /\ j = i /\ w = v)
                      /\ o.ok => v \in Carrier(i)
    OBVIOUS
  <2>1. w \in Carrier(j) <=> IF w = Mgmt THEN at[j] = Mgmt ELSE <<j, w>> \in macvlan
    BY <1>1, CarrierOf
  <2>2. v \in Carrier(i) <=> IF v = Mgmt THEN at[i] = Mgmt ELSE <<i, v>> \in macvlan
    BY <1>1, CarrierOf
  <2>3. (w \in Carrier(j))' <=> IF w = Mgmt THEN at'[j] = Mgmt ELSE <<j, w>> \in macvlan'
    BY <1>7, Names DEF Carrier, TypeOK, Vrfs
  <2>4. Default \notin Vrfs /\ Mgmt \notin Data /\ Default # Mgmt /\ at \in [Ifs -> {Default, Mgmt}]
    BY <1>1, Names DEF TypeOK
  <2>5. CASE ~o.ok /\ at' = at /\ macvlan' = macvlan
    BY <2>1, <2>2, <2>3, <2>4, <2>5
  <2>6. CASE /\ o.ok /\ v \in Data /\ <<i, v>> \in macvlan
             /\ at' = at /\ macvlan' = macvlan \ {<<i, v>>}
    BY <2>1, <2>2, <2>3, <2>4, <2>6
  <2>7. CASE o.ok /\ v = Mgmt /\ at[i] = Mgmt /\ at' = [at EXCEPT ![i] = Default] /\ macvlan' = macvlan
    BY <2>1, <2>2, <2>3, <2>4, <2>7
  <2> QED
    BY <1>9, <2>5, <2>6, <2>7
<1>11. ASSUME modes \cap {"fail", "again"} = {}
       PROVE  InPlace'
  <2>1. InPlace /\ "fail" \notin modes
    BY <1>11 DEF IInv
  <2> SUFFICES ASSUME NEW j \in Ifs PROVE Carrier(j)' = {bound'[j]} \ {None}
    BY DEF InPlace
  <2>2. Carrier(j) = {bound[j]} \ {None} /\ Carrier(j) \subseteq Vrfs /\ Carrier(j)' \subseteq Vrfs
    <3>1. Carrier(j)' \subseteq Vrfs
      BY <1>7, Names DEF Carrier, TypeOK, Vrfs
    <3> QED
      BY <1>1, <2>1, <3>1, CarrierType DEF InPlace
  <2>3. \A w \in Vrfs : w \in Carrier(j)' <=> w \in Carrier(j) /\ ~(o.ok /\ j = i /\ w = v)
    BY <1>10, <2>1
  <2>4. Carrier(j)' = Carrier(j) \ {w \in {v} : o.ok /\ j = i}
    BY <2>2, <2>3
  <2>5. o.ok => v \in Carrier(i)
    BY <1>10, <2>1
  <2>6. None \notin Vrfs /\ bound[j] \in Vrfs \cup {None}
    BY <1>6, Names
  <2>7. CASE o.ok /\ j = i
    <3>1. bound[i] = v /\ bound'[j] = None
      BY <1>2, <1>6, <2>2, <2>5, <2>7
    <3> QED
      BY <2>2, <2>4, <2>7, <3>1
  <2>8. CASE ~(o.ok /\ j = i)
    <3>1. bound'[j] = bound[j]
      BY <1>2, <1>6, <2>8
    <3> QED
      BY <2>2, <2>4, <2>8, <3>1
  <2> QED
    BY <2>7, <2>8
<1>12. ASSUME modes \cap {"fail", "again", "absent"} = {}
       PROVE  Rebindable'
  <2>1. Rebindable /\ "fail" \notin modes
    BY <1>12 DEF IInv
  <2> QED
    BY <1>9, <2>1 DEF Rebindable
<1>13. ASSUME modes \cap {"fail", "again", "wrong", "early"} = {}
       PROVE  Ipv6Separated'
  <2>1. Ipv6Separated /\ "fail" \notin modes /\ InPlace /\ bound[i] = v
    BY <1>3, <1>13 DEF IInv
  <2>2. v \in Data => \A w \in Data : <<i, w>> \in macvlan <=> w = v
    BY <1>1, <2>1, CarrierOf, Names DEF InPlace, Vrfs, BoundHasLink
  <2>3. \/ ipv6_off' = ipv6_off /\ macvlan' = macvlan
        \/ v \in Data /\ ipv6_off' = ipv6_off \ {i} /\ macvlan' = macvlan \ {<<i, v>>}
    BY <1>9, <2>1, <2>2
  <2> QED
    BY <2>1, <2>2, <2>3 DEF Ipv6Separated
<1>14. ASSUME "fail" \notin modes
       PROVE  RulesInPlace'
  <2>1. RulesInPlace
    BY <1>14 DEF IInv
  <2> SUFFICES ASSUME NEW x \in Places
               PROVE  /\ masq'[x] = IF x[1] \in Carrier(x[2])' THEN 1 ELSE 0
                      /\ x[1] \in Carrier(x[2])' => drop'[x] > 0
    BY DEF RulesInPlace
  <2>2. PICK w \in Vrfs, j \in Ifs : x = <<w, j>>
    BY DEF Places
  <2>3. masq \in [Places -> Nat] /\ <<v, i>> \in Places
    BY <1>1 DEF TypeOK, Places
  <2>4. masq[x] = (IF w \in Carrier(j) THEN 1 ELSE 0) /\ (w \in Carrier(j) => drop[x] > 0)
    BY <2>1, <2>2 DEF RulesInPlace
  <2>5. /\ w \in Carrier(j)' <=> w \in Carrier(j) /\ ~(o.ok /\ j = i /\ w = v)
        /\ o.ok => v \in Carrier(i)
    BY <1>10, <1>14
  <2>6. drop' = drop
    BY <1>9, <1>14
  <2>7. CASE ~o.ok
    BY <1>9, <1>14, <2>2, <2>4, <2>5, <2>6, <2>7
  <2>8. CASE o.ok /\ x = <<v, i>>
    <3>1. w = v /\ j = i
      BY <2>2, <2>8
    <3>2. masq[x] = 1
      BY <2>4, <2>5, <2>8, <3>1
    <3>3. masq'[x] = 0
      BY <1>9, <1>14, <2>3, <2>8, <3>2
    <3> QED
      BY <2>2, <2>5, <2>8, <3>1, <3>3
  <2>9. CASE o.ok /\ x # <<v, i>>
    <3>1. masq'[x] = masq[x]
      BY <1>9, <1>14, <2>3, <2>9
    <3> QED
      BY <2>2, <2>4, <2>5, <2>6, <2>9, <3>1
  <2> QED
    BY <1>4, <2>7, <2>8, <2>9
<1> QED
  BY <1>7, <1>8, <1>11, <1>12, <1>13, <1>14 DEF IInv, WellFormed

(* A VRF that is created holds nothing.                                    *)
LEMMA CreateVrfKeeps ==
  ASSUME IInv, NEW v \in Vrfs, CreateVrf(v), UNCHANGED modes
  PROVE  IInv'
<1>1. /\ netns' = netns \cup {v}
      /\ UNCHANGED <<at, macvlan, ipv6_off, drop, masq, bound, modes>>
  BY DEF CreateVrf, kernel
<1>2. WellFormed'
  BY <1>1 DEF IInv, WellFormed, TypeOK, BoundHasLink
<1> QED
  BY <1>1, <1>2 DEF IInv, InPlace, Rebindable, Ipv6Separated, RulesInPlace, Carrier

(* With a VRF go its links, its rules and its bindings, together.          *)
LEMMA DeleteVrfKeeps ==
  ASSUME IInv, NEW v \in Vrfs, DeleteVrf(v), UNCHANGED modes
  PROVE  IInv'
<1>1. TypeOK /\ BoundHasLink
  BY DEF IInv, WellFormed
<1>2. /\ netns' = netns \ {v}
      /\ macvlan' = {x \in macvlan : x[2] # v}
      /\ at' = [i \in Ifs |-> IF at[i] = v THEN Default ELSE at[i]]
      /\ drop' = [x \in Places |-> IF x[1] = v THEN 0 ELSE drop[x]]
      /\ masq' = [x \in Places |-> IF x[1] = v THEN 0 ELSE masq[x]]
      /\ bound' = [i \in Ifs |-> IF bound[i] = v THEN None ELSE bound[i]]
      /\ ipv6_off' = ipv6_off
      /\ (\E i \in Ifs : bound[i] = v) => "early" \in modes
  BY DEF DeleteVrf
<1>3. None \notin Vrfs /\ Default \notin Vrfs /\ Default \notin Data /\ Data \subseteq Vrfs
  BY Names DEF Vrfs
<1>4. TypeOK'
  <2>1. netns' \subseteq Vrfs /\ at' \in [Ifs -> {Default, Mgmt}] /\ ipv6_off' \subseteq Ifs
    BY <1>1, <1>2 DEF TypeOK
  <2>2. \A i \in Ifs : at'[i] \in netns' \cup {Default}
    BY <1>1, <1>2 DEF TypeOK
  <2>3. macvlan' \subseteq Ifs \X (Data \cup {Default}) /\ \A x \in macvlan' : x[2] \in netns' \cup {Default}
    BY <1>1, <1>2 DEF TypeOK
  <2>4. drop' \in [Places -> Nat] /\ masq' \in [Places -> Nat] /\ bound' \in [Ifs -> Vrfs \cup {None}]
    BY <1>1, <1>2 DEF TypeOK
  <2> QED
    BY <2>1, <2>2, <2>3, <2>4 DEF TypeOK
<1>5. BoundHasLink'
  BY <1>1, <1>2, <1>3 DEF BoundHasLink
<1>6. \A j \in Ifs : Carrier(j)' = Carrier(j) \ {v}
  <2> SUFFICES ASSUME NEW j \in Ifs, NEW w PROVE w \in Carrier(j)' <=> w \in Carrier(j) /\ w # v
    BY Zenon
  <2>1. at'[j] = IF at[j] = v THEN Default ELSE at[j]
    BY <1>2
  <2>2. w \in Data => (<<j, w>> \in macvlan' <=> <<j, w>> \in macvlan /\ w # v)
    BY <1>2
  <2> QED
    BY <1>3, <2>1, <2>2 DEF Carrier
<1>7. InPlace => InPlace'
  BY <1>2, <1>3, <1>6 DEF InPlace
<1>8. Rebindable => Rebindable'
  BY <1>2 DEF Rebindable
<1>9. ASSUME modes \cap {"fail", "again", "wrong", "early"} = {}
      PROVE  Ipv6Separated'
  <2>1. Ipv6Separated /\ InPlace /\ \A i \in Ifs : bound[i] # v
    BY <1>2, <1>9 DEF IInv
  <2>2. \A i \in Ifs, w \in Data : <<i, w>> \in macvlan => w # v
    BY <2>1 DEF InPlace, Carrier
  <2>3. \A i \in Ifs, w \in Data : <<i, w>> \in macvlan' <=> <<i, w>> \in macvlan
    BY <1>2, <2>2
  <2> QED
    BY <1>2, <2>1, <2>3 DEF Ipv6Separated
<1>10. RulesInPlace => RulesInPlace'
  <2> SUFFICES ASSUME RulesInPlace, NEW x \in Places
               PROVE  /\ masq'[x] = IF x[1] \in Carrier(x[2])' THEN 1 ELSE 0
                      /\ x[1] \in Carrier(x[2])' => drop'[x] > 0
    BY DEF RulesInPlace
  <2>1. /\ masq'[x] = IF x[1] = v THEN 0 ELSE masq[x]
        /\ drop'[x] = IF x[1] = v THEN 0 ELSE drop[x]
    BY <1>2
  <2>2. Carrier(x[2])' = Carrier(x[2]) \ {v}
    BY <1>6 DEF Places
  <2>3. masq[x] = (IF x[1] \in Carrier(x[2]) THEN 1 ELSE 0) /\ (x[1] \in Carrier(x[2]) => drop[x] > 0)
    BY DEF RulesInPlace
  <2> QED
    BY <2>1, <2>2, <2>3
<1> QED
  BY <1>4, <1>5, <1>7, <1>8, <1>9, <1>10 DEF IInv, WellFormed

(* Every request keeps the invariant.                                      *)
LEMMA StepKeeps == IInv /\ [Next]_vars => IInv'
<1> SUFFICES ASSUME IInv, [Next]_vars PROVE IInv'
  OBVIOUS
<1>1. CASE Next
  <2>1. ASSUME NEW i \in Ifs, NEW v \in Vrfs, Bind(i, v) PROVE IInv'
    BY <1>1, <2>1, BindKeeps DEF Next
  <2>2. ASSUME NEW i \in Ifs, NEW v \in Vrfs, Unbind(i, v) PROVE IInv'
    BY <1>1, <2>2, UnbindKeeps DEF Next
  <2>3. ASSUME NEW v \in Vrfs, CreateVrf(v) PROVE IInv'
    BY <1>1, <2>3, CreateVrfKeeps DEF Next
  <2>4. ASSUME NEW v \in Vrfs, DeleteVrf(v) PROVE IInv'
    BY <1>1, <2>4, DeleteVrfKeeps DEF Next
  <2> QED
    BY <1>1, <2>1, <2>2, <2>3, <2>4 DEF Next, Request
<1>2. CASE UNCHANGED vars
  <2>1. UNCHANGED <<modes, netns, at, macvlan, ipv6_off, drop, masq, bound>>
    BY <1>2 DEF vars, kernel
  <2> QED
    BY <2>1 DEF IInv, WellFormed, TypeOK, BoundHasLink, InPlace, Rebindable, Ipv6Separated,
                RulesInPlace, Carrier
<1> QED
  BY <1>1, <1>2

(* The invariant holds in every reachable state.                           *)
LEMMA Invariance == Spec => []IInv
<1>1. Init => IInv
  BY InitEstablishes
<1>2. IInv /\ [Next]_vars => IInv'
  BY StepKeeps
<1> QED
  BY <1>1, <1>2, PTL DEF Spec

(* The kernel's tables and the binding keep their types, and what the      *)
(* requester was told is bound to a VRF by a link has that link, whatever  *)
(* fails (set_vrf_intf_cb, process_vrf_intf_config).                       *)
THEOREM BoundHasLinkAlways == Spec => []WellFormed
<1>1. IInv => WellFormed
  BY DEF IInv
<1> QED
  BY <1>1, Invariance, PTL

(* An interface is in the VRF that the requester was told and in no other  *)
(* one, and stays bindable, unless commands fail or binds are repeated.    *)
THEOREM InPlaceAlways == Spec => []InPlaceUnlessPartial
<1>1. IInv => InPlaceUnlessPartial
  <2> SUFFICES ASSUME IInv, modes \cap {"fail", "again"} = {}
               PROVE  InPlace /\ ("absent" \in modes \/ Rebindable)
    BY DEF InPlaceUnlessPartial
  <2>1. InPlace
    BY DEF IInv
  <2>2. "absent" \notin modes => Rebindable
    BY DEF IInv
  <2> QED
    BY <2>1, <2>2
<1> QED
  BY <1>1, Invariance, PTL

(* IPv6 is disabled on exactly the interfaces that have a link in a VRF,   *)
(* where the requests fit and no command fails.                            *)
THEOREM Ipv6SeparatedAlways == Spec => []Ipv6SeparatedUnlessMisused
<1>1. IInv => Ipv6SeparatedUnlessMisused
  BY DEF IInv, Ipv6SeparatedUnlessMisused
<1> QED
  BY <1>1, Invariance, PTL

(* One MASQUERADE rule for an interface in the VRF it is in, none in the   *)
(* others, and DROP rules at least where it is, unless commands fail.      *)
THEOREM RulesInPlaceAlways == Spec => []RulesInPlaceUnlessFail
<1>1. IInv => RulesInPlaceUnlessFail
  BY DEF IInv, RulesInPlaceUnlessFail
<1> QED
  BY <1>1, Invariance, PTL
=============================================================================
