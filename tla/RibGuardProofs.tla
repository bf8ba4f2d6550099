--------------------------- MODULE RibGuardProofs ---------------------------
(***************************************************************************)
(* The guard's alarms keep their books and tell the truth, for any set of   *)
(* edges, families and prefixes.                                            *)
(***************************************************************************)
EXTENDS RibGuard, TLAPS

(***************************************************************************)
(* Every fold yields a well-formed view.                                   *)
(***************************************************************************)
LEMMA FoldTypes ==
    ASSUME NEW v \in EdgeViewType
    PROVE  /\ FoldPeerUp(v) \in EdgeViewType
           /\ FoldPeerDown(v) \in EdgeViewType
           /\ \A f \in Families : FoldEOR(v, f) \in EdgeViewType
           /\ \A p \in Prefixes, lc \in BOOLEAN :
                 /\ FoldPathUpdate(v, p, lc) \in EdgeViewType
                 /\ FoldWithdrawal(v, p, lc) \in EdgeViewType
<1>1. FoldPeerUp(v) \in EdgeViewType /\ FoldPeerDown(v) \in EdgeViewType
  BY DEF Fresh, FoldPeerUp, FoldPeerDown, EdgeViewType
<1>2. \A f \in Families : FoldEOR(v, f) \in EdgeViewType
  BY DEF FoldEOR, EdgeViewType
<1>3. \A p \in Prefixes, lc \in BOOLEAN : FoldPathUpdate(v, p, lc) \in EdgeViewType
  BY DEF FoldPathUpdate, EdgeViewType
<1>4. \A p \in Prefixes, lc \in BOOLEAN : FoldWithdrawal(v, p, lc) \in EdgeViewType
  BY DEF FoldWithdrawal, EdgeViewType
<1> QED BY <1>1, <1>2, <1>3, <1>4

(***************************************************************************)
(* affectedHosts is complete: a host an event does not name as affected     *)
(* keeps its sources (the premise of conflictTransitions).                 *)
(***************************************************************************)
LEMMA AffectedComplete ==
    ASSUME NEW v \in EdgeViewType, NEW h \in HostPrefixes
    PROVE  /\ h \notin AffectedBySession(v) =>
                  /\ h \in FoldPeerUp(v).hosts <=> h \in v.hosts
                  /\ h \in FoldPeerDown(v).hosts <=> h \in v.hosts
           /\ \A f \in Families : h \in FoldEOR(v, f).hosts <=> h \in v.hosts
           /\ \A p \in Prefixes, lc \in BOOLEAN : h \notin AffectedByPath(p, lc) =>
                  /\ h \in FoldPathUpdate(v, p, lc).hosts <=> h \in v.hosts
                  /\ h \in FoldWithdrawal(v, p, lc).hosts <=> h \in v.hosts
<1>1. h \notin AffectedBySession(v) =>
          /\ h \in FoldPeerUp(v).hosts <=> h \in v.hosts
          /\ h \in FoldPeerDown(v).hosts <=> h \in v.hosts
  BY DEF AffectedBySession, FoldPeerUp, FoldPeerDown, Fresh
<1>2. \A f \in Families : h \in FoldEOR(v, f).hosts <=> h \in v.hosts
  BY DEF FoldEOR, EdgeViewType
<1>3. \A p \in Prefixes, lc \in BOOLEAN : h \notin AffectedByPath(p, lc) =>
          /\ h \in FoldPathUpdate(v, p, lc).hosts <=> h \in v.hosts
          /\ h \in FoldWithdrawal(v, p, lc).hosts <=> h \in v.hosts
  BY DEF AffectedByPath, FoldPathUpdate, FoldWithdrawal, EdgeViewType
<1> QED BY <1>1, <1>2, <1>3

(***************************************************************************)
(* What the audit does not list as drift keeps its sources, too.           *)
(***************************************************************************)
LEMMA DriftComplete ==
    ASSUME NEW v \in EdgeViewType, NEW f \in Families,
           NEW auth \in SUBSET HostPrefixes, NEW h \in HostPrefixes,
           h \notin Missed(v, f, auth) \cup Stale(v, f, auth)
    PROVE  h \in Reconciled(v, f, auth).hosts <=> h \in v.hosts
BY DEF Reconciled, EdgeViewType

LEMMA SourcesUnchanged ==
    ASSUME NEW w \in [Edges -> EdgeViewType], NEW e \in Edges,
           NEW v \in EdgeViewType, NEW h \in HostPrefixes,
           h \in v.hosts <=> h \in w[e].hosts
    PROVE  MultiSourced([w EXCEPT ![e] = v], h) <=> MultiSourced(w, h)
BY DEF MultiSourced

\* Crossings counts each affected prefix whose status changed, once.
LEMMA CrossingsExact ==
    ASSUME NEW affected, NEW w, NEW x, NEW h \in HostPrefixes,
           h \notin affected => (MultiSourced(x, h) <=> MultiSourced(w, h))
    PROVE  /\ Crossings(affected, w, x)[h] \in {-1, 0, 1}
           /\ (IF MultiSourced(w, h) THEN 1 ELSE 0) + Crossings(affected, w, x)[h]
                 = IF MultiSourced(x, h) THEN 1 ELSE 0
<1>1. Crossings(affected, w, x)[h] =
        IF h \in affected /\ MultiSourced(x, h) # MultiSourced(w, h)
        THEN IF MultiSourced(x, h) THEN 1 ELSE -1 ELSE 0
  BY DEF Crossings
<1>2. MultiSourced(x, h) \in BOOLEAN /\ MultiSourced(w, h) \in BOOLEAN
  BY DEF MultiSourced
<1> HIDE DEF MultiSourced
<1>3. CASE MultiSourced(x, h) = MultiSourced(w, h)
  BY <1>1, <1>2, <1>3
<1>4. CASE MultiSourced(x, h) # MultiSourced(w, h)
  BY <1>1, <1>2, <1>4
<1> QED BY <1>3, <1>4

LEMMA CrossingsType ==
    ASSUME NEW affected, NEW w, NEW x
    PROVE  Crossings(affected, w, x) \in [HostPrefixes -> {-1, 0, 1}]
BY DEF Crossings

-----------------------------------------------------------------------------
(***************************************************************************)
(* The three invariants are inductive together.                            *)
(***************************************************************************)
IInv == TypeOK /\ AlarmBalance /\ ViewAlarmTrue

LEMMA InitIInv == Init => IInv
<1> SUFFICES ASSUME Init PROVE IInv
  OBVIOUS
<1>1. Fresh \in EdgeViewType
  BY DEF Fresh, EdgeViewType
<1>2. TypeOK
  BY <1>1 DEF Init, TypeOK, NoCrossing, Goroutines
<1>3. AlarmBalance
  <2> SUFFICES ASSUME NEW p \in HostPrefixes
               PROVE  account[p] + crossing["tap"][p] + crossing["audit"][p]
                        = IF MultiSourced(view, p) THEN 1 ELSE 0
    BY DEF AlarmBalance
  <2>1. ~MultiSourced(view, p)
    BY DEF Init, MultiSourced, Fresh
  <2>2. account[p] = 0 /\ crossing["tap"][p] = 0 /\ crossing["audit"][p] = 0
    BY DEF Init, NoCrossing, Goroutines
  <2> QED BY <2>1, <2>2
<1>4. ViewAlarmTrue
  BY DEF Init, ViewAlarmTrue, Valid, Fresh
<1> QED BY <1>2, <1>3, <1>4 DEF IInv

(***************************************************************************)
(* One fold by the tap, whatever the event, provided the new view is well   *)
(* formed and the affected hosts are complete.                              *)
(***************************************************************************)
LEMMA OnEventIInv ==
    ASSUME IInv, NEW e \in Edges, NEW v \in EdgeViewType, NEW affected,
           \A h \in HostPrefixes : h \notin affected => (h \in v.hosts <=> h \in view[e].hosts),
           OnEvent(e, v, affected)
    PROVE  IInv'
<1> DEFINE x == [view EXCEPT ![e] = v]
<1>1. x \in [Edges -> EdgeViewType] /\ view' = x
  BY DEF IInv, TypeOK, OnEvent
<1>2. crossing' = [crossing EXCEPT !["tap"] = Crossings(affected, view, x)]
  BY DEF OnEvent
<1>3. TypeOK'
  <2>1. crossing' \in [Goroutines -> [HostPrefixes -> {-1, 0, 1}]]
    BY <1>2, CrossingsType DEF IInv, TypeOK
  <2>2. flipped' \in SUBSET (Edges \X Families \X BOOLEAN)
    <3>1. \A f \in Families : Valid(v, f) \in BOOLEAN
      BY DEF Valid, EdgeViewType
    <3> HIDE DEF Valid
    <3> QED BY <3>1 DEF OnEvent, ViewTransitions
  <2> QED BY <1>1, <2>1, <2>2 DEF OnEvent, IInv, TypeOK
<1>4. AlarmBalance'
  <2> SUFFICES ASSUME NEW p \in HostPrefixes
               PROVE  account'[p] + crossing'["tap"][p] + crossing'["audit"][p]
                        = IF MultiSourced(view', p) THEN 1 ELSE 0
    BY DEF AlarmBalance
  <2> HIDE DEF x
  <2>1. p \notin affected => (MultiSourced(x, p) <=> MultiSourced(view, p))
    BY SourcesUnchanged DEF IInv, TypeOK, x
  <2>2. /\ (IF MultiSourced(view, p) THEN 1 ELSE 0) + Crossings(affected, view, x)[p]
              = IF MultiSourced(x, p) THEN 1 ELSE 0
        /\ Crossings(affected, view, x)[p] \in {-1, 0, 1}
    BY <2>1, CrossingsExact
  <2>3. /\ crossing'["tap"][p] = Crossings(affected, view, x)[p]
        /\ crossing'["audit"][p] = crossing["audit"][p]
        /\ crossing["tap"][p] = 0
        /\ account'[p] = account[p]
    BY <1>2 DEF IInv, TypeOK, OnEvent, Fired, NoCrossing, Goroutines
  <2>4. account[p] \in Int /\ crossing["audit"][p] \in {-1, 0, 1}
    BY DEF IInv, TypeOK, Goroutines
  <2>5. account[p] + crossing["tap"][p] + crossing["audit"][p]
          = IF MultiSourced(view, p) THEN 1 ELSE 0
    BY DEF IInv, AlarmBalance
  <2> HIDE DEF MultiSourced, Crossings
  <2> QED BY <1>1, <2>2, <2>3, <2>4, <2>5
<1>5. ViewAlarmTrue'
  <2> SUFFICES ASSUME NEW d \in Edges, NEW f \in Families
               PROVE  IF told'[d][f] = Valid(view'[d], f)
                      THEN \A b \in BOOLEAN : <<d, f, b>> \notin flipped'
                      ELSE <<d, f, Valid(view'[d], f)>> \in flipped'
                           /\ <<d, f, told'[d][f]>> \notin flipped'
    BY DEF ViewAlarmTrue
  <2>1. flipped = {} /\ told' = told
    BY DEF OnEvent, Fired
  <2>2. told[d][f] = Valid(view[d], f)
    BY <2>1 DEF IInv, ViewAlarmTrue
  <2>3. CASE d # e
    BY <1>1, <2>1, <2>2, <2>3 DEF OnEvent, ViewTransitions, IInv, TypeOK
  <2>4. CASE d = e
    <3>1. view'[d] = v
      BY <1>1, <2>4 DEF IInv, TypeOK
    <3>2. flipped' = {<<e, g, Valid(v, g)>> : g \in {k \in Families : Valid(v, k) # Valid(view[e], k)}}
      BY DEF OnEvent, ViewTransitions
    <3>3. Valid(v, f) \in BOOLEAN /\ Valid(view[e], f) \in BOOLEAN
      BY DEF Valid, IInv, TypeOK, EdgeViewType
    <3> HIDE DEF Valid
    <3>4. CASE Valid(v, f) = Valid(view[e], f)
      BY <2>1, <2>2, <2>4, <3>1, <3>2, <3>4
    <3>5. CASE Valid(v, f) # Valid(view[e], f)
      BY <2>1, <2>2, <2>4, <3>1, <3>2, <3>3, <3>5
    <3> QED BY <3>4, <3>5
  <2> QED BY <2>3, <2>4
<1> QED BY <1>3, <1>4, <1>5 DEF IInv

LEMMA ReconcileHostsIInv ==
    ASSUME IInv, NEW e \in Edges, NEW f \in Families,
           NEW auth \in SUBSET HostPrefixes, ReconcileHosts(e, f, auth)
    PROVE  IInv'
<1> DEFINE drift == Missed(view[e], f, auth) \cup Stale(view[e], f, auth)
           v == Reconciled(view[e], f, auth)
           x == [view EXCEPT ![e] = v]
<1>0. view[e] \in EdgeViewType
  BY DEF IInv, TypeOK
<1>1. v \in EdgeViewType /\ x \in [Edges -> EdgeViewType] /\ view' = x
  <2>1. v \in EdgeViewType
    BY <1>0 DEF Reconciled, Missed, Stale, OfFamily, EdgeViewType
  <2> QED BY <2>1 DEF IInv, TypeOK, ReconcileHosts
<1>2. crossing' = [crossing EXCEPT !["audit"] = Crossings(drift, view, x)]
  BY DEF ReconcileHosts
<1>3. TypeOK'
  <2>1. crossing' \in [Goroutines -> [HostPrefixes -> {-1, 0, 1}]]
    BY <1>2, CrossingsType DEF IInv, TypeOK
  <2> QED BY <1>1, <2>1 DEF ReconcileHosts, IInv, TypeOK
<1>4. AlarmBalance'
  <2> SUFFICES ASSUME NEW p \in HostPrefixes
               PROVE  account'[p] + crossing'["tap"][p] + crossing'["audit"][p]
                        = IF MultiSourced(view', p) THEN 1 ELSE 0
    BY DEF AlarmBalance
  <2>1. p \notin drift => (MultiSourced(x, p) <=> MultiSourced(view, p))
    BY <1>0, <1>1, DriftComplete, SourcesUnchanged DEF IInv, TypeOK
  <2> HIDE DEF x, drift
  <2>2. /\ (IF MultiSourced(view, p) THEN 1 ELSE 0) + Crossings(drift, view, x)[p]
              = IF MultiSourced(x, p) THEN 1 ELSE 0
        /\ Crossings(drift, view, x)[p] \in {-1, 0, 1}
    BY <2>1, CrossingsExact
  <2>3. /\ crossing'["audit"][p] = Crossings(drift, view, x)[p]
        /\ crossing'["tap"][p] = crossing["tap"][p]
        /\ crossing["audit"][p] = 0
        /\ account'[p] = account[p]
    BY <1>2 DEF IInv, TypeOK, ReconcileHosts, Fired, NoCrossing, Goroutines
  <2>4. account[p] \in Int /\ crossing["tap"][p] \in {-1, 0, 1}
    BY DEF IInv, TypeOK, Goroutines
  <2>5. account[p] + crossing["tap"][p] + crossing["audit"][p]
          = IF MultiSourced(view, p) THEN 1 ELSE 0
    BY DEF IInv, AlarmBalance
  <2> HIDE DEF MultiSourced, Crossings
  <2> QED BY <1>1, <2>2, <2>3, <2>4, <2>5
<1>5. ViewAlarmTrue'
  <2>1. \A d \in Edges, g \in Families : Valid(view'[d], g) <=> Valid(view[d], g)
    BY <1>0, <1>1 DEF Reconciled, Valid, EdgeViewType, IInv, TypeOK
  <2>2. \A d \in Edges, g \in Families :
          Valid(view'[d], g) \in BOOLEAN /\ Valid(view[d], g) \in BOOLEAN
    BY <1>1 DEF Valid, EdgeViewType, IInv, TypeOK
  <2>3. flipped' = flipped /\ told' = told
    BY DEF ReconcileHosts
  <2> HIDE DEF Valid
  <2> SUFFICES ASSUME NEW d \in Edges, NEW g \in Families
               PROVE  IF told'[d][g] = Valid(view'[d], g)
                      THEN \A b \in BOOLEAN : <<d, g, b>> \notin flipped'
                      ELSE <<d, g, Valid(view'[d], g)>> \in flipped'
                           /\ <<d, g, told'[d][g]>> \notin flipped'
    BY DEF ViewAlarmTrue
  <2>4. Valid(view'[d], g) = Valid(view[d], g)
    BY <2>1, <2>2
  <2> QED BY <2>3, <2>4 DEF IInv, ViewAlarmTrue
<1> QED BY <1>3, <1>4, <1>5 DEF IInv

LEMMA FireConflictIInv ==
    ASSUME IInv, NEW g \in Goroutines, NEW h \in HostPrefixes, FireConflict(g, h)
    PROVE  IInv'
<1>1. TypeOK'
  <2>1. crossing[g][h] \in {-1, 0, 1} /\ account[h] \in Int
    BY DEF IInv, TypeOK
  <2>2. account' \in [HostPrefixes -> Int]
    BY <2>1 DEF FireConflict, IInv, TypeOK
  <2>3. crossing' \in [Goroutines -> [HostPrefixes -> {-1, 0, 1}]]
    BY DEF FireConflict, IInv, TypeOK
  <2> QED BY <2>2, <2>3 DEF FireConflict, IInv, TypeOK
<1>2. AlarmBalance'
  <2> SUFFICES ASSUME NEW p \in HostPrefixes
               PROVE  account'[p] + crossing'["tap"][p] + crossing'["audit"][p]
                        = IF MultiSourced(view', p) THEN 1 ELSE 0
    BY DEF AlarmBalance
  <2>1. view' = view
    BY DEF FireConflict
  <2>2. account[p] \in Int /\ crossing["tap"][p] \in Int /\ crossing["audit"][p] \in Int
    BY DEF IInv, TypeOK, Goroutines
  <2>3. account'[p] + crossing'["tap"][p] + crossing'["audit"][p]
          = account[p] + crossing["tap"][p] + crossing["audit"][p]
    <3>1. CASE p # h
      BY <3>1 DEF FireConflict, IInv, TypeOK, Goroutines
    <3>2. CASE p = h /\ g = "tap"
      <4>1. account'[p] = account[p] + crossing["tap"][p]
            /\ crossing'["tap"][p] = 0 /\ crossing'["audit"][p] = crossing["audit"][p]
        BY <3>2 DEF FireConflict, IInv, TypeOK, Goroutines
      <4> QED BY <4>1, <2>2
    <3>3. CASE p = h /\ g = "audit"
      <4>1. account'[p] = account[p] + crossing["audit"][p]
            /\ crossing'["audit"][p] = 0 /\ crossing'["tap"][p] = crossing["tap"][p]
        BY <3>3 DEF FireConflict, IInv, TypeOK, Goroutines
      <4> QED BY <4>1, <2>2
    <3> QED BY <3>1, <3>2, <3>3 DEF Goroutines
  <2>4. account[p] + crossing["tap"][p] + crossing["audit"][p]
          = IF MultiSourced(view, p) THEN 1 ELSE 0
    BY DEF IInv, AlarmBalance
  <2> HIDE DEF MultiSourced
  <2> QED BY <2>1, <2>3, <2>4
<1>3. ViewAlarmTrue'
  BY DEF FireConflict, IInv, ViewAlarmTrue
<1> QED BY <1>1, <1>2, <1>3 DEF IInv

LEMMA FireViewIInv ==
    ASSUME IInv, NEW n \in flipped, FireView(n)
    PROVE  IInv'
<1>1. PICK e \in Edges, f \in Families, b \in BOOLEAN : n = <<e, f, b>>
  BY DEF IInv, TypeOK
<1>2. told' = [told EXCEPT ![e] = [@ EXCEPT ![f] = b]] /\ flipped' = flipped \ {<<e, f, b>>}
  BY <1>1 DEF FireView
<1>3. TypeOK'
  BY <1>2 DEF FireView, IInv, TypeOK
<1>4. AlarmBalance'
  BY DEF FireView, IInv, AlarmBalance
<1>5. ViewAlarmTrue'
  <2>0. view' = view
    BY DEF FireView
  <2>1. \A d \in Edges, g \in Families : Valid(view[d], g) \in BOOLEAN /\ told[d][g] \in BOOLEAN
    BY DEF Valid, EdgeViewType, IInv, TypeOK
  <2>2. \A d \in Edges, g \in Families :
          IF told[d][g] = Valid(view[d], g)
          THEN \A c \in BOOLEAN : <<d, g, c>> \notin flipped
          ELSE <<d, g, Valid(view[d], g)>> \in flipped /\ <<d, g, told[d][g]>> \notin flipped
    BY DEF IInv, ViewAlarmTrue
  <2> HIDE DEF Valid
  <2>3. b = Valid(view[e], f) /\ told[e][f] # b
    BY <1>1, <2>1, <2>2
  <2> SUFFICES ASSUME NEW d \in Edges, NEW g \in Families
               PROVE  IF told'[d][g] = Valid(view[d], g)
                      THEN \A c \in BOOLEAN : <<d, g, c>> \notin flipped'
                      ELSE <<d, g, Valid(view[d], g)>> \in flipped'
                           /\ <<d, g, told'[d][g]>> \notin flipped'
    BY <2>0 DEF ViewAlarmTrue
  <2>4. CASE d = e /\ g = f
    <3>1. told'[d][g] = Valid(view[d], g)
      BY <1>2, <2>3, <2>4 DEF IInv, TypeOK
    <3>2. <<e, f, ~b>> \notin flipped
      BY <2>1, <2>2, <2>3
    <3>3. \A c \in BOOLEAN : <<d, g, c>> \notin flipped'
      BY <1>2, <2>4, <3>2
    <3> QED BY <3>1, <3>3
  <2>5. CASE ~(d = e /\ g = f)
    <3>1. told'[d][g] = told[d][g]
      BY <1>2, <2>5 DEF IInv, TypeOK
    <3>2. \A c : <<d, g, c>> \in flipped' <=> <<d, g, c>> \in flipped
      BY <1>2, <2>5
    <3> QED BY <2>2, <3>1, <3>2
  <2> QED BY <2>4, <2>5
<1> QED BY <1>3, <1>4, <1>5 DEF IInv

LEMMA NextIInv == IInv /\ [Next]_vars => IInv'
<1> SUFFICES ASSUME IInv, [Next]_vars PROVE IInv'
  OBVIOUS
<1>0. \A e \in Edges : view[e] \in EdgeViewType
  BY DEF IInv, TypeOK
<1>1. ASSUME NEW e \in Edges, PeerUp(e) PROVE IInv'
  BY <1>0, <1>1, FoldTypes, AffectedComplete, OnEventIInv DEF PeerUp
<1>2. ASSUME NEW e \in Edges, PeerDown(e) PROVE IInv'
  BY <1>0, <1>2, FoldTypes, AffectedComplete, OnEventIInv DEF PeerDown
<1>3. ASSUME NEW e \in Edges, NEW f \in Families, EOR(e, f) PROVE IInv'
  BY <1>0, <1>3, FoldTypes, AffectedComplete, OnEventIInv DEF EOR
<1>4. ASSUME NEW e \in Edges, NEW p \in Prefixes, NEW lc \in BOOLEAN, PathUpdate(e, p, lc)
      PROVE  IInv'
  BY <1>0, <1>4, FoldTypes, AffectedComplete, OnEventIInv DEF PathUpdate
<1>5. ASSUME NEW e \in Edges, NEW p \in Prefixes, NEW lc \in BOOLEAN, Withdrawal(e, p, lc)
      PROVE  IInv'
  BY <1>0, <1>5, FoldTypes, AffectedComplete, OnEventIInv DEF Withdrawal
<1>6. CASE UNCHANGED vars
  BY <1>6 DEF vars, IInv, TypeOK, AlarmBalance, ViewAlarmTrue
<1> QED BY <1>1, <1>2, <1>3, <1>4, <1>5, <1>6, ReconcileHostsIInv, FireConflictIInv,
           FireViewIInv DEF Next, TapNext

LEMMA SpecIInv == Spec => []IInv
<1> QED BY InitIInv, NextIInv, PTL DEF Spec

(***************************************************************************)
(* The guard's state is well formed: the views the two goroutines share are *)
(* always complete records over the configured families and host prefixes.  *)
(***************************************************************************)
THEOREM TypeCorrect == Spec => []TypeOK
<1>1. IInv => TypeOK
  BY DEF IInv
<1> QED BY <1>1, SpecIInv, PTL

(***************************************************************************)
(* Rule 6: no conflict alarm is lost or doubled, however the tap's folds,   *)
(* the audit's repairs and the handler calls interleave.                    *)
(***************************************************************************)
THEOREM AlarmsBalanced == Spec => []AlarmBalance
<1>1. IInv => AlarmBalance
  BY DEF IInv
<1> QED BY <1>1, SpecIInv, PTL

(***************************************************************************)
(* The freeze / thaw alarm agrees with the view's validity up to the one    *)
(* notice in flight.                                                        *)
(***************************************************************************)
THEOREM ViewAlarmsTrue == Spec => []ViewAlarmTrue
<1>1. IInv => ViewAlarmTrue
  BY DEF IInv
<1> QED BY <1>1, SpecIInv, PTL
=============================================================================
