---------------------------- MODULE RibTapProofs ----------------------------
(***************************************************************************)
(* A trusted view is of the current session, for any edges, families,       *)
(* prefixes and bounds, whatever the audit does and the watch loses.        *)
(***************************************************************************)
EXTENDS RibTap, TLAPS

LEMMA TypeInit == Init => TypeOK
BY PrefixAssumption
   DEF Init, TypeOK, IdleSink, IdleAudit, Fresh, EdgeViewType, EventType, Paths

-----------------------------------------------------------------------------
(***************************************************************************)
(* Types.                                                                  *)
(***************************************************************************)
LEMMA FoldTypes ==
    ASSUME NEW v \in EdgeViewType, NEW p \in Prefixes, NEW lc \in BOOLEAN
    PROVE  /\ FoldPathUpdate(v, p, lc) \in EdgeViewType
           /\ FoldWithdrawal(v, p, lc) \in EdgeViewType
<1>1. FoldPathUpdate(v, p, lc) \in EdgeViewType
  BY DEF FoldPathUpdate, EdgeViewType
<1>2. FoldWithdrawal(v, p, lc) \in EdgeViewType
  BY DEF FoldWithdrawal, EdgeViewType
<1> QED BY <1>1, <1>2

LEMMA AppendTypes ==
    ASSUME NEW q \in Seq(EventType), NEW ev \in EventType
    PROVE  Append(q, ev) \in Seq(EventType)
OBVIOUS

LEMMA TailTypes ==
    ASSUME NEW q \in Seq(EventType), q # <<>>
    PROVE  Head(q) \in EventType /\ Tail(q) \in Seq(EventType)
OBVIOUS

LEMMA HeadTypes ==
    ASSUME NEW ev \in EventType
    PROVE  /\ ev.edge \in Edges
           /\ ev.kind \in {"state", "eor", "path"}
           /\ ev.kind = "state" => ev.up \in BOOLEAN
           /\ ev.kind = "eor" => ev.family \in Families
           /\ ev.kind = "path" => ev.prefix \in Prefixes /\ ev.withdrawal \in BOOLEAN
BY DEF EventType

LEMMA SinkTypes == TypeOK /\ SinkNext => TypeOK'
<1> SUFFICES ASSUME TypeOK, SinkNext PROVE TypeOK'
  OBVIOUS
<1> USE DEF TypeOK, gobgp, coverage, IdleSink
<1>1. ASSUME NEW want \in SUBSET Edges, Ensure(want) PROVE TypeOK'
  BY <1>1 DEF Ensure
<1>2. ASSUME NEW e \in Edges, AddPeer(e) PROVE TypeOK'
  BY <1>2 DEF AddPeer
<1>3. ASSUME NEW e \in Edges, RegisterEdge(e) PROVE TypeOK'
  BY <1>3 DEF RegisterEdge
<1>4. ASSUME NEW e \in Edges, DeletePeer(e) PROVE TypeOK'
  <2> DEFINE ev == StateEvent(e, FALSE)
  <2>1. ev \in EventType
    BY DEF EventType, StateEvent
  <2>2. evq' = evq \/ evq' = Append(evq, ev)
    BY <1>4 DEF DeletePeer
  <2> HIDE DEF ev
  <2>3. evq' \in Seq(EventType)
    BY <2>1, <2>2, AppendTypes
  <2> QED BY <1>4, <2>3 DEF DeletePeer
<1>5. ASSUME NEW e \in Edges, ForgetEdge(e) PROVE TypeOK'
  BY <1>5 DEF ForgetEdge
<1>6. ASSUME NEW e \in Edges, SkipEdge(e) PROVE TypeOK'
  BY <1>6 DEF SkipEdge
<1> QED BY <1>1, <1>2, <1>3, <1>4, <1>5, <1>6 DEF SinkNext

LEMMA GoBGPTypes == TypeOK /\ GoBGPNext => TypeOK'
<1> SUFFICES ASSUME TypeOK, GoBGPNext PROVE TypeOK'
  OBVIOUS
<1> USE DEF TypeOK, coverage
<1>1. ASSUME NEW e \in Edges, SessionUp(e) PROVE TypeOK'
  <2>1. evq' \in Seq(EventType)
    BY <1>1, AppendTypes DEF SessionUp, Emit, EventType, StateEvent
  <2> QED BY <1>1, <2>1 DEF SessionUp
<1>2. ASSUME NEW e \in Edges, SessionDown(e) PROVE TypeOK'
  <2>1. evq' \in Seq(EventType)
    BY <1>2, AppendTypes DEF SessionDown, Emit, EventType, StateEvent
  <2> QED BY <1>2, <2>1 DEF SessionDown
<1>3. ASSUME NEW e \in Edges, NEW f \in Families, EndOfRib(e, f) PROVE TypeOK'
  <2>1. evq' \in Seq(EventType)
    BY <1>3, AppendTypes DEF EndOfRib, Emit, EventType, EorEvent
  <2> QED BY <1>3, <2>1 DEF EndOfRib
<1>4. ASSUME NEW e \in Edges, NEW path \in Paths, Announce(e, path) PROVE TypeOK'
  <2> DEFINE ev == PathEvent(e, path[1], FALSE)
  <2>1. ev \in EventType
    BY DEF EventType, PathEvent, Paths
  <2>2. evq' = evq \/ evq' = Append(evq, ev)
    BY <1>4 DEF Announce, EmitLossy, Emit
  <2> HIDE DEF ev
  <2>3. evq' \in Seq(EventType)
    BY <2>1, <2>2, AppendTypes
  <2> QED BY <1>4, <2>3 DEF Announce
<1>5. ASSUME NEW e \in Edges, NEW path \in Paths, WithdrawPath(e, path) PROVE TypeOK'
  <2> DEFINE ev == PathEvent(e, path[1], TRUE)
  <2>1. ev \in EventType
    BY DEF EventType, PathEvent, Paths
  <2>2. evq' = evq \/ evq' = Append(evq, ev)
    BY <1>5 DEF WithdrawPath, EmitLossy, Emit
  <2> HIDE DEF ev
  <2>3. evq' \in Seq(EventType)
    BY <2>1, <2>2, AppendTypes
  <2> QED BY <1>5, <2>3 DEF WithdrawPath
<1> QED BY <1>1, <1>2, <1>3, <1>4, <1>5 DEF GoBGPNext

LEMMA TapTypes == TypeOK /\ TapStep => TypeOK'
<1> SUFFICES ASSUME TypeOK, TapStep PROVE TypeOK'
  OBVIOUS
<1> USE DEF TypeOK, gobgp, coverage
<1> DEFINE ev == Head(evq)
<1>1. evq # <<>> /\ evq' = Tail(evq)
  BY DEF TapStep, DropUnknown, DeliverPath, DeliverEor, DeliverState, Take
<1>2. ev \in EventType /\ evq' \in Seq(EventType)
  BY <1>1, TailTypes
<1>3. /\ ev.edge \in Edges
      /\ ev.kind = "state" => ev.up \in BOOLEAN
      /\ ev.kind = "eor" => ev.family \in Families
      /\ ev.kind = "path" => ev.prefix \in Prefixes
  BY <1>2, HeadTypes
<1>4. view[ev.edge] \in EdgeViewType
  BY <1>3
<1>5. CASE DropUnknown
  BY <1>2, <1>5 DEF DropUnknown
<1>6. CASE DeliverPath
  <2>1. ev.kind = "path"
    BY <1>6 DEF DeliverPath, Take
  <2> DEFINE lc == ev.prefix \in CanaryPrefixes
             v == IF ev.withdrawal THEN FoldWithdrawal(view[ev.edge], ev.prefix, FALSE)
                  ELSE FoldPathUpdate(view[ev.edge], ev.prefix, lc)
  <2>2. v \in EdgeViewType
    <3>1. lc \in BOOLEAN /\ ev.prefix \in Prefixes
      BY <1>3, <2>1
    <3> HIDE DEF lc, ev
    <3>2. FoldPathUpdate(view[ev.edge], ev.prefix, lc) \in EdgeViewType
      BY <1>4, <3>1, FoldTypes
    <3>3. FoldWithdrawal(view[ev.edge], ev.prefix, FALSE) \in EdgeViewType
      BY <1>4, <3>1, FoldTypes
    <3> QED BY <3>2, <3>3
  <2>3. Fold(ev.edge, v) /\ UNCHANGED established
    BY <1>6 DEF DeliverPath
  <2> HIDE DEF v, ev
  <2> QED BY <1>2, <1>3, <2>2, <2>3 DEF Fold
<1>7. CASE DeliverEor
  <2>1. FoldEOR(view[ev.edge], ev.family) \in EdgeViewType
    BY <1>3, <1>4, <1>7 DEF DeliverEor, Take, FoldEOR, EdgeViewType
  <2> QED BY <1>2, <1>7, <2>1 DEF DeliverEor, Fold
<1>8. CASE DeliverState
  <2>1. PICK v \in EdgeViewType : view' = [view EXCEPT ![ev.edge] = v]
    BY <1>3, <1>4, <1>8 DEF DeliverState, Fold, FoldPeerUp, FoldPeerDown, Fresh, EdgeViewType
  <2> QED BY <1>2, <1>3, <1>8, <2>1 DEF DeliverState, Fold
<1> QED BY <1>5, <1>6, <1>7, <1>8 DEF TapStep

LEMMA SnapshotType ==
    ASSUME TypeOK, NEW f \in Families
    PROVE  Snapshot(f) \in [Edges -> SUBSET HostPrefixes]
BY DEF Snapshot, AdjIn, OfFamily

LEMMA AuditTypes == TypeOK /\ (AuditStep \/ AuditFails) => TypeOK'
<1> SUFFICES ASSUME TypeOK, AuditStep \/ AuditFails PROVE TypeOK'
  OBVIOUS
<1> USE DEF TypeOK, gobgp, coverage
<1>1. IdleAudit \in [covered : SUBSET Edges, families : SUBSET Families,
                     family : Families \cup {"none"}, left : SUBSET Edges,
                     auth : [Edges -> SUBSET HostPrefixes]]
  BY DEF IdleAudit
<1>2. CASE AuditTick
  BY <1>2, <1>1 DEF AuditTick, IdleAudit
<1>3. ASSUME NEW f \in Families, AuditSnapshot(f) PROVE TypeOK'
  BY <1>1, <1>3, SnapshotType DEF AuditSnapshot
<1>4. CASE AuditFails
  BY <1>1, <1>4 DEF AuditFails
<1>5. ASSUME NEW e \in Edges, AuditReconcile(e) PROVE TypeOK'
  <2>1. Reconciled(view[e], audit.family, audit.auth[e]) \in EdgeViewType
    BY DEF Reconciled, Missed, Stale, OfFamily, EdgeViewType
  <2>2. view' \in [Edges -> EdgeViewType]
    BY <1>5, <2>1 DEF AuditReconcile
  <2>3. audit' \in [covered : SUBSET Edges, families : SUBSET Families,
                     family : Families \cup {"none"}, left : SUBSET Edges,
                     auth : [Edges -> SUBSET HostPrefixes]]
    BY <1>1, <1>5 DEF AuditReconcile
  <2> QED BY <1>5, <2>2, <2>3 DEF AuditReconcile
<1> QED BY <1>2, <1>3, <1>4, <1>5 DEF AuditStep

LEMMA TypeStep == TypeOK /\ [Next]_vars => TypeOK'
<1>1. TypeOK /\ UNCHANGED vars => TypeOK'
  BY DEF TypeOK, vars, gobgp, coverage
<1> QED BY <1>1, SinkTypes, GoBGPTypes, TapTypes, AuditTypes DEF Next

(***************************************************************************)
(* Views, queue and audit keep their types.                                 *)
(***************************************************************************)
THEOREM TypeCorrect == Spec => []TypeOK
BY TypeInit, TypeStep, PTL DEF Spec

-----------------------------------------------------------------------------
(***************************************************************************)
(* The queue.  The state events of a covered edge tell of its sessions in   *)
(* turn: est are the edges the producer has established, up those GoBGP has, *)
(* and no second up is ever taken for the first.                            *)
(***************************************************************************)
StateAt(q, e, i) == q[i].kind = "state" /\ q[i].edge = e
UpAt(q, e, i) == StateAt(q, e, i) /\ q[i].up
DownAt(q, e, i) == StateAt(q, e, i) /\ ~q[i].up

Ordered(q, e, est, up) ==
    /\ \A i \in DOMAIN q :
          e \in est /\ UpAt(q, e, i) => \E k \in DOMAIN q : k < i /\ DownAt(q, e, k)
    /\ \A i, j \in DOMAIN q : i < j /\ UpAt(q, e, i) /\ UpAt(q, e, j)
          => \E k \in DOMAIN q : i < k /\ k < j /\ DownAt(q, e, k)
    /\ e \in est \ up => \E k \in DOMAIN q : DownAt(q, e, k)
    /\ \A i \in DOMAIN q :
          e \notin up /\ UpAt(q, e, i) => \E k \in DOMAIN q : i < k /\ DownAt(q, e, k)

\* What an EOR still in flight says of the session is true, unless one began or ended after it.
EorTrue(q, e, sent) ==
    \A i \in DOMAIN q :
        q[i].kind = "eor" /\ q[i].edge = e
            /\ (\A j \in DOMAIN q : i < j => ~StateAt(q, e, j))
        => q[i].family \in sent

LEMMA AppendFacts ==
    ASSUME NEW q \in Seq(EventType), NEW ev \in EventType
    PROVE  /\ DOMAIN q = 1 .. Len(q) /\ Len(q) \in Nat
           /\ DOMAIN Append(q, ev) = 1 .. Len(q) + 1
           /\ \A i \in DOMAIN q : Append(q, ev)[i] = q[i]
           /\ Append(q, ev)[Len(q) + 1] = ev
OBVIOUS

LEMMA TailFacts ==
    ASSUME NEW q \in Seq(EventType), q # <<>>
    PROVE  /\ DOMAIN q = 1 .. Len(q) /\ Len(q) \in Nat \ {0}
           /\ DOMAIN Tail(q) = 1 .. Len(q) - 1
           /\ \A i \in DOMAIN Tail(q) : Tail(q)[i] = q[i + 1]
           /\ Head(q) = q[1]
OBVIOUS

LEMMA OrderSame ==
    ASSUME NEW q, NEW e, NEW est, NEW up, NEW est2, NEW up2, Ordered(q, e, est, up),
           e \in est <=> e \in est2, e \in up <=> e \in up2
    PROVE  Ordered(q, e, est2, up2)
BY DEF Ordered

LEMMA OrderAppendOther ==
    ASSUME NEW q \in Seq(EventType), NEW ev \in EventType, NEW e, NEW est, NEW up,
           ~(ev.kind = "state" /\ ev.edge = e), Ordered(q, e, est, up)
    PROVE  Ordered(Append(q, ev), e, est, up)
<1> DEFINE r == Append(q, ev)
<1>1. /\ DOMAIN q \subseteq DOMAIN r
      /\ \A i \in DOMAIN q : (UpAt(r, e, i) <=> UpAt(q, e, i)) /\ (DownAt(r, e, i) <=> DownAt(q, e, i))
      /\ \A i \in DOMAIN r : UpAt(r, e, i) => i \in DOMAIN q
  BY AppendFacts DEF UpAt, DownAt, StateAt
<1>2. Ordered(r, e, est, up)
  <2> HIDE DEF r
  <2> QED BY <1>1 DEF Ordered
<1> QED BY <1>2

LEMMA OrderAppendUp ==
    ASSUME NEW q \in Seq(EventType), NEW ev \in EventType, NEW e, NEW est, NEW up, NEW up2,
           ev.kind = "state", ev.edge = e, ev.up,
           Ordered(q, e, est, up), e \notin up, e \in up2
    PROVE  Ordered(Append(q, ev), e, est, up2)
<1> DEFINE r == Append(q, ev)
<1>1. /\ DOMAIN q \subseteq DOMAIN r
      /\ \A i \in DOMAIN q : (UpAt(r, e, i) <=> UpAt(q, e, i)) /\ (DownAt(r, e, i) <=> DownAt(q, e, i))
      /\ \A i \in DOMAIN r : i \in DOMAIN q \/ i = Len(q) + 1
      /\ \A i \in DOMAIN q : i < Len(q) + 1 /\ i \in Nat
      /\ Len(q) \in Nat
  BY AppendFacts DEF UpAt, DownAt, StateAt
<1>2. Ordered(r, e, est, up2)
  <2> HIDE DEF r
  <2> QED BY <1>1 DEF Ordered
<1> QED BY <1>2

LEMMA OrderAppendDown ==
    ASSUME NEW q \in Seq(EventType), NEW ev \in EventType, NEW e, NEW est, NEW up, NEW up2,
           ev.kind = "state", ev.edge = e, ~ev.up,
           Ordered(q, e, est, up), e \in up
    PROVE  Ordered(Append(q, ev), e, est, up2)
<1> DEFINE r == Append(q, ev)
<1>1. /\ DOMAIN q \subseteq DOMAIN r
      /\ \A i \in DOMAIN q : (UpAt(r, e, i) <=> UpAt(q, e, i)) /\ (DownAt(r, e, i) <=> DownAt(q, e, i))
      /\ \A i \in DOMAIN r : UpAt(r, e, i) => i \in DOMAIN q
      /\ \A i \in DOMAIN q : i < Len(q) + 1
      /\ Len(q) + 1 \in DOMAIN r /\ DownAt(r, e, Len(q) + 1)
  BY AppendFacts DEF UpAt, DownAt, StateAt
<1>2. Ordered(r, e, est, up2)
  <2> HIDE DEF r
  <2> QED BY <1>1 DEF Ordered
<1> QED BY <1>2

LEMMA OrderTail ==
    ASSUME NEW q \in Seq(EventType), q # <<>>, NEW e, NEW est, NEW up, NEW est2,
           Ordered(q, e, est, up)
    PROVE  /\ e \notin est2 => Ordered(Tail(q), e, est2, up)
           /\ ~StateAt(q, e, 1) => Ordered(Tail(q), e, est, up)
           /\ UpAt(q, e, 1) => e \notin est /\ Ordered(Tail(q), e, est2, up)
<1> DEFINE r == Tail(q)
<1>1. /\ \A i \in DOMAIN r : /\ i \in Nat /\ 1 < i + 1 /\ i + 1 \in DOMAIN q
                             /\ UpAt(r, e, i) <=> UpAt(q, e, i + 1)
                             /\ DownAt(r, e, i) <=> DownAt(q, e, i + 1)
      /\ \A i \in DOMAIN q : i = 1 \/ (i - 1 \in DOMAIN r /\ (i - 1) + 1 = i)
      /\ \A i \in DOMAIN q : i \in Nat \ {0}
      /\ 1 \in DOMAIN q
  BY TailFacts DEF UpAt, DownAt, StateAt
<1> HIDE DEF r
<1>2. \A i \in DOMAIN q : DownAt(q, e, i) /\ i # 1 => i - 1 \in DOMAIN r /\ DownAt(r, e, i - 1)
  BY <1>1
<1>3. \A i, j \in DOMAIN r : i < j /\ UpAt(r, e, i) /\ UpAt(r, e, j)
          => \E k \in DOMAIN r : i < k /\ k < j /\ DownAt(r, e, k)
  <2> TAKE i, j \in DOMAIN r
  <2> HAVE i < j /\ UpAt(r, e, i) /\ UpAt(r, e, j)
  <2>1. PICK k \in DOMAIN q : i + 1 < k /\ k < j + 1 /\ DownAt(q, e, k)
    BY <1>1 DEF Ordered
  <2>2. k - 1 \in DOMAIN r /\ DownAt(r, e, k - 1) /\ i < k - 1 /\ k - 1 < j
    BY <1>1, <1>2, <2>1
  <2> QED BY <2>2
<1>4. \A i \in DOMAIN r :
          e \notin up /\ UpAt(r, e, i) => \E k \in DOMAIN r : i < k /\ DownAt(r, e, k)
  <2> TAKE i \in DOMAIN r
  <2> HAVE e \notin up /\ UpAt(r, e, i)
  <2>1. PICK k \in DOMAIN q : i + 1 < k /\ DownAt(q, e, k)
    BY <1>1 DEF Ordered
  <2>2. k - 1 \in DOMAIN r /\ DownAt(r, e, k - 1) /\ i < k - 1
    BY <1>1, <1>2, <2>1
  <2> QED BY <2>2
<1>5. ASSUME e \notin est2 PROVE Ordered(r, e, est2, up)
  BY <1>3, <1>4, <1>5 DEF Ordered
<1>6. ASSUME ~StateAt(q, e, 1) PROVE Ordered(r, e, est, up)
  <2>1. ~DownAt(q, e, 1)
    BY <1>6 DEF DownAt
  <2>2. \A i \in DOMAIN r :
            e \in est /\ UpAt(r, e, i) => \E k \in DOMAIN r : k < i /\ DownAt(r, e, k)
    <3> TAKE i \in DOMAIN r
    <3> HAVE e \in est /\ UpAt(r, e, i)
    <3>1. PICK k \in DOMAIN q : k < i + 1 /\ DownAt(q, e, k)
      BY <1>1 DEF Ordered
    <3>2. k - 1 \in DOMAIN r /\ DownAt(r, e, k - 1) /\ k - 1 < i
      BY <1>1, <1>2, <2>1, <3>1
    <3> QED BY <3>2
  <2>3. e \in est \ up => \E k \in DOMAIN r : DownAt(r, e, k)
    BY <1>2, <2>1 DEF Ordered
  <2> QED BY <1>3, <1>4, <2>2, <2>3 DEF Ordered
<1>7. ASSUME UpAt(q, e, 1) PROVE e \notin est /\ Ordered(r, e, est2, up)
  <2>1. e \notin est
    BY <1>1, <1>7 DEF Ordered
  <2>2. \A i \in DOMAIN r : UpAt(r, e, i) => \E k \in DOMAIN r : k < i /\ DownAt(r, e, k)
    <3> TAKE i \in DOMAIN r
    <3> HAVE UpAt(r, e, i)
    <3>1. PICK k \in DOMAIN q : 1 < k /\ k < i + 1 /\ DownAt(q, e, k)
      BY <1>1, <1>7 DEF Ordered
    <3>2. k - 1 \in DOMAIN r /\ DownAt(r, e, k - 1) /\ k - 1 < i
      BY <1>1, <1>2, <3>1
    <3> QED BY <3>2
  <2>3. e \notin up => \E k \in DOMAIN r : DownAt(r, e, k)
    <3> HAVE e \notin up
    <3>1. PICK k \in DOMAIN q : 1 < k /\ DownAt(q, e, k)
      BY <1>1, <1>7 DEF Ordered
    <3> QED BY <1>1, <1>2, <3>1
  <2> QED BY <1>3, <1>4, <2>1, <2>2, <2>3 DEF Ordered
<1> QED BY <1>5, <1>6, <1>7 DEF r

LEMMA EorAppend ==
    ASSUME NEW q \in Seq(EventType), NEW ev \in EventType, NEW e, NEW sent, NEW more,
           EorTrue(q, e, sent),
           \/ ev.kind = "state" /\ ev.edge = e
           \/ sent \subseteq more /\ (ev.kind = "eor" /\ ev.edge = e => ev.family \in more)
    PROVE  EorTrue(Append(q, ev), e, more)
<1> DEFINE r == Append(q, ev)
           n == Len(q) + 1
<1>1. /\ DOMAIN q \subseteq DOMAIN r
      /\ \A i \in DOMAIN q : r[i] = q[i] /\ i < n
      /\ \A i \in DOMAIN r : i \in DOMAIN q \/ i = n
      /\ n \in DOMAIN r /\ r[n] = ev
  BY AppendFacts
<1> HIDE DEF r, n
<1>2. ASSUME NEW i \in DOMAIN r, r[i].kind = "eor", r[i].edge = e,
             \A j \in DOMAIN r : i < j => ~StateAt(r, e, j)
      PROVE  r[i].family \in more
  <2>1. CASE i = n
    BY <1>1, <1>2, <2>1
  <2>2. CASE i \in DOMAIN q
    <3>1. ~(ev.kind = "state" /\ ev.edge = e)
      BY <1>1, <1>2, <2>2 DEF StateAt
    <3>2. \A j \in DOMAIN q : i < j => ~StateAt(q, e, j)
      BY <1>1, <1>2 DEF StateAt
    <3> QED BY <1>1, <1>2, <2>2, <3>1, <3>2 DEF EorTrue
  <2> QED BY <1>1, <2>1, <2>2
<1> QED BY <1>2 DEF EorTrue, r

LEMMA EorTail ==
    ASSUME NEW q \in Seq(EventType), q # <<>>, NEW e, NEW sent, EorTrue(q, e, sent)
    PROVE  EorTrue(Tail(q), e, sent)
<1> DEFINE r == Tail(q)
<1>1. /\ \A i \in DOMAIN r : i \in Nat /\ i + 1 \in DOMAIN q /\ r[i] = q[i + 1]
      /\ \A i \in DOMAIN q : i \in Nat /\ (i # 1 => i - 1 \in DOMAIN r /\ r[i - 1] = q[i])
  BY TailFacts
<1> HIDE DEF r
<1>2. ASSUME NEW i \in DOMAIN r, r[i].kind = "eor", r[i].edge = e,
             \A j \in DOMAIN r : i < j => ~StateAt(r, e, j)
      PROVE  r[i].family \in sent
  <2>1. ASSUME NEW j \in DOMAIN q, i + 1 < j PROVE ~StateAt(q, e, j)
    <3>1. j - 1 \in DOMAIN r /\ r[j - 1] = q[j] /\ i < j - 1
      BY <1>1, <2>1
    <3> QED BY <1>2, <3>1 DEF StateAt
  <2> QED BY <1>1, <1>2, <2>1 DEF EorTrue
<1> QED BY <1>2 DEF EorTrue, r

-----------------------------------------------------------------------------
(***************************************************************************)
(* The inductive invariant.  An edge that was never uncovered keeps its      *)
(* address once it has it, so that none of its state events is dropped       *)
(* after the first that was delivered: what the producer believes, the      *)
(* queue and the session tell one story, and the End-of-RIBs fit it.        *)
(***************************************************************************)
CoverInv ==
    /\ sink.add \cap sink.del = {}
    /\ sink.half \cap sink.del \subseteq uncovered
    /\ established \subseteq peers \cup uncovered

UpInv == \A e \in Edges : view[e].peerUp <=> e \in established

NoNews(q, e) == \A j \in DOMAIN q : ~StateAt(q, e, j)

SessionInv(e) ==
    /\ Ordered(evq, e, established, sess)
    /\ EorTrue(evq, e, eorSent[e])
    /\ view[e].peerUp /\ NoNews(evq, e) => view[e].eor \subseteq eorSent[e]

IInv == TypeOK /\ CoverInv /\ UpInv /\ \A e \in Edges \ uncovered : SessionInv(e)

LEMMA InitIInv == Init => IInv
<1> SUFFICES ASSUME Init PROVE IInv
  OBVIOUS
<1>1. TypeOK
  BY TypeInit
<1>2. CoverInv
  BY DEF Init, CoverInv, IdleSink
<1>3. UpInv
  BY DEF Init, UpInv, Fresh
<1>4. DOMAIN evq = {}
  BY DEF Init
<1>5. \A e \in Edges \ uncovered : SessionInv(e)
  BY <1>4 DEF Init, SessionInv, Ordered, EorTrue, Fresh
<1> QED BY <1>1, <1>2, <1>3, <1>5 DEF IInv

LEMMA CurrentFromIInv == IInv => TrustIsCurrent
<1> SUFFICES ASSUME IInv, NEW e \in Edges \ uncovered, NEW f \in Families,
                    Settled(view[e], f), ~InFlight(e, {"state"})
             PROVE  e \in sess /\ f \in eorSent[e]
  BY DEF TrustIsCurrent, Current
<1>1. NoNews(evq, e)
  BY DEF InFlight, NoNews, StateAt
<1>2. e \in established
  BY DEF IInv, UpInv, Settled
<1> QED BY <1>1, <1>2 DEF IInv, SessionInv, Ordered, NoNews, DownAt, Settled

\* A round of the audit only ever corrects host sets.
LEMMA AuditKeeps ==
    ASSUME TypeOK, AuditStep \/ AuditFails
    PROVE  /\ UNCHANGED <<evq, peers, sink, established, sess, eorSent, uncovered>>
           /\ \A e \in Edges : /\ view'[e].peerUp = view[e].peerUp
                              /\ view'[e].eor = view[e].eor
<1> USE DEF gobgp, coverage
<1>1. CASE AuditTick
  BY <1>1 DEF AuditTick
<1>2. ASSUME NEW f \in Families, AuditSnapshot(f) PROVE UNCHANGED <<gobgp, evq, coverage, established, uncovered, view>>
  BY <1>2 DEF AuditSnapshot
<1>3. CASE AuditFails
  BY <1>3 DEF AuditFails
<1>4. ASSUME NEW d \in Edges, AuditReconcile(d), NEW e \in Edges
      PROVE  view'[e].peerUp = view[e].peerUp /\ view'[e].eor = view[e].eor
  <2> DEFINE v == Reconciled(view[d], audit.family, audit.auth[d])
  <2>1. v.peerUp = view[d].peerUp /\ v.eor = view[d].eor
    BY DEF Reconciled, TypeOK, EdgeViewType
  <2>2. view' = [view EXCEPT ![d] = IF Settled(view[d], audit.family) THEN v ELSE view[d]]
    BY <1>4 DEF AuditReconcile
  <2> HIDE DEF v
  <2> QED BY <2>1, <2>2 DEF TypeOK
<1>5. ASSUME NEW d \in Edges, AuditReconcile(d)
      PROVE  UNCHANGED <<evq, peers, sink, established, sess, eorSent, uncovered>>
  BY <1>5 DEF AuditReconcile
<1> QED BY <1>1, <1>2, <1>3, <1>4, <1>5 DEF AuditStep

(***************************************************************************)
(* Coverage and what the producer believes.                                 *)
(***************************************************************************)
LEMMA CoverStep == IInv /\ [Next]_vars => CoverInv'
<1> SUFFICES ASSUME IInv, [Next]_vars PROVE CoverInv'
  OBVIOUS
<1> USE DEF IInv, TypeOK, CoverInv, gobgp, coverage
<1>1. CASE UNCHANGED vars
  BY <1>1 DEF vars
<1>2. CASE SinkNext
  <2>1. ASSUME NEW want \in SUBSET Edges, Ensure(want) PROVE CoverInv'
    BY <2>1 DEF Ensure, IdleSink
  <2>2. ASSUME NEW e \in Edges, AddPeer(e) PROVE CoverInv'
    BY <2>2 DEF AddPeer
  <2>3. ASSUME NEW e \in Edges, RegisterEdge(e) PROVE CoverInv'
    BY <2>3 DEF RegisterEdge
  <2>4. ASSUME NEW e \in Edges, DeletePeer(e) PROVE CoverInv'
    BY <2>4 DEF DeletePeer
  <2>5. ASSUME NEW e \in Edges, ForgetEdge(e) PROVE CoverInv'
    BY <2>5 DEF ForgetEdge
  <2>6. ASSUME NEW e \in Edges, SkipEdge(e) PROVE CoverInv'
    BY <2>6 DEF SkipEdge
  <2> QED BY <1>2, <2>1, <2>2, <2>3, <2>4, <2>5, <2>6 DEF SinkNext
<1>3. CASE GoBGPNext
  BY <1>3 DEF GoBGPNext, SessionUp, SessionDown, EndOfRib, Announce, WithdrawPath
<1>4. CASE TapStep
  BY <1>4 DEF TapStep, DropUnknown, DeliverPath, DeliverEor, DeliverState, Fold
<1>5. CASE AuditStep \/ AuditFails
  BY <1>5, AuditKeeps
<1> QED BY <1>1, <1>2, <1>3, <1>4, <1>5 DEF Next

LEMMA UpStep == IInv /\ [Next]_vars => UpInv'
<1> SUFFICES ASSUME IInv, [Next]_vars PROVE UpInv'
  OBVIOUS
<1> USE DEF IInv, TypeOK, UpInv, gobgp, coverage
<1>1. CASE UNCHANGED vars
  BY <1>1 DEF vars
<1>2. CASE SinkNext
  BY <1>2 DEF SinkNext, Ensure, AddPeer, RegisterEdge, DeletePeer, ForgetEdge, SkipEdge
<1>3. CASE GoBGPNext
  BY <1>3 DEF GoBGPNext, SessionUp, SessionDown, EndOfRib, Announce, WithdrawPath
<1>4. CASE TapStep
  <2> DEFINE ev == Head(evq)
  <2>1. evq # <<>>
    BY <1>4 DEF TapStep, DropUnknown, DeliverPath, DeliverEor, DeliverState, Take
  <2>2. ev \in EventType
    BY <2>1, TailTypes
  <2>3. ev.edge \in Edges /\ view[ev.edge] \in EdgeViewType
    BY <2>2, HeadTypes
  <2>4. CASE DropUnknown
    BY <2>4 DEF DropUnknown
  <2>5. CASE DeliverPath
    BY <2>3, <2>5 DEF DeliverPath, Fold, FoldPathUpdate, FoldWithdrawal, EdgeViewType
  <2>6. CASE DeliverEor
    BY <2>3, <2>6 DEF DeliverEor, Fold, FoldEOR, EdgeViewType
  <2>7. CASE DeliverState
    <3>1. ev.up \in BOOLEAN
      BY <2>2, <2>7, HeadTypes DEF DeliverState, Take
    <3>2. view'[ev.edge] = IF ev.up = (ev.edge \in established) THEN view[ev.edge]
                           ELSE IF ev.up THEN FoldPeerUp(view[ev.edge])
                           ELSE FoldPeerDown(view[ev.edge])
      BY <2>3, <2>7 DEF DeliverState, Fold
    <3>3. FoldPeerUp(view[ev.edge]).peerUp /\ ~FoldPeerDown(view[ev.edge]).peerUp
      BY DEF FoldPeerUp, FoldPeerDown, Fresh
    <3>4. view'[ev.edge].peerUp <=> ev.up
      BY <2>3, <3>1, <3>2, <3>3
    <3>5. \A e \in Edges \ {ev.edge} : view'[e] = view[e]
      BY <2>7 DEF DeliverState, Fold
    <3>6. \A e \in Edges : e \in established' <=> IF e = ev.edge THEN ev.up ELSE e \in established
      BY <2>7, <3>1 DEF DeliverState
    <3> QED BY <3>1, <3>4, <3>5, <3>6
  <2> QED BY <1>4, <2>4, <2>5, <2>6, <2>7 DEF TapStep
<1>5. CASE AuditStep \/ AuditFails
  BY <1>5, AuditKeeps
<1> QED BY <1>1, <1>2, <1>3, <1>4, <1>5 DEF Next

(***************************************************************************)
(* What does not concern an edge.                                           *)
(***************************************************************************)
SameFor(e) ==
    /\ e \in established' <=> e \in established
    /\ e \in sess' <=> e \in sess
    /\ eorSent'[e] = eorSent[e]
    /\ view'[e].peerUp = view[e].peerUp
    /\ view'[e].eor = view[e].eor

LEMMA QuietStep ==
    ASSUME TypeOK, NEW e \in Edges, SessionInv(e), SameFor(e), UNCHANGED evq
    PROVE  SessionInv(e)'
BY DEF SessionInv, SameFor, Ordered, EorTrue, NoNews, UpAt, DownAt, StateAt

LEMMA NewsAppend ==
    ASSUME NEW q \in Seq(EventType), NEW ev \in EventType, NEW e
    PROVE  /\ NoNews(Append(q, ev), e) => NoNews(q, e)
           /\ ev.kind = "state" /\ ev.edge = e => ~NoNews(Append(q, ev), e)
<1> DEFINE r == Append(q, ev)
<1>1. /\ DOMAIN q \subseteq DOMAIN r /\ \A i \in DOMAIN q : r[i] = q[i]
      /\ Len(q) + 1 \in DOMAIN r /\ r[Len(q) + 1] = ev
  BY AppendFacts
<1> HIDE DEF r
<1>2. NoNews(r, e) => NoNews(q, e)
  BY <1>1 DEF NoNews, StateAt
<1>3. ev.kind = "state" /\ ev.edge = e => ~NoNews(r, e)
  BY <1>1 DEF NoNews, StateAt
<1> QED BY <1>2, <1>3 DEF r

LEMMA OtherAppended ==
    ASSUME TypeOK, NEW e \in Edges, SessionInv(e), SameFor(e), NEW ev \in EventType,
           ev.edge # e \/ ev.kind = "path", evq' = Append(evq, ev)
    PROVE  SessionInv(e)'
<1>0. evq \in Seq(EventType)
  BY DEF TypeOK
<1>1. Ordered(evq', e, established, sess)
  BY <1>0, OrderAppendOther DEF SessionInv
<1>2. Ordered(evq', e, established', sess')
  BY <1>1, OrderSame DEF SameFor
<1>3. EorTrue(evq', e, eorSent[e])
  BY <1>0, EorAppend DEF SessionInv
<1>4. NoNews(evq', e) => NoNews(evq, e)
  BY <1>0, NewsAppend
<1> QED BY <1>2, <1>3, <1>4 DEF SessionInv, SameFor

LEMMA NewsTail ==
    ASSUME TypeOK, evq # <<>>, NEW e, ~StateAt(evq, e, 1), NoNews(Tail(evq), e)
    PROVE  NoNews(evq, e)
<1> SUFFICES ASSUME NEW j \in DOMAIN evq, j # 1 PROVE ~StateAt(evq, e, j)
  BY DEF NoNews
<1>1. j - 1 \in DOMAIN Tail(evq) /\ Tail(evq)[j - 1] = evq[j]
  BY TailFacts DEF TypeOK
<1> QED BY <1>1 DEF NoNews, StateAt

LEMMA OtherTaken ==
    ASSUME TypeOK, NEW e \in Edges, SessionInv(e), SameFor(e), evq # <<>>,
           ~StateAt(evq, e, 1), evq' = Tail(evq)
    PROVE  SessionInv(e)'
<1>0. evq \in Seq(EventType)
  BY DEF TypeOK
<1>1. Ordered(evq', e, established, sess)
  BY <1>0, OrderTail DEF SessionInv
<1>2. Ordered(evq', e, established', sess')
  BY <1>1, OrderSame DEF SameFor
<1>3. EorTrue(evq', e, eorSent[e])
  BY <1>0, EorTail DEF SessionInv
<1>4. NoNews(evq', e) => NoNews(evq, e)
  BY NewsTail
<1> QED BY <1>2, <1>3, <1>4 DEF SessionInv, SameFor

(***************************************************************************)
(* One step, as an edge that stays covered sees it.                         *)
(***************************************************************************)
LEMMA SinkSession ==
    ASSUME IInv, SinkNext, NEW e \in Edges \ uncovered'
    PROVE  SessionInv(e)'
<1> USE DEF IInv, gobgp, coverage
<1>1. ASSUME NEW d \in Edges, DeletePeer(d) PROVE SessionInv(e)'
  <2>1. d # e /\ e \in Edges \ uncovered
    BY <1>1 DEF DeletePeer
  <2>2. SameFor(e)
    BY <1>1, <2>1 DEF DeletePeer, SameFor, TypeOK
  <2>3. StateEvent(d, FALSE) \in EventType /\ StateEvent(d, FALSE).edge # e
    BY <2>1 DEF EventType, StateEvent
  <2> QED BY <1>1, <2>1, <2>2, <2>3, QuietStep, OtherAppended DEF DeletePeer
<1>2. ASSUME ~(\E d \in Edges : DeletePeer(d)) PROVE SessionInv(e)'
  <2>1. SameFor(e) /\ UNCHANGED evq /\ e \in Edges \ uncovered
    BY <1>2 DEF SinkNext, Ensure, AddPeer, RegisterEdge, ForgetEdge, SkipEdge, SameFor
  <2> QED BY <2>1, QuietStep
<1> QED BY <1>1, <1>2

LEMMA GoBGPSession ==
    ASSUME IInv, GoBGPNext, NEW e \in Edges \ uncovered'
    PROVE  SessionInv(e)'
<1> USE DEF IInv, coverage
<1>0. e \in Edges \ uncovered /\ TypeOK /\ SessionInv(e) /\ evq \in Seq(EventType)
  BY DEF GoBGPNext, SessionUp, SessionDown, EndOfRib, Announce, WithdrawPath, TypeOK
<1>1. ASSUME NEW d \in Edges, SessionUp(d) PROVE SessionInv(e)'
  <2> DEFINE ev == StateEvent(d, TRUE)
  <2>1. /\ ev \in EventType /\ ev.kind = "state" /\ ev.edge = d /\ ev.up
        /\ evq' = Append(evq, ev)
    BY <1>1 DEF SessionUp, Emit, EventType, StateEvent
  <2> HIDE DEF ev
  <2>2. CASE d # e
    <3>1. SameFor(e)
      BY <1>1, <2>2 DEF SessionUp, SameFor
    <3> QED BY <1>0, <2>1, <2>2, <3>1, OtherAppended
  <2>3. CASE d = e
    <3>1. e \notin sess /\ e \in sess' /\ UNCHANGED <<established, eorSent, view>>
      BY <1>1, <2>3 DEF SessionUp
    <3>2. Ordered(evq', e, established, sess')
      BY <1>0, <2>1, <2>3, <3>1, OrderAppendUp DEF SessionInv
    <3>3. EorTrue(evq', e, eorSent[e])
      BY <1>0, <2>1, <2>3, EorAppend DEF SessionInv
    <3>4. ~NoNews(evq', e)
      BY <1>0, <2>1, <2>3, NewsAppend
    <3> QED BY <3>1, <3>2, <3>3, <3>4 DEF SessionInv
  <2> QED BY <2>2, <2>3
<1>2. ASSUME NEW d \in Edges, SessionDown(d) PROVE SessionInv(e)'
  <2> DEFINE ev == StateEvent(d, FALSE)
  <2>1. /\ ev \in EventType /\ ev.kind = "state" /\ ev.edge = d /\ ~ev.up
        /\ evq' = Append(evq, ev)
    BY <1>2 DEF SessionDown, Emit, EventType, StateEvent
  <2> HIDE DEF ev
  <2>2. CASE d # e
    <3>1. SameFor(e)
      BY <1>2, <2>2 DEF SessionDown, SameFor, TypeOK
    <3> QED BY <1>0, <2>1, <2>2, <3>1, OtherAppended
  <2>3. CASE d = e
    <3>1. e \in sess /\ e \notin sess' /\ UNCHANGED <<established, view>>
      BY <1>2, <2>3 DEF SessionDown
    <3>2. Ordered(evq', e, established, sess')
      BY <1>0, <2>1, <2>3, <3>1, OrderAppendDown DEF SessionInv
    <3>3. EorTrue(evq', e, eorSent'[e])
      BY <1>0, <2>1, <2>3, EorAppend DEF SessionInv
    <3>4. ~NoNews(evq', e)
      BY <1>0, <2>1, <2>3, NewsAppend
    <3> QED BY <3>1, <3>2, <3>3, <3>4 DEF SessionInv
  <2> QED BY <2>2, <2>3
<1>3. ASSUME NEW d \in Edges, NEW f \in Families, EndOfRib(d, f) PROVE SessionInv(e)'
  <2> DEFINE ev == EorEvent(d, f)
  <2>1. /\ ev \in EventType /\ ev.kind = "eor" /\ ev.edge = d /\ ev.family = f
        /\ evq' = Append(evq, ev)
    BY <1>3 DEF EndOfRib, Emit, EventType, EorEvent
  <2> HIDE DEF ev
  <2>2. CASE d # e
    <3>1. SameFor(e)
      BY <1>3, <2>2 DEF EndOfRib, SameFor, TypeOK
    <3> QED BY <1>0, <2>1, <2>2, <3>1, OtherAppended
  <2>3. CASE d = e
    <3>1. /\ eorSent[e] \subseteq eorSent'[e] /\ f \in eorSent'[e]
          /\ UNCHANGED <<established, sess, view>>
      BY <1>0, <1>3, <2>3 DEF EndOfRib, TypeOK
    <3>2. Ordered(evq', e, established, sess)
      BY <1>0, <2>1, OrderAppendOther DEF SessionInv
    <3>3. EorTrue(evq', e, eorSent'[e])
      BY <1>0, <2>1, <3>1, EorAppend DEF SessionInv
    <3>4. NoNews(evq', e) => NoNews(evq, e)
      BY <1>0, <2>1, NewsAppend
    <3> QED BY <1>0, <3>1, <3>2, <3>3, <3>4 DEF SessionInv
  <2> QED BY <2>2, <2>3
<1>4. ASSUME NEW d \in Edges, NEW path \in Paths, NEW wd \in BOOLEAN,
             EmitLossy(PathEvent(d, path[1], wd)), SameFor(e)
      PROVE  SessionInv(e)'
  <2>1. PathEvent(d, path[1], wd) \in EventType /\ PathEvent(d, path[1], wd).kind = "path"
    BY DEF EventType, PathEvent, Paths
  <2> QED BY <1>0, <1>4, <2>1, QuietStep, OtherAppended DEF EmitLossy, Emit
<1>5. ASSUME NEW d \in Edges, NEW path \in Paths, Announce(d, path) PROVE SessionInv(e)'
  <2>1. SameFor(e)
    BY <1>5 DEF Announce, SameFor
  <2> QED BY <1>4, <1>5, <2>1 DEF Announce
<1>6. ASSUME NEW d \in Edges, NEW path \in Paths, WithdrawPath(d, path) PROVE SessionInv(e)'
  <2>1. SameFor(e)
    BY <1>6 DEF WithdrawPath, SameFor
  <2> QED BY <1>4, <1>6, <2>1 DEF WithdrawPath
<1> QED BY <1>1, <1>2, <1>3, <1>5, <1>6 DEF GoBGPNext

LEMMA TapSession ==
    ASSUME IInv, TapStep, NEW e \in Edges \ uncovered'
    PROVE  SessionInv(e)'
<1> USE DEF gobgp, coverage
<1> DEFINE ev == Head(evq)
<1>0. /\ e \in Edges \ uncovered /\ TypeOK /\ SessionInv(e) /\ evq \in Seq(EventType)
      /\ evq # <<>> /\ evq' = Tail(evq) /\ ev = evq[1] /\ 1 \in DOMAIN evq
      /\ ev \in EventType
  <2>1. evq # <<>> /\ evq' = Tail(evq) /\ UNCHANGED uncovered
    BY DEF TapStep, DropUnknown, DeliverPath, DeliverEor, DeliverState, Take, Fold
  <2>2. TypeOK /\ evq \in Seq(EventType) /\ SessionInv(e) /\ e \in Edges \ uncovered
    BY <2>1 DEF IInv, TypeOK
  <2>3. ev = evq[1] /\ 1 \in DOMAIN evq /\ ev \in EventType
    BY <2>1, <2>2, TailFacts, TailTypes
  <2> QED BY <2>1, <2>2, <2>3
<1>1. /\ ev.edge \in Edges
      /\ ev.kind \in {"state", "eor", "path"}
      /\ ev.kind = "state" => ev.up \in BOOLEAN
      /\ ev.kind = "eor" => ev.family \in Families
  BY <1>0, HeadTypes
<1>2. view \in [Edges -> EdgeViewType] /\ (view[e].peerUp <=> e \in established)
  BY <1>0 DEF TypeOK, IInv, UpInv
<1>3. /\ Ordered(evq, e, established, sess)
      /\ EorTrue(evq', e, eorSent[e])
      /\ UNCHANGED <<sess, eorSent>>
  BY <1>0, EorTail DEF SessionInv, TapStep, DropUnknown, DeliverPath, DeliverEor, DeliverState, Fold
<1> HIDE DEF ev
<1>4. CASE ev.edge # e
  <2>1. ~StateAt(evq, e, 1)
    BY <1>0, <1>4 DEF StateAt
  <2>2. SameFor(e)
    BY <1>2, <1>4 DEF TapStep, DropUnknown, DeliverPath, DeliverEor, DeliverState, Fold, SameFor, ev
  <2> QED BY <1>0, <2>1, <2>2, OtherTaken
<1>5. CASE ev.edge = e /\ DropUnknown
  <2>1. e \notin established /\ UNCHANGED <<established, view>>
    BY <1>0, <1>5 DEF IInv, CoverInv, DropUnknown, ev
  <2>2. Ordered(evq', e, established', sess)
    BY <1>0, <1>3, <2>1, OrderTail
  <2> QED BY <1>2, <1>3, <2>1, <2>2 DEF SessionInv
<1>6. CASE ev.edge = e /\ DeliverPath
  <2>1. ~StateAt(evq, e, 1)
    BY <1>0, <1>6 DEF StateAt, DeliverPath, Take, ev
  <2>2. SameFor(e)
    BY <1>0, <1>2, <1>6 DEF DeliverPath, Fold, FoldPathUpdate, FoldWithdrawal, EdgeViewType, SameFor, ev
  <2> QED BY <1>0, <2>1, <2>2, OtherTaken
<1>7. CASE ev.edge = e /\ DeliverEor
  <2>1. ev.kind = "eor" /\ ~StateAt(evq, e, 1)
    BY <1>0, <1>7 DEF StateAt, DeliverEor, Take, ev
  <2>2. /\ view'[e].peerUp = view[e].peerUp
        /\ view'[e].eor = view[e].eor \cup {ev.family}
        /\ UNCHANGED established
    BY <1>0, <1>2, <1>7 DEF DeliverEor, Fold, FoldEOR, EdgeViewType, ev
  <2>3. Ordered(evq', e, established, sess)
    BY <1>0, <1>3, <2>1, OrderTail
  <2>4. NoNews(evq', e) => NoNews(evq, e)
    BY <1>0, <2>1, NewsTail
  <2>5. NoNews(evq, e) => ev.family \in eorSent[e]
    BY <1>0, <1>7, <2>1 DEF SessionInv, EorTrue, NoNews
  <2> QED BY <1>0, <1>3, <2>2, <2>3, <2>4, <2>5 DEF SessionInv
<1>8. CASE ev.edge = e /\ DeliverState
  <2>1. StateAt(evq, e, 1) /\ ev.up \in BOOLEAN
    BY <1>0, <1>1, <1>8 DEF StateAt, DeliverState, Take, ev
  <2>2. e \in established' <=> ev.up
    BY <1>8, <2>1 DEF DeliverState, ev
  <2>3. CASE ev.up
    <3>1. e \notin established /\ Ordered(evq', e, established', sess)
      BY <1>0, <1>3, <2>1, <2>3, OrderTail DEF UpAt
    <3>2. view'[e] = FoldPeerUp(view[e])
      BY <1>0, <1>2, <1>8, <2>3, <3>1 DEF DeliverState, Fold, ev
    <3>3. view'[e].eor = {}
      BY <3>2 DEF FoldPeerUp, Fresh
    <3> QED BY <1>3, <2>2, <2>3, <3>1, <3>3 DEF SessionInv
  <2>4. CASE ~ev.up
    <3>1. Ordered(evq', e, established', sess)
      BY <1>0, <1>3, <2>2, <2>4, OrderTail
    <3>2. ~view'[e].peerUp
      BY <1>0, <1>2, <1>8, <2>4 DEF DeliverState, Fold, FoldPeerDown, Fresh, ev
    <3> QED BY <1>3, <2>2, <2>4, <3>1, <3>2 DEF SessionInv
  <2> QED BY <2>1, <2>3, <2>4
<1> QED BY <1>4, <1>5, <1>6, <1>7, <1>8 DEF TapStep

LEMMA AuditSession ==
    ASSUME IInv, AuditStep \/ AuditFails, NEW e \in Edges \ uncovered'
    PROVE  SessionInv(e)'
BY AuditKeeps, QuietStep DEF IInv, SameFor

LEMMA IInvStep == IInv /\ [Next]_vars => IInv'
<1> SUFFICES ASSUME IInv, [Next]_vars PROVE IInv'
  OBVIOUS
<1>1. TypeOK' /\ CoverInv' /\ UpInv'
  BY TypeStep, CoverStep, UpStep DEF IInv
<1>2. ASSUME NEW e \in Edges \ uncovered' PROVE SessionInv(e)'
  <2>1. CASE UNCHANGED vars
    BY <1>2, <2>1, QuietStep DEF vars, gobgp, coverage, SameFor, IInv
  <2> QED BY <1>2, <2>1, SinkSession, GoBGPSession, TapSession, AuditSession DEF Next
<1> QED BY <1>1, <1>2 DEF IInv

(***************************************************************************)
(* A view that passes for replayed is of the session GoBGP has now, which    *)
(* has delivered the family's EOR, unless a session change is on its way:   *)
(* for any edges, families and prefixes, whatever the watch loses and the    *)
(* audit repairs.                                                           *)
(***************************************************************************)
THEOREM TrustCurrent == Spec => []TrustIsCurrent
BY InitIInv, IInvStep, CurrentFromIInv, PTL DEF Spec

-----------------------------------------------------------------------------
(***************************************************************************)
(* The hosts.  Which queued events say whether GoBGP has a path for p, and   *)
(* what the last of them says.                                              *)
(***************************************************************************)
About(ev, e, p) == ev.edge = e /\ (ev.kind = "state" \/ (ev.kind = "path" /\ ev.prefix = p))
Announces(ev) == ev.kind = "path" /\ ~ev.withdrawal

(***************************************************************************)
(* The last event about p in the queue, or with none the view of an edge    *)
(* that is up, says of p what the adj-in does: adj are its prefixes, hosts    *)
(* the view's, est the edges that are up.                                   *)
(***************************************************************************)
Told(q, e, p, adj, hosts, est) ==
    /\ \A i \in DOMAIN q :
          About(q[i], e, p) /\ (\A j \in DOMAIN q : i < j => ~About(q[j], e, p))
             => (Announces(q[i]) <=> p \in adj)
    /\ (\A i \in DOMAIN q : ~About(q[i], e, p)) /\ e \in est => (p \in hosts <=> p \in adj)

TellsOf(e, p) == Told(evq, e, p, PrefixesOf(rib[e]), view[e].hosts, established)

\* No path without a session; no canary that is not known as one.
RibInv == \A e \in Edges \ sess : rib[e] = {}

CanaryInv ==
    \A e \in Edges : /\ view[e].canaryPfx \in CanaryPrefixes \cup {NoPrefix}
                     /\ view[e].hosts \cap CanaryPrefixes = {}

DropsInv ==
    budget \in [sessions : Nat, churn : Nat, drops : 0 .. MaxDrops, coverages : Nat]

MirrorInv ==
    /\ IInv
    /\ RibInv /\ CanaryInv /\ DropsInv
    /\ audit = IdleAudit
    /\ budget.drops = MaxDrops =>
          \A e \in Edges \ uncovered, p \in HostPrefixes \ CanaryPrefixes : TellsOf(e, p)

LEMMA ToldSame ==
    ASSUME NEW q, NEW e, NEW p, NEW adj, NEW hosts, NEW est, NEW adj2, NEW hosts2, NEW est2,
           Told(q, e, p, adj, hosts, est),
           p \in adj <=> p \in adj2,
           e \in est2 => e \in est /\ (p \in hosts <=> p \in hosts2)
    PROVE  Told(q, e, p, adj2, hosts2, est2)
BY DEF Told

LEMMA ToldAppend ==
    ASSUME NEW q \in Seq(EventType), NEW ev \in EventType, NEW e, NEW p,
           NEW adj, NEW hosts, NEW est, Told(q, e, p, adj, hosts, est)
    PROVE  /\ ~About(ev, e, p) => Told(Append(q, ev), e, p, adj, hosts, est)
           /\ \A adj2 : About(ev, e, p) /\ (Announces(ev) <=> p \in adj2)
                           => Told(Append(q, ev), e, p, adj2, hosts, est)
<1> DEFINE r == Append(q, ev)
           n == Len(q) + 1
<1>1. /\ DOMAIN q \subseteq DOMAIN r
      /\ \A i \in DOMAIN q : r[i] = q[i] /\ i < n
      /\ \A i \in DOMAIN r : i \in DOMAIN q \/ i = n
      /\ n \in DOMAIN r /\ r[n] = ev
  BY AppendFacts
<1> HIDE DEF r, n
<1>2. ASSUME ~About(ev, e, p) PROVE Told(r, e, p, adj, hosts, est)
  BY <1>1, <1>2 DEF Told
<1>3. ASSUME NEW adj2, About(ev, e, p), Announces(ev) <=> p \in adj2
      PROVE  Told(r, e, p, adj2, hosts, est)
  BY <1>1, <1>3 DEF Told
<1> QED BY <1>2, <1>3 DEF r

LEMMA ToldTail ==
    ASSUME NEW q \in Seq(EventType), q # <<>>, NEW e, NEW p,
           NEW adj, NEW hosts, NEW est, Told(q, e, p, adj, hosts, est)
    PROVE  /\ ~About(q[1], e, p) => Told(Tail(q), e, p, adj, hosts, est)
           /\ \A hosts2, est2 :
                 About(q[1], e, p) /\ (e \in est2 => (p \in hosts2 <=> Announces(q[1])))
                    => Told(Tail(q), e, p, adj, hosts2, est2)
<1> DEFINE r == Tail(q)
<1>1. /\ \A i \in DOMAIN r : i \in Nat /\ 1 < i + 1 /\ i + 1 \in DOMAIN q /\ r[i] = q[i + 1]
      /\ \A i \in DOMAIN q : i \in Nat /\ (i # 1 => i - 1 \in DOMAIN r /\ r[i - 1] = q[i])
      /\ 1 \in DOMAIN q
  BY TailFacts
<1> HIDE DEF r
<1>2. ASSUME NEW i \in DOMAIN r, About(r[i], e, p),
             \A j \in DOMAIN r : i < j => ~About(r[j], e, p)
      PROVE  Announces(r[i]) <=> p \in adj
  <2>1. ASSUME NEW j \in DOMAIN q, i + 1 < j PROVE ~About(q[j], e, p)
    <3>1. j - 1 \in DOMAIN r /\ r[j - 1] = q[j] /\ i < j - 1
      BY <1>1, <2>1
    <3> QED BY <1>2, <3>1
  <2> QED BY <1>1, <1>2, <2>1 DEF Told
<1>3. (\A i \in DOMAIN r : ~About(r[i], e, p)) => \A i \in DOMAIN q : i # 1 => ~About(q[i], e, p)
  BY <1>1
<1>4. ASSUME ~About(q[1], e, p) PROVE Told(r, e, p, adj, hosts, est)
  BY <1>2, <1>3, <1>4 DEF Told
<1>5. ASSUME NEW hosts2, NEW est2, About(q[1], e, p),
             e \in est2 => (p \in hosts2 <=> Announces(q[1]))
      PROVE  Told(r, e, p, adj, hosts2, est2)
  <2>1. (\A i \in DOMAIN r : ~About(r[i], e, p)) => (Announces(q[1]) <=> p \in adj)
    BY <1>1, <1>3, <1>5 DEF Told
  <2> QED BY <1>2, <1>5, <2>1 DEF Told
<1> QED BY <1>4, <1>5 DEF r

LEMMA InitMirror == Init => MirrorInv
<1> SUFFICES ASSUME Init PROVE MirrorInv
  OBVIOUS
<1>1. IInv
  BY InitIInv
<1>2. RibInv /\ CanaryInv /\ audit = IdleAudit
  BY DEF Init, RibInv, CanaryInv, Fresh
<1>3. DropsInv
  BY TapAssumption DEF Init, DropsInv
<1>4. \A e \in Edges, p \in Prefixes : TellsOf(e, p)
  <2>1. DOMAIN evq = {} /\ established = {}
    BY DEF Init
  <2> QED BY <2>1 DEF TellsOf, Told
<1>5. \A e \in Edges \ uncovered, p \in HostPrefixes \ CanaryPrefixes : TellsOf(e, p)
  BY <1>4, PrefixAssumption
<1> QED BY <1>1, <1>2, <1>3, <1>5 DEF MirrorInv

\* Without the audit goroutine nothing but the tap changes a view.
LEMMA NoAudit ==
    ASSUME ~Auditing, audit = IdleAudit, [Next]_vars
    PROVE  audit' = IdleAudit /\ (UNCHANGED vars \/ SinkNext \/ GoBGPNext \/ TapStep)
<1> USE DEF gobgp, coverage
<1>1. audit.left = {} /\ audit.families = {}
  BY DEF IdleAudit
<1>2. ~AuditStep /\ ~AuditFails
  BY <1>1 DEF AuditStep, AuditTick, AuditSnapshot, AuditReconcile, AuditFails
<1>3. UNCHANGED vars \/ SinkNext \/ GoBGPNext \/ TapStep
  BY <1>2 DEF Next
<1>4. UNCHANGED vars => audit' = audit
  BY DEF vars
<1>5. SinkNext => audit' = audit
  BY DEF SinkNext, Ensure, AddPeer, RegisterEdge, DeletePeer, ForgetEdge, SkipEdge
<1>6. GoBGPNext => audit' = audit
  BY DEF GoBGPNext, SessionUp, SessionDown, EndOfRib, Announce, WithdrawPath
<1>7. TapStep => audit' = audit
  BY DEF TapStep, DropUnknown, DeliverPath, DeliverEor, DeliverState, Fold
<1> QED BY <1>3, <1>4, <1>5, <1>6, <1>7

LEMMA RibStep ==
    ASSUME TypeOK, RibInv, UNCHANGED vars \/ SinkNext \/ GoBGPNext \/ TapStep
    PROVE  RibInv'
<1> USE DEF gobgp, coverage, RibInv, TypeOK
<1>1. CASE UNCHANGED vars
  BY <1>1 DEF vars
<1>2. CASE SinkNext
  BY <1>2 DEF SinkNext, Ensure, AddPeer, RegisterEdge, DeletePeer, ForgetEdge, SkipEdge
<1>3. CASE GoBGPNext
  BY <1>3 DEF GoBGPNext, SessionUp, SessionDown, EndOfRib, Announce, WithdrawPath
<1>4. CASE TapStep
  BY <1>4 DEF TapStep, DropUnknown, DeliverPath, DeliverEor, DeliverState, Fold
<1> QED BY <1>1, <1>2, <1>3, <1>4

LEMMA DropsStep ==
    ASSUME DropsInv, UNCHANGED vars \/ SinkNext \/ GoBGPNext \/ TapStep
    PROVE  /\ DropsInv'
           /\ budget'.drops = MaxDrops => budget.drops = MaxDrops
<1> USE DEF gobgp, coverage
<1> DEFINE B == [sessions : Nat, churn : Nat, drops : 0 .. MaxDrops, coverages : Nat]
<1>0. MaxDrops \in Nat /\ budget \in B
  BY TapAssumption DEF DropsInv
<1>1. budget' = budget \/ \E what \in {"sessions", "churn", "coverages"} : Spend(what)
         \/ (budget.churn > 0 /\ budget.drops > 0
             /\ budget' = [budget EXCEPT !.churn = @ - 1, !.drops = @ - 1])
  <2>1. CASE UNCHANGED vars
    BY <2>1 DEF vars
  <2>2. CASE SinkNext
    BY <2>2 DEF SinkNext, Ensure, AddPeer, RegisterEdge, DeletePeer, ForgetEdge, SkipEdge
  <2>3. CASE GoBGPNext
    BY <2>3 DEF GoBGPNext, SessionUp, SessionDown, EndOfRib, Announce, WithdrawPath, EmitLossy
  <2>4. CASE TapStep
    BY <2>4 DEF TapStep, DropUnknown, DeliverPath, DeliverEor, DeliverState, Fold
  <2> QED BY <2>1, <2>2, <2>3, <2>4
<1>2. budget' \in B /\ (budget'.drops = MaxDrops => budget.drops = MaxDrops)
  <2>1. ASSUME NEW what \in {"sessions", "churn", "coverages"}, Spend(what)
        PROVE  budget' \in B /\ budget'.drops = budget.drops
    <3>1. CASE what = "sessions"
      BY <1>0, <2>1, <3>1 DEF Spend
    <3>2. CASE what = "churn"
      BY <1>0, <2>1, <3>2 DEF Spend
    <3>3. CASE what = "coverages"
      BY <1>0, <2>1, <3>3 DEF Spend
    <3> QED BY <3>1, <3>2, <3>3
  <2>2. ASSUME budget.churn > 0, budget.drops > 0,
               budget' = [budget EXCEPT !.churn = @ - 1, !.drops = @ - 1]
        PROVE  budget' \in B /\ budget'.drops # MaxDrops
    <3>1. budget.drops \in 0 .. MaxDrops /\ budget.churn \in Nat
      BY <1>0
    <3>2. budget.drops - 1 \in 0 .. MaxDrops /\ budget.drops - 1 # MaxDrops /\ budget.churn - 1 \in Nat
      BY <1>0, <2>2, <3>1
    <3>3. budget' = [budget EXCEPT !.churn = budget.churn - 1, !.drops = budget.drops - 1]
      BY <1>0, <2>2
    <3> DEFINE c == budget.churn - 1
               d == budget.drops - 1
    <3> HIDE DEF c, d
    <3>4. c \in Nat /\ d \in 0 .. MaxDrops /\ d # MaxDrops
          /\ budget' = [budget EXCEPT !.churn = c, !.drops = d]
      BY <3>2, <3>3 DEF c, d
    <3> QED BY <1>0, <3>4
  <2> QED BY <1>0, <1>1, <2>1, <2>2
<1> QED BY <1>2 DEF DropsInv

LEMMA CanaryStep ==
    ASSUME TypeOK, CanaryInv, UNCHANGED vars \/ SinkNext \/ GoBGPNext \/ TapStep
    PROVE  CanaryInv'
<1> USE DEF gobgp, coverage
<1>1. CASE UNCHANGED view
  BY <1>1 DEF CanaryInv
<1>2. CASE TapStep /\ ~UNCHANGED view
  <2> DEFINE ev == Head(evq)
             Good(v) == v.canaryPfx \in CanaryPrefixes \cup {NoPrefix} /\ v.hosts \cap CanaryPrefixes = {}
  <2>1. evq # <<>> /\ view \in [Edges -> EdgeViewType]
    BY <1>2 DEF TapStep, DropUnknown, DeliverPath, DeliverEor, DeliverState, Take, TypeOK
  <2>2. ev \in EventType /\ ev.edge \in Edges
    BY <2>1, TailTypes, HeadTypes DEF TypeOK
  <2> HIDE DEF ev
  <2>3. view[ev.edge] \in EdgeViewType /\ Good(view[ev.edge])
    BY <2>1, <2>2 DEF CanaryInv
  <2>4. Good(Fresh) /\ Good(FoldPeerUp(view[ev.edge])) /\ Good(FoldPeerDown(view[ev.edge]))
    BY DEF Fresh, FoldPeerUp, FoldPeerDown
  <2>5. \A f : Good(FoldEOR(view[ev.edge], f))
    BY <2>3 DEF FoldEOR, EdgeViewType
  <2>6. \A pfx \in Prefixes : /\ Good(FoldWithdrawal(view[ev.edge], pfx, FALSE))
                              /\ Good(FoldPathUpdate(view[ev.edge], pfx, pfx \in CanaryPrefixes))
    BY <2>3 DEF FoldWithdrawal, FoldPathUpdate, EdgeViewType
  <2>7. PICK v : view' = [view EXCEPT ![ev.edge] = v] /\ Good(v)
    <3> HIDE DEF Good
    <3>1. CASE DropUnknown
      BY <1>2, <3>1 DEF DropUnknown
    <3>2. CASE DeliverPath
      <4>1. ev.prefix \in Prefixes
        BY <2>2, <3>2, HeadTypes DEF DeliverPath, Take, ev
      <4> QED BY <2>6, <3>2, <4>1 DEF DeliverPath, Fold, ev
    <3>3. CASE DeliverEor
      BY <2>5, <3>3 DEF DeliverEor, Fold, ev
    <3>4. CASE DeliverState
      BY <2>3, <2>4, <3>4 DEF DeliverState, Fold, ev
    <3> QED BY <1>2, <3>1, <3>2, <3>3, <3>4 DEF TapStep
  <2> QED BY <2>1, <2>2, <2>7 DEF CanaryInv
<1>3. UNCHANGED vars \/ SinkNext \/ GoBGPNext => UNCHANGED view
  BY DEF vars, SinkNext, Ensure, AddPeer, RegisterEdge, DeletePeer, ForgetEdge, SkipEdge,
         GoBGPNext, SessionUp, SessionDown, EndOfRib, Announce, WithdrawPath
<1> QED BY <1>1, <1>2, <1>3

(***************************************************************************)
(* One step, as a member prefix of an edge that stays covered sees it.       *)
(***************************************************************************)
LEMMA KeepsTelling ==
    ASSUME NEW e, NEW p, TellsOf(e, p), UNCHANGED <<evq, established, view, rib>>
    PROVE  TellsOf(e, p)'
BY DEF TellsOf

LEMMA MirrorSink ==
    ASSUME MirrorInv, SinkNext, NEW e \in Edges \ uncovered', NEW p, TellsOf(e, p)
    PROVE  TellsOf(e, p)'
<1> USE DEF gobgp, coverage
<1>1. ASSUME NEW d \in Edges, DeletePeer(d) PROVE TellsOf(e, p)'
  <2> DEFINE ev == StateEvent(d, FALSE)
  <2>1. evq \in Seq(EventType) /\ rib \in [Edges -> SUBSET Paths]
    BY DEF MirrorInv, IInv, TypeOK
  <2>2. d # e /\ UNCHANGED <<established, view>> /\ rib'[e] = rib[e]
    BY <1>1, <2>1 DEF DeletePeer
  <2>3. ev \in EventType /\ ~About(ev, e, p) /\ (evq' = evq \/ evq' = Append(evq, ev))
    BY <1>1, <2>2 DEF DeletePeer, StateEvent, EventType, About
  <2> HIDE DEF ev
  <2>4. Told(evq', e, p, PrefixesOf(rib[e]), view[e].hosts, established)
    <3>1. CASE evq' = evq
      BY <3>1 DEF TellsOf
    <3>2. CASE evq' = Append(evq, ev)
      BY <2>1, <2>3, <3>2, ToldAppend DEF TellsOf
    <3> QED BY <2>3, <3>1, <3>2
  <2> QED BY <2>2, <2>4 DEF TellsOf
<1>2. ASSUME ~(\E d \in Edges : DeletePeer(d)) PROVE TellsOf(e, p)'
  BY <1>2, KeepsTelling DEF SinkNext, Ensure, AddPeer, RegisterEdge, ForgetEdge, SkipEdge
<1> QED BY <1>1, <1>2

LEMMA PrefixFacts ==
    ASSUME NEW paths \in SUBSET Paths, NEW path \in Paths, NEW p
    PROVE  /\ p # path[1] => (p \in PrefixesOf(paths \cup {path}) <=> p \in PrefixesOf(paths))
           /\ p # path[1] => (p \in PrefixesOf(paths \ {path}) <=> p \in PrefixesOf(paths))
           /\ path[1] \in PrefixesOf(paths \cup {path})
           /\ (\A m, n \in NextHops : m = n) => path[1] \notin PrefixesOf(paths \ {path})
<1>1. \A r \in SUBSET Paths : p \in PrefixesOf(r) <=> \E x \in r : x[1] = p
  BY DEF PrefixesOf
<1>2. paths \cup {path} \in SUBSET Paths /\ paths \ {path} \in SUBSET Paths
  OBVIOUS
<1>3. path[1] \in PrefixesOf(paths \cup {path})
  BY DEF PrefixesOf
<1>4. p # path[1] => (p \in PrefixesOf(paths \cup {path}) <=> p \in PrefixesOf(paths))
  BY <1>1, <1>2
<1>5. p # path[1] => (p \in PrefixesOf(paths \ {path}) <=> p \in PrefixesOf(paths))
  BY <1>1, <1>2
<1>6. ASSUME \A m, n \in NextHops : m = n, path[1] \in PrefixesOf(paths \ {path}) PROVE FALSE
  <2>1. PICK x \in paths \ {path} : x[1] = path[1]
    BY <1>6 DEF PrefixesOf
  <2>2. x = path
    BY <1>6, <2>1 DEF Paths
  <2> QED BY <2>1, <2>2
<1> QED BY <1>3, <1>4, <1>5, <1>6

\* A path event that reaches the watch says what the adj-in now holds.
LEMMA MirrorPath ==
    ASSUME MirrorInv, NEW d \in Edges, NEW path \in Paths, NEW wd \in BOOLEAN,
           budget.drops = MaxDrops, budget'.drops = MaxDrops,
           EmitLossy(PathEvent(d, path[1], wd)), UNCHANGED <<established, view>>,
           NEW paths \in SUBSET Paths, rib' = [rib EXCEPT ![d] = paths],
           \A p : p # path[1] => (p \in PrefixesOf(paths) <=> p \in PrefixesOf(rib[d])),
           path[1] \in PrefixesOf(paths) <=> ~wd,
           NEW e \in Edges, NEW p, TellsOf(e, p)
    PROVE  TellsOf(e, p)'
<1> DEFINE ev == PathEvent(d, path[1], wd)
<1>1. /\ evq \in Seq(EventType) /\ rib \in [Edges -> SUBSET Paths]
      /\ budget \in [sessions : Nat, churn : Nat, drops : 0 .. MaxDrops, coverages : Nat]
      /\ MaxDrops \in Nat
  BY TapAssumption DEF MirrorInv, IInv, TypeOK, DropsInv
<1>2. evq' = Append(evq, ev)
  <2>1. CASE budget' = [budget EXCEPT !.churn = @ - 1, !.drops = @ - 1]
    BY <1>1, <2>1
  <2> QED BY <2>1 DEF EmitLossy, Emit
<1>3. ev \in EventType
  BY DEF PathEvent, EventType, Paths
<1>4. About(ev, e, p) <=> d = e /\ p = path[1]
  BY DEF PathEvent, About
<1>5. Announces(ev) <=> ~wd
  BY DEF PathEvent, Announces
<1> HIDE DEF ev
<1>6. CASE About(ev, e, p)
  <2>1. Announces(ev) <=> p \in PrefixesOf(rib'[e])
    BY <1>1, <1>4, <1>5, <1>6
  <2>2. Told(Append(evq, ev), e, p, PrefixesOf(rib'[e]), view[e].hosts, established)
    BY <1>1, <1>3, <1>6, <2>1, ToldAppend DEF TellsOf
  <2> QED BY <1>2, <2>2 DEF TellsOf
<1>7. CASE ~About(ev, e, p)
  <2>1. Told(Append(evq, ev), e, p, PrefixesOf(rib[e]), view[e].hosts, established)
    BY <1>1, <1>3, <1>7, ToldAppend DEF TellsOf
  <2>2. p \in PrefixesOf(rib'[e]) <=> p \in PrefixesOf(rib[e])
    BY <1>1, <1>4, <1>7
  <2> HIDE DEF ev
  <2>3. Told(Append(evq, ev), e, p, PrefixesOf(rib'[e]), view[e].hosts, established)
    BY <2>1, <2>2, ToldSame
  <2> QED BY <1>2, <2>3 DEF TellsOf
<1> QED BY <1>6, <1>7

LEMMA MirrorGoBGP ==
    ASSUME MirrorInv, GoBGPNext, budget.drops = MaxDrops, budget'.drops = MaxDrops,
           \A m, n \in NextHops : m = n,
           NEW e \in Edges, NEW p, TellsOf(e, p)
    PROVE  TellsOf(e, p)'
<1> USE DEF coverage
<1>0. /\ evq \in Seq(EventType) /\ rib \in [Edges -> SUBSET Paths]
  BY DEF MirrorInv, IInv, TypeOK
<1>1. ASSUME NEW d \in Edges, NEW up \in BOOLEAN, evq' = Append(evq, StateEvent(d, up)),
             rib' = [rib EXCEPT ![d] = {}], UNCHANGED <<established, view>>
      PROVE  TellsOf(e, p)'
  <2> DEFINE ev == StateEvent(d, up)
  <2>1. ev \in EventType /\ (About(ev, e, p) <=> d = e) /\ ~Announces(ev)
    BY DEF StateEvent, EventType, About, Announces
  <2>2. d = e => PrefixesOf(rib'[e]) = {}
    BY <1>0, <1>1 DEF PrefixesOf
  <2>3. d # e => rib'[e] = rib[e]
    BY <1>0, <1>1
  <2> HIDE DEF ev
  <2>4. Told(Append(evq, ev), e, p, PrefixesOf(rib'[e]), view[e].hosts, established)
    <3>1. CASE d = e
      BY <1>0, <2>1, <2>2, <3>1, ToldAppend DEF TellsOf
    <3>2. CASE d # e
      BY <1>0, <2>1, <2>3, <3>2, ToldAppend DEF TellsOf
    <3> QED BY <3>1, <3>2
  <2>5. evq' = Append(evq, ev)
    BY <1>1 DEF ev
  <2> QED BY <1>1, <2>4, <2>5 DEF TellsOf
<1>2. ASSUME NEW d \in Edges, SessionUp(d) PROVE TellsOf(e, p)'
  <2>1. d \notin sess /\ UNCHANGED rib /\ evq' = Append(evq, StateEvent(d, TRUE))
    BY <1>2 DEF SessionUp, Emit
  <2>2. rib[d] = {}
    BY <2>1 DEF MirrorInv, RibInv
  <2>3. rib' = [rib EXCEPT ![d] = {}]
    BY <1>0, <2>1, <2>2
  <2>4. UNCHANGED <<established, view>>
    BY <1>2 DEF SessionUp
  <2> QED BY <1>1, <2>1, <2>3, <2>4
<1>3. ASSUME NEW d \in Edges, SessionDown(d) PROVE TellsOf(e, p)'
  BY <1>1, <1>3 DEF SessionDown, Emit
<1>4. ASSUME NEW d \in Edges, NEW f \in Families, EndOfRib(d, f) PROVE TellsOf(e, p)'
  <2> DEFINE ev == EorEvent(d, f)
  <2>1. ev \in EventType /\ ~About(ev, e, p) /\ evq' = Append(evq, ev)
    BY <1>4 DEF EndOfRib, Emit, EorEvent, EventType, About
  <2>2. UNCHANGED <<rib, established, view>>
    BY <1>4 DEF EndOfRib
  <2> HIDE DEF ev
  <2> QED BY <1>0, <2>1, <2>2, ToldAppend DEF TellsOf
<1>5. ASSUME NEW d \in Edges, NEW path \in Paths, Announce(d, path) PROVE TellsOf(e, p)'
  <2> DEFINE paths == rib[d] \cup {path}
  <2>1. /\ paths \in SUBSET Paths /\ rib' = [rib EXCEPT ![d] = paths]
        /\ EmitLossy(PathEvent(d, path[1], FALSE)) /\ UNCHANGED <<established, view>>
    BY <1>0, <1>5 DEF Announce
  <2>2. /\ \A x : x # path[1] => (x \in PrefixesOf(paths) <=> x \in PrefixesOf(rib[d]))
        /\ path[1] \in PrefixesOf(paths)
    BY <1>0, PrefixFacts
  <2> HIDE DEF paths
  <2> QED BY <2>1, <2>2, MirrorPath
<1>6. ASSUME NEW d \in Edges, NEW path \in Paths, WithdrawPath(d, path) PROVE TellsOf(e, p)'
  <2> DEFINE paths == rib[d] \ {path}
  <2>1. /\ paths \in SUBSET Paths /\ rib' = [rib EXCEPT ![d] = paths]
        /\ EmitLossy(PathEvent(d, path[1], TRUE)) /\ UNCHANGED <<established, view>>
    BY <1>0, <1>6 DEF WithdrawPath
  <2>2. /\ \A x : x # path[1] => (x \in PrefixesOf(paths) <=> x \in PrefixesOf(rib[d]))
        /\ path[1] \notin PrefixesOf(paths)
    BY <1>0, PrefixFacts
  <2> HIDE DEF paths
  <2> QED BY <2>1, <2>2, MirrorPath
<1> QED BY <1>2, <1>3, <1>4, <1>5, <1>6 DEF GoBGPNext

LEMMA MirrorTap ==
    ASSUME MirrorInv, TapStep, NEW e \in Edges \ uncovered,
           NEW p \in HostPrefixes \ CanaryPrefixes, TellsOf(e, p)
    PROVE  TellsOf(e, p)'
<1> USE DEF gobgp, coverage
<1> DEFINE ev == Head(evq)
           adj == PrefixesOf(rib[e])
<1>0. /\ evq \in Seq(EventType) /\ evq # <<>> /\ evq' = Tail(evq)
      /\ ev = evq[1] /\ 1 \in DOMAIN evq /\ ev \in EventType /\ ev.edge \in Edges
      /\ UNCHANGED rib /\ view \in [Edges -> EdgeViewType]
  <2>1. evq # <<>> /\ evq' = Tail(evq) /\ UNCHANGED rib
    BY DEF TapStep, DropUnknown, DeliverPath, DeliverEor, DeliverState, Take, Fold
  <2>2. evq \in Seq(EventType) /\ view \in [Edges -> EdgeViewType]
    BY DEF MirrorInv, IInv, TypeOK
  <2> QED BY <2>1, <2>2, TailFacts, TailTypes, HeadTypes
<1>1. SessionInv(e) /\ Told(evq, e, p, adj, view[e].hosts, established)
  BY DEF MirrorInv, IInv, TellsOf
<1>2. p \in HostPrefixes /\ p # NoPrefix /\ p \notin CanaryPrefixes /\ p \in Prefixes
  BY PrefixAssumption
<1> HIDE DEF ev, adj
<1>3. ASSUME ~About(ev, e, p), e \in established' => e \in established /\ (p \in view'[e].hosts <=> p \in view[e].hosts)
      PROVE  TellsOf(e, p)'
  <2>1. Told(evq', e, p, adj, view[e].hosts, established)
    BY <1>0, <1>1, <1>3, ToldTail
  <2>2. Told(evq', e, p, adj, view'[e].hosts, established')
    BY <1>3, <2>1, ToldSame
  <2> QED BY <1>0, <2>2 DEF TellsOf, adj
<1>4. ASSUME About(ev, e, p), e \in established' => (p \in view'[e].hosts <=> Announces(ev))
      PROVE  TellsOf(e, p)'
  <2>1. Told(evq', e, p, adj, view'[e].hosts, established')
    BY <1>0, <1>1, <1>4, ToldTail
  <2> QED BY <1>0, <2>1 DEF TellsOf, adj
<1>5. CASE ev.edge # e
  <2>1. ~About(ev, e, p)
    BY <1>5 DEF About
  <2>2. view'[e] = view[e] /\ (e \in established' => e \in established)
    BY <1>0, <1>5 DEF TapStep, DropUnknown, DeliverPath, DeliverEor, DeliverState, Fold, ev
  <2> QED BY <1>3, <2>1, <2>2
<1>6. CASE ev.edge = e /\ DropUnknown
  <2>1. e \notin established'
    BY <1>6 DEF MirrorInv, IInv, CoverInv, DropUnknown, ev
  <2> QED BY <1>3, <1>4, <2>1
<1>7. CASE ev.edge = e /\ DeliverPath
  <2> DEFINE lc == ev.prefix \in CanaryPrefixes
  <2>1. ev.kind = "path" /\ UNCHANGED established
    BY <1>7 DEF DeliverPath, Take, ev
  <2>2. view'[e] = IF ev.withdrawal THEN FoldWithdrawal(view[e], ev.prefix, FALSE)
                   ELSE FoldPathUpdate(view[e], ev.prefix, lc)
    BY <1>0, <1>7 DEF DeliverPath, Fold, ev
  <2>3. view[e] \in EdgeViewType /\ view[e].canaryPfx # p /\ p \notin CanaryPrefixes
    BY <1>0, <1>2 DEF MirrorInv, CanaryInv
  <2>4. About(ev, e, p) <=> ev.prefix = p
    BY <1>7, <2>1 DEF About
  <2>5. Announces(ev) <=> ~ev.withdrawal
    BY <2>1 DEF Announces
  <2>6. ev.prefix = p => (p \in view'[e].hosts <=> ~ev.withdrawal)
    BY <1>2, <2>2, <2>3 DEF FoldWithdrawal, FoldPathUpdate, EdgeViewType
  <2>7. ev.prefix # p => (p \in view'[e].hosts <=> p \in view[e].hosts)
    BY <2>2, <2>3 DEF FoldWithdrawal, FoldPathUpdate, EdgeViewType
  <2> QED BY <1>3, <1>4, <2>1, <2>4, <2>5, <2>6, <2>7
<1>8. CASE ev.edge = e /\ DeliverEor
  <2>1. ~About(ev, e, p) /\ UNCHANGED established
    BY <1>8 DEF About, DeliverEor, Take, ev
  <2>2. view'[e].hosts = view[e].hosts
    BY <1>0, <1>8 DEF DeliverEor, Fold, FoldEOR, EdgeViewType, ev
  <2> QED BY <1>3, <2>1, <2>2
<1>9. CASE ev.edge = e /\ DeliverState
  <2>1. /\ ev.kind = "state" /\ StateAt(evq, e, 1) /\ ev.up \in BOOLEAN
        /\ About(ev, e, p) /\ ~Announces(ev)
    BY <1>0, <1>9, HeadTypes DEF StateAt, DeliverState, Take, About, Announces, ev
  <2>2. e \in established' <=> ev.up
    BY <1>9, <2>1 DEF DeliverState, ev
  <2>3. ASSUME ev.up PROVE p \notin view'[e].hosts
    <3>1. e \notin established
      BY <1>0, <1>1, <2>1, <2>3, OrderTail DEF SessionInv, UpAt
    <3>2. view'[e] = FoldPeerUp(view[e])
      BY <1>0, <1>9, <2>3, <3>1 DEF DeliverState, Fold, ev
    <3> QED BY <3>2 DEF FoldPeerUp, Fresh
  <2> QED BY <1>4, <2>1, <2>2, <2>3
<1> QED BY <1>5, <1>6, <1>7, <1>8, <1>9 DEF TapStep

LEMMA MirrorStep ==
    ASSUME ~Auditing, \A m, n \in NextHops : m = n, MirrorInv, [Next]_vars
    PROVE  MirrorInv'
<1>1. audit' = IdleAudit /\ (UNCHANGED vars \/ SinkNext \/ GoBGPNext \/ TapStep)
  BY NoAudit DEF MirrorInv
<1>2. IInv' /\ RibInv' /\ CanaryInv' /\ DropsInv'
  BY <1>1, IInvStep, RibStep, CanaryStep, DropsStep DEF MirrorInv, IInv
<1>3. ASSUME budget'.drops = MaxDrops, NEW e \in Edges \ uncovered',
             NEW p \in HostPrefixes \ CanaryPrefixes
      PROVE  TellsOf(e, p)'
  <2>1. budget.drops = MaxDrops
    BY <1>1, <1>3, DropsStep DEF MirrorInv
  <2>2. uncovered \subseteq uncovered'
    BY <1>1 DEF vars, gobgp, coverage, SinkNext, Ensure, AddPeer, RegisterEdge, DeletePeer,
          ForgetEdge, SkipEdge, GoBGPNext, SessionUp, SessionDown, EndOfRib, Announce,
          WithdrawPath, TapStep, DropUnknown, DeliverPath, DeliverEor, DeliverState, Fold
  <2>3. e \in Edges \ uncovered /\ TellsOf(e, p)
    BY <2>1, <2>2 DEF MirrorInv
  <2>4. CASE UNCHANGED vars
    BY <2>3, <2>4, KeepsTelling DEF vars, gobgp
  <2> QED BY <1>1, <1>3, <2>1, <2>3, <2>4, MirrorSink, MirrorGoBGP, MirrorTap
<1>4. audit' = IdleAudit'
  BY <1>1 DEF IdleAudit
<1> QED BY <1>2, <1>3, <1>4 DEF MirrorInv

LEMMA FaithfulFromMirror ==
    ASSUME MirrorInv, budget.drops = MaxDrops
    PROVE  MirrorFaithful
<1> SUFFICES ASSUME NEW e \in Edges \ uncovered, NEW f \in Families, Valid(view[e], f),
                    ~InFlight(e, {"state", "eor", "path"}),
                    NEW p \in HostPrefixes, FamilyOf[p] = f
             PROVE  p \in view[e].hosts <=> p \in PrefixesOf(rib[e]) \ CanaryPrefixes
  <2>1. \A e \in Edges : view[e].hosts \subseteq HostPrefixes
    BY DEF MirrorInv, IInv, TypeOK, EdgeViewType
  <2> QED BY <2>1 DEF MirrorFaithful, AdjIn, OfFamily
<1>1. e \in established
  BY DEF MirrorInv, IInv, UpInv, Valid
<1>2. CASE p \in CanaryPrefixes
  BY <1>2 DEF MirrorInv, CanaryInv
<1>3. CASE p \notin CanaryPrefixes
  <2>1. \A i \in DOMAIN evq : ~About(evq[i], e, p)
    BY DEF InFlight, About
  <2>2. TellsOf(e, p)
    BY <1>3 DEF MirrorInv
  <2> QED BY <1>1, <1>3, <2>1, <2>2 DEF TellsOf, Told
<1> QED BY <1>2, <1>3

(***************************************************************************)
(* A trusted view that has folded what was queued for its edge says of       *)
(* every member prefix what GoBGP's adj-in says, for any edges, families,    *)
(* prefixes and bounds, through sessions that come and go and coverage that  *)
(* changes, as long as the watch has lost no event: with one path per        *)
(* prefix, and before any repair by the audit (with two paths MCTapMultipath  *)
(* shows it false).                                                         *)
(***************************************************************************)
THEOREM MirrorTrue ==
    ASSUME ~Auditing, \A m, n \in NextHops : m = n
    PROVE  Spec => [](budget.drops = MaxDrops => MirrorFaithful)
<1>1. Init => MirrorInv
  BY InitMirror
<1>2. MirrorInv /\ [Next]_vars => MirrorInv'
  BY MirrorStep
<1>3. MirrorInv => (budget.drops = MaxDrops => MirrorFaithful)
  BY FaithfulFromMirror
<1> QED BY <1>1, <1>2, <1>3, PTL DEF Spec

(***************************************************************************)
(* The same for a watch that loses nothing, as MCTapView checks it.          *)
(***************************************************************************)
THEOREM MirrorLossless ==
    ASSUME ~Auditing, MaxDrops = 0, \A m, n \in NextHops : m = n
    PROVE  Spec => []MirrorFaithful
<1>1. Init => MirrorInv
  BY InitMirror
<1>2. MirrorInv /\ [Next]_vars => MirrorInv'
  BY MirrorStep
<1>3. MirrorInv => budget.drops = MaxDrops
  BY DEF MirrorInv, DropsInv
<1>4. MirrorInv => MirrorFaithful
  BY <1>3, FaithfulFromMirror
<1> QED BY <1>1, <1>2, <1>4, PTL DEF Spec
=============================================================================
