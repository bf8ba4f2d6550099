------------------------- MODULE ReportUplinkProofs -------------------------
(***************************************************************************)
(* What the server is told follows the guard's view, for any edges,         *)
(* prefixes, families and number of goroutines.                             *)
(***************************************************************************)
EXTENDS ReportUplink, SequenceTheorems, TLAPS

-----------------------------------------------------------------------------
(***************************************************************************)
(* Types.                                                                  *)
(***************************************************************************)
ReportType == VoteReport \cup MemberReport

LEMMA EventTypes ==
    /\ NoEvent \in EventType
    /\ \A e \in Edges : [kind |-> "PeerDown", edge |-> e] \in EventType
    /\ \A e \in Edges, f \in Families : [kind |-> "EOR", edge |-> e, family |-> f] \in EventType
    /\ \A e \in Edges, p \in Prefixes :
          /\ [kind |-> "PathUpdate", edge |-> e, prefix |-> p] \in EventType
          /\ [kind |-> "Withdrawal", edge |-> e, prefix |-> p] \in EventType
BY DEF EventType

LEMMA EventFields ==
    ASSUME NEW ev \in EventType
    PROVE  /\ ev.kind = "none" <=> ev = NoEvent
           /\ ev.kind \in {"PeerDown", "EOR", "PathUpdate", "Withdrawal"} => ev.edge \in Edges
           /\ ev.kind = "EOR" => ev.family \in Families
           /\ ev.kind \in {"PathUpdate", "Withdrawal"} => ev.prefix \in Prefixes
BY DEF EventType, NoEvent

LEMMA VoteTypes ==
    ASSUME NEW e \in Edges
    PROVE  /\ DeathVote(e, TRUE, FALSE) \in VoteReport
           /\ DeathVote(e, TRUE, TRUE) \in VoteReport
           /\ DeathVote(e, FALSE, TRUE) \in VoteReport
           /\ DeathVote(e, FALSE, FALSE) \in VoteReport
BY DEF DeathVote, VoteReport

LEMMA MemberTypes ==
    ASSUME NEW e \in Edges, NEW hosts \in SUBSET HostPrefixes, NEW down \in BOOLEAN
    PROVE  /\ MemberEdge(e, hosts, down) \in MemberReport
           /\ MemberEdge(e, hosts, down) \in ReportType
BY DEF MemberEdge, MemberReport, ReportType

LEMMA ReportFields ==
    ASSUME NEW r \in ReportType
    PROVE  /\ r.kind \in {"DEATH_VOTE", "MEMBER_EDGE"} /\ r.edge \in Edges
           /\ r.down \in BOOLEAN
           /\ r.kind = "DEATH_VOTE" => r \in VoteReport /\ r.soft \in BOOLEAN
           /\ r.kind = "MEMBER_EDGE" => r \in MemberReport /\ r.members \subseteq HostPrefixes
BY DEF ReportType, VoteReport, MemberReport

LEMMA OutTypes ==
    /\ <<>> \in Seq(ReportType)
    /\ \A r \in ReportType : <<r>> \in Seq(ReportType)
    /\ \A r, s \in ReportType : <<r, s>> \in Seq(ReportType)
OBVIOUS

LEMMA TailTypes ==
    ASSUME NEW q \in Seq(ReportType), q # <<>>
    PROVE  /\ Head(q) \in ReportType /\ Tail(q) \in Seq(ReportType)
           /\ Head(q) = q[1] /\ Len(Tail(q)) = Len(q) - 1 /\ Len(q) \in Nat \ {0}
           /\ Len(q) = 2 => Tail(q)[1] = q[2] /\ Tail(q) # <<>>
           /\ Len(q) = 1 => Tail(q) = <<>>
<1>1. Head(q) \in ReportType /\ Tail(q) \in Seq(ReportType)
  OBVIOUS
<1>2. Head(q) = q[1] /\ Len(Tail(q)) = Len(q) - 1 /\ Len(q) \in Nat \ {0}
  OBVIOUS
<1>3. \A i \in 1 .. Len(Tail(q)) : Tail(q)[i] = q[i + 1]
  OBVIOUS
<1>4. Tail(q) # <<>> <=> Len(Tail(q)) # 0
  BY <1>1, EmptySeq
<1> QED BY <1>1, <1>2, <1>3, <1>4

LEMMA FoldTypes ==
    ASSUME NEW v \in EdgeViewType
    PROVE  /\ FoldPeerUp(v) \in EdgeViewType /\ FoldPeerDown(v) \in EdgeViewType
           /\ \A f \in Families : FoldEOR(v, f) \in EdgeViewType
           /\ \A p \in Prefixes, lc \in BOOLEAN :
                 /\ FoldPathUpdate(v, p, lc) \in EdgeViewType
                 /\ FoldWithdrawal(v, p, lc) \in EdgeViewType
           /\ \A f \in Families, auth \in SUBSET HostPrefixes :
                 Reconciled(v, f, auth) \in EdgeViewType
<1>1. Fresh \in EdgeViewType
  BY DEF Fresh, EdgeViewType
<1>2. FoldPeerUp(v) \in EdgeViewType /\ FoldPeerDown(v) \in EdgeViewType
  BY <1>1 DEF FoldPeerUp, FoldPeerDown, EdgeViewType
<1>3. ASSUME NEW f \in Families
      PROVE  FoldEOR(v, f) \in EdgeViewType
  BY DEF FoldEOR, EdgeViewType
<1>4. ASSUME NEW p \in Prefixes, NEW lc \in BOOLEAN
      PROVE  FoldPathUpdate(v, p, lc) \in EdgeViewType
  BY DEF FoldPathUpdate, EdgeViewType
<1>5. ASSUME NEW p \in Prefixes, NEW lc \in BOOLEAN
      PROVE  FoldWithdrawal(v, p, lc) \in EdgeViewType
  BY DEF FoldWithdrawal, EdgeViewType
<1>6. ASSUME NEW f \in Families, NEW auth \in SUBSET HostPrefixes
      PROVE  Reconciled(v, f, auth) \in EdgeViewType
  BY DEF Reconciled, Missed, Stale, OfFamily, EdgeViewType
<1> QED BY <1>2, <1>3, <1>4, <1>5, <1>6

LEMMA UplinkInit == Init => TypeOK
<1> SUFFICES ASSUME Init PROVE TypeOK
  OBVIOUS
<1>1. view \in [Edges -> EdgeViewType]
  BY PrefixAssumption DEF Init, Fresh, EdgeViewType
<1>2. tap \in [event : EventType, out : Seq(ReportType)] /\ tap.event = NoEvent
  BY OutTypes DEF Init, Resting, EventType
<1>3. \A x \in Emitters : emitter[x] \in EmitterType /\ emitter[x].pc = "done"
  BY DEF Init, Done, EmitterType
<1> QED
  BY <1>1, <1>2, <1>3 DEF Init, TypeOK, ReportType, Word

LEMMA FoldedType ==
    ASSUME TypeOK, NEW e \in Edges, NEW v \in EdgeViewType, NEW ev \in EventType,
           Folded(e, v, ev), established' \subseteq Edges,
           flaw' \in [Edges -> SUBSET Flaws]
    PROVE  TypeOK'
<1>1. /\ view' \in [Edges -> EdgeViewType]
      /\ tap' \in [event : EventType, out : Seq(ReportType)] /\ tap'.out = <<>>
  BY DEF Folded, TypeOK, Resting, ReportType
<1>2. told' \in [Edges -> SUBSET HostPrefixes]
  <2> DEFINE kept == {p \in told[e] : Settled(v, FamilyOf[p])}
  <2>1. told \in [Edges -> SUBSET HostPrefixes] /\ kept \in SUBSET HostPrefixes
    BY DEF TypeOK
  <2>2. told' = [told EXCEPT ![e] = kept]
    BY DEF Folded
  <2> HIDE DEF kept
  <2> QED BY <2>1, <2>2
<1> QED BY <1>1, <1>2 DEF Folded, server, TypeOK, ReportType

LEMMA TapEventType ==
    ASSUME TypeOK, NEW e \in Edges, TapEvent(e) PROVE TypeOK'
<1> DEFINE FlawType == [Edges -> SUBSET Flaws]
<1>1. view[e] \in EdgeViewType /\ flaw \in FlawType /\ established \subseteq Edges
  BY DEF TypeOK
<1>2. CASE PeerUp(e)
  <2>1. flaw' \in FlawType /\ established' \subseteq Edges
    BY <1>1, <1>2 DEF PeerUp, Flaws
  <2> QED BY <2>1, <1>1, <1>2, FoldTypes, EventTypes, FoldedType DEF PeerUp
<1>3. CASE PeerDown(e)
  <2>1. flaw' \in FlawType /\ established' \subseteq Edges
    BY <1>1, <1>3 DEF PeerDown
  <2> QED BY <2>1, <1>1, <1>3, FoldTypes, EventTypes, FoldedType DEF PeerDown
<1>4. ASSUME NEW f \in Families, EOR(e, f) PROVE TypeOK'
  BY <1>1, <1>4, FoldTypes, EventTypes, FoldedType DEF EOR
<1>5. ASSUME NEW p \in Prefixes, PathUpdate(e, p) PROVE TypeOK'
  <2> DEFINE v == FoldPathUpdate(view[e], p, p \in CanaryPrefixes)
  <2>1. v \in EdgeViewType
    BY <1>1 DEF FoldPathUpdate, EdgeViewType
  <2>2. Folded(e, v, [kind |-> "PathUpdate", edge |-> e, prefix |-> p]) /\ UNCHANGED established
        /\ flaw' \in FlawType
    BY <1>1, <1>5 DEF PathUpdate
  <2> HIDE DEF v
  <2> QED BY <2>1, <2>2, <1>1, EventTypes, FoldedType
<1>6. ASSUME NEW p \in Prefixes, Withdrawal(e, p) PROVE TypeOK'
  <2> DEFINE v == FoldWithdrawal(view[e], p, FALSE)
  <2>1. v \in EdgeViewType
    BY <1>1 DEF FoldWithdrawal, EdgeViewType
  <2>2. Folded(e, v, [kind |-> "Withdrawal", edge |-> e, prefix |-> p])
        /\ UNCHANGED <<established, flaw>>
    BY <1>6 DEF Withdrawal
  <2> HIDE DEF v
  <2> QED BY <2>1, <2>2, <1>1, EventTypes, FoldedType
<1> QED BY <1>2, <1>3, <1>4, <1>5, <1>6 DEF TapEvent

\* What the handler of the tap changes besides sending.
LEMMA JudgedType ==
    ASSUME TypeOK, NEW out \in Seq(ReportType), tap' = [event |-> NoEvent, out |-> out],
           canarySeen' \subseteq Edges \X CanaryPrefixes, ahead' \in [Goroutines -> SUBSET Goroutines],
           told' \in [Edges -> SUBSET HostPrefixes],
           emitter' \in [Emitters -> EmitterType],
           flaw' \in [Edges -> SUBSET Flaws],
           UNCHANGED <<established, view, server>>
    PROVE  TypeOK'
<1>1. tap' \in [event : EventType, out : Seq(ReportType)] /\ tap'.event = NoEvent
  BY EventTypes
<1> QED BY <1>1 DEF TypeOK, server, ReportType

LEMMA DecideTypes ==
    ASSUME TypeOK, NEW by \in Goroutines, NEW e \in Edges, NEW hosts \in SUBSET HostPrefixes,
           Decide(by, e, hosts) \/ UNCHANGED <<ahead, told>>
    PROVE  /\ ahead' \in [Goroutines -> SUBSET Goroutines]
           /\ told' \in [Edges -> SUBSET HostPrefixes]
<1>1. ahead \in [Goroutines -> SUBSET Goroutines] /\ told \in [Edges -> SUBSET HostPrefixes]
  BY DEF TypeOK
<1> QED BY <1>1 DEF Decide

LEMMA GatedType ==
    ASSUME TypeOK, NEW e \in Edges, NEW p, Gated(e, p) \/ UNCHANGED flaw
    PROVE  flaw' \in [Edges -> SUBSET Flaws]
<1>1. flaw \in [Edges -> SUBSET Flaws]
  BY DEF TypeOK
<1> QED BY <1>1 DEF Gated, Settled, Flaws

LEMMA MemberOutType ==
    ASSUME TypeOK, NEW e \in Edges, NEW p \in Prefixes, NEW so \in BOOLEAN, NEW down \in BOOLEAN,
           so => Member(p), ReportMember(e, p, down, so)
    PROVE  /\ \E out \in Seq(ReportType) : tap' = [event |-> NoEvent, out |-> out]
           /\ ahead' \in [Goroutines -> SUBSET Goroutines]
           /\ told' \in [Edges -> SUBSET HostPrefixes]
           /\ UNCHANGED established
<1>1. CASE so
  <2> DEFINE r == MemberEdge(e, {p}, down)
  <2>1. r \in ReportType /\ {p} \in SUBSET HostPrefixes
    BY <1>1, MemberTypes DEF Member
  <2>2. tap' = [event |-> NoEvent, out |-> <<r>>] /\ Decide("tap", e, {p}) /\ UNCHANGED established
    BY <1>1 DEF ReportMember
  <2> HIDE DEF r
  <2> QED BY <2>1, <2>2, OutTypes, DecideTypes DEF Goroutines
<1>2. CASE ~so
  BY <1>2, OutTypes, DecideTypes DEF ReportMember, Goroutines
<1> QED BY <1>1, <1>2

LEMMA HandlerType ==
    ASSUME TypeOK,
           \/ JudgePeerDown \/ CanaryWithdrawn \/ HostWithdrawn
           \/ CanaryAnnounced \/ HostAnnounced \/ SpawnSnapshot
    PROVE  TypeOK'
<1> DEFINE ev == tap.event
           FlawType == [Edges -> SUBSET Flaws]
<1>1. ev \in EventType
  BY DEF TypeOK
<1>2. /\ ev.kind \in {"PeerDown", "EOR", "PathUpdate", "Withdrawal"} => ev.edge \in Edges
      /\ ev.kind = "EOR" => ev.family \in Families
      /\ ev.kind \in {"PathUpdate", "Withdrawal"} => ev.prefix \in Prefixes
  BY <1>1, EventFields
<1>3. /\ canarySeen \subseteq Edges \X CanaryPrefixes
      /\ ahead \in [Goroutines -> SUBSET Goroutines]
      /\ told \in [Edges -> SUBSET HostPrefixes]
      /\ emitter \in [Emitters -> EmitterType]
      /\ flaw \in FlawType
  BY DEF TypeOK
<1>4. CASE JudgePeerDown
  <2>1. DeathVote(ev.edge, TRUE, FALSE) \in ReportType
    BY <1>2, <1>4, VoteTypes DEF JudgePeerDown, Judging, ReportType
  <2> QED BY <2>1, <1>3, <1>4, OutTypes, JudgedType DEF JudgePeerDown, ReportVotes
<1>5. CASE CanaryWithdrawn
  <2>1. DeathVote(ev.edge, TRUE, TRUE) \in ReportType
    BY <1>2, <1>5, VoteTypes DEF CanaryWithdrawn, Judging, ReportType
  <2>2. canarySeen' \subseteq Edges \X CanaryPrefixes
    BY <1>3, <1>5 DEF CanaryWithdrawn
  <2> QED BY <2>1, <2>2, <1>3, <1>5, OutTypes, JudgedType DEF CanaryWithdrawn, ReportVotes
<1>6. CASE HostWithdrawn
  <2> DEFINE so == Member(ev.prefix) /\ ShouldWithdraw(view[ev.edge], ev.prefix)
  <2>1. ReportMember(ev.edge, ev.prefix, TRUE, so) /\ UNCHANGED <<view, canarySeen, emitter, server>>
    BY <1>6 DEF HostWithdrawn
  <2>2. flaw' \in FlawType
    BY <1>2, <1>6, GatedType DEF HostWithdrawn, Judging
  <2>3. /\ \E out \in Seq(ReportType) : tap' = [event |-> NoEvent, out |-> out]
        /\ ahead' \in [Goroutines -> SUBSET Goroutines]
        /\ told' \in [Edges -> SUBSET HostPrefixes]
        /\ UNCHANGED established
    <3>1. so \in BOOLEAN /\ (so => Member(ev.prefix)) /\ ev.edge \in Edges /\ ev.prefix \in Prefixes
      BY <1>2, <1>6 DEF HostWithdrawn, Judging
    <3> HIDE DEF so
    <3> QED BY <2>1, <3>1, MemberOutType
  <2> QED BY <2>1, <2>2, <2>3, <1>3, JudgedType
<1>7. CASE CanaryAnnounced
  <2>1. /\ DeathVote(ev.edge, FALSE, TRUE) \in ReportType
        /\ DeathVote(ev.edge, FALSE, FALSE) \in ReportType
    BY <1>2, <1>7, VoteTypes DEF CanaryAnnounced, Judging, ReportType
  <2>2. canarySeen' \subseteq Edges \X CanaryPrefixes
    <3>1. <<ev.edge, ev.prefix>> \in Edges \X CanaryPrefixes
      BY <1>2, <1>7 DEF CanaryAnnounced, Judging
    <3>2. canarySeen' = canarySeen \cup {<<ev.edge, ev.prefix>>}
      BY <1>7 DEF CanaryAnnounced
    <3> QED BY <3>1, <3>2, <1>3
  <2> QED BY <2>1, <2>2, <1>3, <1>7, OutTypes, JudgedType DEF CanaryAnnounced, ReportVotes
<1>8. CASE HostAnnounced
  <2> DEFINE so == /\ Member(ev.prefix) /\ Trusted(ev.edge, ev.prefix)
                   /\ ev.prefix \in view[ev.edge].hosts
  <2>1. ReportMember(ev.edge, ev.prefix, FALSE, so) /\ UNCHANGED <<view, canarySeen, emitter, server>>
    BY <1>8 DEF HostAnnounced
  <2>2. flaw' \in FlawType
    BY <1>2, <1>8, GatedType DEF HostAnnounced, Judging
  <2>3. /\ \E out \in Seq(ReportType) : tap' = [event |-> NoEvent, out |-> out]
        /\ ahead' \in [Goroutines -> SUBSET Goroutines]
        /\ told' \in [Edges -> SUBSET HostPrefixes]
        /\ UNCHANGED established
    <3>1. so \in BOOLEAN /\ (so => Member(ev.prefix)) /\ ev.edge \in Edges /\ ev.prefix \in Prefixes
      BY <1>2, <1>8 DEF HostAnnounced, Judging
    <3> HIDE DEF so
    <3> QED BY <2>1, <3>1, MemberOutType
  <2> QED BY <2>1, <2>2, <2>3, <1>3, JudgedType
<1>9. CASE SpawnSnapshot
  <2>1. PICK x \in EorGoroutines : Emit(x, ev.edge, ev.family)
    BY <1>9 DEF SpawnSnapshot
  <2> DEFINE m == [pc |-> "read", edge |-> ev.edge, family |-> ev.family]
  <2>2. m \in EmitterType /\ m.pc = "read"
    BY <1>2, <1>9 DEF SpawnSnapshot, Judging, EmitterType
  <2>3. emitter' = [emitter EXCEPT ![x] = m]
    BY <2>1 DEF Emit
  <2> HIDE DEF m
  <2>4. emitter' \in [Emitters -> EmitterType]
    BY <2>2, <2>3, <1>3 DEF Emitters
  <2> QED BY <2>4, <1>3, <1>9, OutTypes, JudgedType DEF SpawnSnapshot, ReportVotes
<1> QED BY <1>4, <1>5, <1>6, <1>7, <1>8, <1>9

LEMMA SendType ==
    ASSUME TypeOK, NEW r \in ReportType, NEW by \in Goroutines, Send(r, by)
    PROVE  /\ vote' \in [Edges -> [hard : Word, soft : Word]]
           /\ homed' \in [Edges -> SUBSET HostPrefixes]
           /\ flaw' \in [Edges -> SUBSET Flaws]
<1>1. /\ vote \in [Edges -> [hard : Word, soft : Word]]
      /\ homed \in [Edges -> SUBSET HostPrefixes]
      /\ flaw \in [Edges -> SUBSET Flaws]
  BY DEF TypeOK
<1>2. r.edge \in Edges /\ (r.kind = "MEMBER_EDGE" => r.members \subseteq HostPrefixes)
  BY ReportFields
<1>4. CASE Deliver(r) /\ Overtakes(r, by)
  <2>1. flaw' \in [Edges -> SUBSET Flaws]
    BY <1>1, <1>2, <1>4 DEF Overtakes, Flaws
  <2>2. CASE r.kind = "DEATH_VOTE"
    <3> DEFINE v == IF r.soft THEN [vote[r.edge] EXCEPT !.soft = IF r.down THEN "down" ELSE "up"]
                    ELSE [vote[r.edge] EXCEPT !.hard = IF r.down THEN "down" ELSE "up"]
    <3>1. v \in [hard : Word, soft : Word]
      BY <1>1, <1>2 DEF Word
    <3>2. vote' = [vote EXCEPT ![r.edge] = v] /\ homed' = homed
      BY <1>4, <2>2 DEF Deliver
    <3> HIDE DEF v
    <3> QED BY <1>1, <2>1, <3>1, <3>2
  <2>3. CASE r.kind = "MEMBER_EDGE"
    <3> DEFINE h == IF r.down THEN homed[r.edge] \ r.members
                    ELSE homed[r.edge] \cup r.members
    <3>1. h \in SUBSET HostPrefixes
      BY <1>1, <1>2, <2>3
    <3>2. homed' = [homed EXCEPT ![r.edge] = h] /\ vote' = vote
      BY <1>4, <2>3 DEF Deliver
    <3> HIDE DEF h
    <3> QED BY <1>1, <2>1, <3>1, <3>2
  <2> QED BY <2>2, <2>3, ReportFields
<1>5. CASE Lose(r)
  BY <1>1, <1>2, <1>5 DEF Lose, server, Flaws
<1> QED BY <1>4, <1>5 DEF Send

LEMMA ThroughType ==
    ASSUME TypeOK, NEW by \in Goroutines, Through(by) \/ UNCHANGED ahead
    PROVE  ahead' \in [Goroutines -> SUBSET Goroutines]
BY DEF TypeOK, Through

LEMMA TapSendsType == TypeOK /\ TapSends => TypeOK'
<1> SUFFICES ASSUME TypeOK, TapSends PROVE TypeOK'
  OBVIOUS
<1>1. tap.out \in Seq(ReportType) /\ tap.out # <<>> /\ tap.event \in EventType /\ tap.event = NoEvent
  BY DEF TypeOK, TapSends, ReportType
<1>2. Head(tap.out) \in ReportType /\ Tail(tap.out) \in Seq(ReportType)
  BY <1>1, TailTypes
<1>3. Send(Head(tap.out), "tap") /\ Through("tap")
      /\ UNCHANGED <<established, view, canarySeen, emitter, told>>
  BY DEF TapSends
<1>4. tap' \in [event : EventType, out : Seq(ReportType)] /\ tap'.event = NoEvent
  BY <1>1, <1>2 DEF TapSends, TypeOK, ReportType
<1>5. /\ vote' \in [Edges -> [hard : Word, soft : Word]]
      /\ homed' \in [Edges -> SUBSET HostPrefixes]
      /\ ahead' \in [Goroutines -> SUBSET Goroutines]
      /\ flaw' \in [Edges -> SUBSET Flaws]
  BY <1>2, <1>3, SendType, ThroughType DEF Goroutines
<1> QED BY <1>3, <1>4, <1>5 DEF TypeOK, ReportType

LEMMA EmitterFields ==
    ASSUME TypeOK, NEW x \in Emitters
    PROVE  /\ emitter[x].pc \in {"done", "read", "send"}
           /\ emitter[x].pc = "done" => emitter[x] = Done
           /\ emitter[x].pc = "read" => emitter[x].edge \in Edges /\ emitter[x].family \in Families
           /\ emitter[x].pc = "send" =>
                 emitter[x].report \in MemberReport /\ emitter[x].report \in ReportType
<1>1. emitter[x] \in EmitterType
  BY DEF TypeOK
<1> QED BY <1>1 DEF EmitterType, Done, ReportType

\* An emitter gets a new value.
LEMMA EmitterSet ==
    ASSUME TypeOK, NEW x \in Emitters, NEW m \in EmitterType, emitter' = [emitter EXCEPT ![x] = m]
    PROVE  emitter' \in [Emitters -> EmitterType]
BY DEF TypeOK

(***************************************************************************)
(* An emitter that has sent a chunk: what is left of its report.            *)
(***************************************************************************)
ChunkSent(x, chunk) ==
    LET r == emitter[x].report  rest == r.members \ chunk
    IN  /\ Send([r EXCEPT !.members = chunk], x)
        /\ \/ rest = {} /\ emitter' = [emitter EXCEPT ![x] = Done] /\ Through(x)
           \/ /\ rest # {} /\ UNCHANGED ahead
              /\ emitter' = [emitter EXCEPT ![x] =
                                [pc |-> "send", report |-> [r EXCEPT !.members = rest]]]
        /\ UNCHANGED <<established, view, canarySeen, tap, told>>

LEMMA EmitterChunk ==
    ASSUME TypeOK, NEW x \in Emitters, EmitterSends(x)
    PROVE  /\ emitter[x].pc = "send" /\ emitter[x].report \in MemberReport
           /\ \E chunk \in SUBSET emitter[x].report.members : ChunkSent(x, chunk)
<1> DEFINE r == emitter[x].report
<1>1. emitter[x].pc = "send" /\ emitter[x] \in EmitterType /\ r \in MemberReport
  BY EmitterFields DEF EmitterSends, TypeOK
<1>2. emitter[x] \in [pc : {"send"}, report : MemberReport]
  BY <1>1 DEF EmitterType, Done
<1>3. PICK chunk \in SUBSET r.members :
        /\ Send([r EXCEPT !.members = chunk], x)
        /\ IF r.members \ chunk = {} THEN emitter' = [emitter EXCEPT ![x] = Done] /\ Through(x)
           ELSE emitter' = [emitter EXCEPT ![x].report.members = r.members \ chunk] /\ UNCHANGED ahead
  BY DEF EmitterSends
<1>4. [emitter EXCEPT ![x].report.members = r.members \ chunk]
        = [emitter EXCEPT ![x] = [pc |-> "send", report |-> [r EXCEPT !.members = r.members \ chunk]]]
  <2> DEFINE m == emitter[x]  q == [r EXCEPT !.members = r.members \ chunk]
  <2>1. [m EXCEPT !.report = q] = [pc |-> "send", report |-> q]
    <3> HIDE DEF m, q
    <3>1. m \in [pc : {"send"}, report : MemberReport]
      BY <1>2 DEF m
    <3> QED BY <3>1
  <2>2. [emitter EXCEPT ![x].report.members = r.members \ chunk] = [emitter EXCEPT ![x] = [m EXCEPT !.report = q]]
    OBVIOUS
  <2> QED BY <2>1, <2>2
<1>5. UNCHANGED <<established, view, canarySeen, tap, told>>
  BY DEF EmitterSends
<1>6. ChunkSent(x, chunk)
  BY <1>3, <1>4, <1>5 DEF ChunkSent
<1> QED BY <1>1, <1>6

LEMMA EmitterSendsType ==
    ASSUME TypeOK, NEW x \in Emitters, EmitterSends(x) PROVE TypeOK'
<1> DEFINE r == emitter[x].report
<1>1. r \in MemberReport
  BY EmitterChunk
<1>2. PICK chunk \in SUBSET r.members : ChunkSent(x, chunk)
  BY EmitterChunk
<1> DEFINE rest == r.members \ chunk
           m == [pc |-> "send", report |-> [r EXCEPT !.members = rest]]
<1>3. r.members \subseteq HostPrefixes
  BY <1>1 DEF MemberReport
<1>4. [r EXCEPT !.members = chunk] \in ReportType
  BY <1>1, <1>3 DEF ReportType, MemberReport
<1>5. m \in EmitterType /\ Done \in EmitterType
  BY <1>1, <1>3 DEF EmitterType, MemberReport
<1>6. Send([r EXCEPT !.members = chunk], x)
      /\ (emitter' = [emitter EXCEPT ![x] = Done] \/ emitter' = [emitter EXCEPT ![x] = m])
      /\ (Through(x) \/ UNCHANGED ahead)
      /\ UNCHANGED <<established, view, canarySeen, tap, told>>
  BY <1>2 DEF ChunkSent
<1> HIDE DEF m
<1>7. emitter' \in [Emitters -> EmitterType]
  BY <1>5, <1>6, EmitterSet
<1>8. /\ vote' \in [Edges -> [hard : Word, soft : Word]]
      /\ homed' \in [Edges -> SUBSET HostPrefixes]
      /\ ahead' \in [Goroutines -> SUBSET Goroutines]
      /\ flaw' \in [Edges -> SUBSET Flaws]
  BY <1>4, <1>6, SendType, ThroughType DEF Goroutines
<1> QED BY <1>6, <1>7, <1>8 DEF TypeOK

LEMMA ReadHostsType ==
    ASSUME TypeOK, NEW x \in Emitters, ReadHosts(x) PROVE TypeOK'
<1> DEFINE e == emitter[x].edge
           hosts == view[e].hosts \cap OfFamily(emitter[x].family)
           r == MemberEdge(e, hosts, FALSE)
           m == [pc |-> "send", report |-> r]
<1>1. e \in Edges /\ hosts \in SUBSET HostPrefixes
  BY EmitterFields DEF ReadHosts, OfFamily
<1>2. r \in MemberReport
  BY <1>1, MemberTypes
<1>3. emitter' = [emitter EXCEPT ![x] = m] /\ Decide(x, e, hosts)
      /\ UNCHANGED <<established, view, canarySeen, tap, server, flaw>>
  BY DEF ReadHosts
<1>4. m \in EmitterType
  <2> HIDE DEF r
  <2> QED BY <1>2 DEF EmitterType
<1> HIDE DEF m, hosts
<1>5. emitter' \in [Emitters -> EmitterType]
  BY <1>3, <1>4, EmitterSet
<1>6. ahead' \in [Goroutines -> SUBSET Goroutines] /\ told' \in [Edges -> SUBSET HostPrefixes]
  BY <1>1, <1>3, DecideTypes DEF Goroutines
<1> QED BY <1>3, <1>5, <1>6 DEF TypeOK, server

LEMMA AuditRepairType ==
    ASSUME TypeOK, NEW e \in Edges, NEW f \in Families, NEW auth \in SUBSET HostPrefixes,
           AuditRepair(e, f, auth)
    PROVE  TypeOK'
<1> DEFINE m == [pc |-> "read", edge |-> e, family |-> f]
<1>1. m \in EmitterType
  BY DEF EmitterType
<1>2. emitter' = [emitter EXCEPT !["audit"] = m]
      /\ UNCHANGED <<established, canarySeen, tap, server, ahead, flaw>>
  BY DEF AuditRepair, Emit
<1> HIDE DEF m
<1>3. emitter' \in [Emitters -> EmitterType]
  BY <1>1, <1>2, EmitterSet DEF Emitters
<1>4. view' \in [Edges -> EdgeViewType]
  <2>1. view \in [Edges -> EdgeViewType]
    BY DEF TypeOK
  <2>2. Reconciled(view[e], f, auth) \in EdgeViewType
    BY <2>1, FoldTypes
  <2> QED BY <2>1, <2>2 DEF AuditRepair
<1>5. told' \in [Edges -> SUBSET HostPrefixes]
  BY DEF TypeOK, AuditRepair
<1> QED BY <1>2, <1>3, <1>4, <1>5 DEF TypeOK, server

LEMMA TypeStep == TypeOK /\ [Next]_vars => TypeOK'
<1> SUFFICES ASSUME TypeOK, [Next]_vars PROVE TypeOK'
  OBVIOUS
<1>1. ASSUME NEW e \in Edges, TapEvent(e) PROVE TypeOK'
  BY <1>1, TapEventType
<1>2. CASE TapHandler
  BY <1>2, HandlerType, TapSendsType DEF TapHandler
<1>3. ASSUME NEW e \in Edges, NEW f \in Families, NEW auth \in SUBSET (HostPrefixes \ CanaryPrefixes),
             AuditRepair(e, f, auth)
      PROVE  TypeOK'
  BY <1>3, AuditRepairType
<1>4. ASSUME NEW x \in Emitters, ReadHosts(x) \/ EmitterSends(x) PROVE TypeOK'
  BY <1>4, ReadHostsType, EmitterSendsType
<1>5. CASE UNCHANGED vars
  BY <1>5 DEF vars, TypeOK
<1> QED BY <1>1, <1>2, <1>3, <1>4, <1>5 DEF Next

(***************************************************************************)
(* The types, and a fact of the code that the rest builds on: the tap judges *)
(* one event and sends what came of it before the next.                     *)
(***************************************************************************)
THEOREM UplinkTyped == Spec => []TypeOK
BY UplinkInit, TypeStep, PTL DEF Spec

-----------------------------------------------------------------------------
(***************************************************************************)
(* The votes.  What the tap has folded of edge e and not voted on yet, or    *)
(* has still to send of it.                                                 *)
(***************************************************************************)
Ended(e) == tap.event.kind = "PeerDown" /\ tap.event.edge = e

Announced(e) ==
    tap.event.kind = "PathUpdate" /\ tap.event.edge = e /\ tap.event.prefix \in CanaryPrefixes

Withdrawn(e) ==
    tap.event.kind = "Withdrawal" /\ tap.event.edge = e /\ <<e, tap.event.prefix>> \in canarySeen

\* Which of the two votes a report is, and for what.
Ballot(r) ==
    IF r.kind # "DEATH_VOTE" THEN "none"
    ELSE IF r.soft THEN IF r.down THEN "soft_down" ELSE "soft_up"
    ELSE IF r.down THEN "hard_down" ELSE "hard_up"

Voting(e) == tap.out # <<>> /\ Ballot(tap.out[1]) # "none" /\ tap.out[1].edge = e

\* What VotesMatchView exempts.
Excused(e) == flaw[e] \cap {"vote_lost", "unended"} # {}

AliveAgrees(e) == view[e].canaryUp <=> vote[e].hard = "up" /\ vote[e].soft = "up"
EndHeard(e) == view[e].canaryPfx = NoPrefix => vote[e].hard # "up"

(***************************************************************************)
(* The guard's canary is one that forgetCanary will know.                   *)
(***************************************************************************)
CanaryKnown(e) ==
    /\ view[e].canaryPfx \in CanaryPrefixes \cup {NoPrefix}
    /\ view[e].canaryUp => view[e].canaryPfx # NoPrefix
    /\ view[e].canaryUp => Announced(e) \/ <<e, view[e].canaryPfx>> \in canarySeen
    /\ Announced(e) => view[e].canaryPfx = tap.event.prefix

(***************************************************************************)
(* A vote that is due agrees with the view; once none is, all votes do.     *)
(***************************************************************************)
DueAgrees(e) ==
    /\ Ended(e) => view[e].canaryPfx = NoPrefix /\ ~view[e].canaryUp
    /\ Announced(e) => view[e].canaryUp
    /\ Withdrawn(e) => ~view[e].canaryUp

VotingAgrees(e) ==
    LET b == Ballot(tap.out[1])
    IN  Voting(e) =>
          /\ b \in {"hard_down", "soft_down"} => ~view[e].canaryUp /\ Len(tap.out) = 1
          /\ b \in {"hard_up", "soft_up"} => view[e].canaryUp
          /\ b = "soft_up" =>
                Len(tap.out) = 2 /\ Ballot(tap.out[2]) = "hard_up" /\ tap.out[2].edge = e
          /\ b = "hard_up" => Len(tap.out) = 1

VotesFollow(e) ==
    ~Excused(e) =>
        /\ Voting(e) /\ Ballot(tap.out[1]) = "hard_up" => vote[e].soft = "up"
        /\ ~Ended(e) /\ ~(Voting(e) /\ Ballot(tap.out[1]) = "hard_down") => EndHeard(e)
        /\ ~Ended(e) /\ ~Announced(e) /\ ~Withdrawn(e) /\ ~Voting(e) => AliveAgrees(e)

\* Two reports are the two votes of a canary.
OutShape ==
    /\ Len(tap.out) <= 2
    /\ Len(tap.out) = 2 => Ballot(tap.out[1]) = "soft_up"

VoteInv ==
    /\ OutShape
    /\ \A e \in Edges : CanaryKnown(e) /\ DueAgrees(e) /\ VotingAgrees(e) /\ VotesFollow(e)

LEMMA VoteInit == Init => VoteInv
BY PrefixAssumption
   DEF Init, VoteInv, OutShape, CanaryKnown, DueAgrees, VotingAgrees, VotesFollow, Ended, Announced,
       Withdrawn, Voting, AliveAgrees, EndHeard, Fresh, Resting, NoEvent

LEMMA VoteGives == TypeOK /\ VoteInv => VotesMatchView
<1> SUFFICES ASSUME TypeOK, VoteInv, NEW e \in Edges, tap = Resting, ~Excused(e)
             PROVE  /\ view[e].canaryUp <=> vote[e] = [hard |-> "up", soft |-> "up"]
                    /\ view[e].canaryPfx = NoPrefix => vote[e].hard # "up"
  BY DEF VotesMatchView, Excused
<1>1. AliveAgrees(e) /\ EndHeard(e)
  BY DEF VoteInv, VotesFollow, Ended, Announced, Withdrawn, Voting, Resting, NoEvent
<1>2. vote[e] = [hard |-> "up", soft |-> "up"] <=> vote[e].hard = "up" /\ vote[e].soft = "up"
  <2> DEFINE r == vote[e]
  <2>1. r \in [hard : Word, soft : Word]
    BY DEF TypeOK
  <2> HIDE DEF r
  <2>2. r = [hard |-> r.hard, soft |-> r.soft]
    BY <2>1, Zenon
  <2>3. ASSUME r = [hard |-> "up", soft |-> "up"] PROVE r.hard = "up" /\ r.soft = "up"
    BY <2>3
  <2>4. ASSUME r.hard = "up", r.soft = "up" PROVE r = [hard |-> "up", soft |-> "up"]
    BY <2>2, <2>4, Zenon
  <2> QED BY <2>3, <2>4 DEF r
<1> QED BY <1>1, <1>2 DEF AliveAgrees, EndHeard

(***************************************************************************)
(* What the folds make of the canary.                                       *)
(***************************************************************************)
LEMMA CanaryOfFold ==
    ASSUME NEW v \in EdgeViewType
    PROVE  /\ ~FoldPeerUp(v).canaryUp /\ FoldPeerUp(v).canaryPfx = NoPrefix
           /\ ~FoldPeerDown(v).canaryUp /\ FoldPeerDown(v).canaryPfx = NoPrefix
           /\ \A f \in Families :
                 LET u == FoldEOR(v, f)
                 IN  (u.canaryUp <=> v.canaryUp) /\ u.canaryPfx = v.canaryPfx
           /\ \A f, auth :
                 LET u == Reconciled(v, f, auth)
                 IN  (u.canaryUp <=> v.canaryUp) /\ u.canaryPfx = v.canaryPfx
BY DEF FoldPeerUp, FoldPeerDown, Fresh, FoldEOR, Reconciled, EdgeViewType

LEMMA CanaryOfPath ==
    ASSUME NEW v \in EdgeViewType, NEW p \in Prefixes
    PROVE  LET u == FoldPathUpdate(v, p, p \in CanaryPrefixes)
               w == FoldWithdrawal(v, p, FALSE)
           IN  /\ p \in CanaryPrefixes => u.canaryUp /\ u.canaryPfx = p
               /\ p \notin CanaryPrefixes => (u.canaryUp <=> v.canaryUp) /\ u.canaryPfx = v.canaryPfx
               /\ w.canaryPfx = v.canaryPfx
               /\ w.canaryUp <=> v.canaryUp /\ p # v.canaryPfx
BY DEF FoldPathUpdate, FoldWithdrawal, EdgeViewType

\* A step that changes nothing of what the votes are about.
LEMMA VoteFrame ==
    ASSUME VoteInv, UNCHANGED <<tap, canarySeen, vote>>,
           \A e \in Edges :
              /\ view'[e].canaryUp <=> view[e].canaryUp
              /\ view'[e].canaryPfx = view[e].canaryPfx
              /\ Excused(e) => Excused(e)'
    PROVE  VoteInv'
<1>1. OutShape'
  BY DEF VoteInv, OutShape
<1> SUFFICES ASSUME NEW e \in Edges
             PROVE  CanaryKnown(e)' /\ DueAgrees(e)' /\ VotingAgrees(e)' /\ VotesFollow(e)'
  BY <1>1 DEF VoteInv
<1>2. CanaryKnown(e) /\ DueAgrees(e) /\ VotingAgrees(e) /\ VotesFollow(e)
  BY DEF VoteInv
<1>3. (Ended(e)' <=> Ended(e)) /\ (Announced(e)' <=> Announced(e)) /\ (Withdrawn(e)' <=> Withdrawn(e))
      /\ (Voting(e)' <=> Voting(e))
  BY DEF Ended, Announced, Withdrawn, Voting
<1>4. CanaryKnown(e)'
  BY <1>2, <1>3 DEF CanaryKnown
<1>5. DueAgrees(e)'
  BY <1>2, <1>3 DEF DueAgrees
<1>6. VotingAgrees(e)'
  BY <1>2, <1>3 DEF VotingAgrees
<1>7. VotesFollow(e)'
  BY <1>2, <1>3 DEF VotesFollow, AliveAgrees, EndHeard
<1> QED BY <1>4, <1>5, <1>6, <1>7

\* Between two events nothing is due.
LEMMA AtRest ==
    ASSUME VoteInv, tap = Resting, NEW e \in Edges
    PROVE  /\ view[e].canaryPfx \in CanaryPrefixes \cup {NoPrefix}
           /\ view[e].canaryUp => view[e].canaryPfx # NoPrefix
           /\ view[e].canaryUp => <<e, view[e].canaryPfx>> \in canarySeen
           /\ ~Excused(e) => AliveAgrees(e) /\ EndHeard(e)
BY DEF VoteInv, CanaryKnown, VotesFollow, Ended, Announced, Withdrawn, Voting, Resting, NoEvent

\* An event of edge e is about no other edge.
LEMMA FoldVotes ==
    ASSUME TypeOK, VoteInv, NEW e \in Edges, NEW v, NEW ev, Folded(e, v, ev),
           ev = NoEvent \/ ev.edge = e,
           \A d \in Edges \ {e} : flaw'[d] = flaw[d],
           CanaryKnown(e)', DueAgrees(e)', VotesFollow(e)'
    PROVE  VoteInv'
<1>1. tap = Resting /\ tap'.out = <<>> /\ tap'.event = ev /\ UNCHANGED <<canarySeen, vote>>
      /\ \A d \in Edges \ {e} : view'[d] = view[d]
  BY DEF Folded, Resting, server, TypeOK
<1>2. OutShape' /\ \A d \in Edges : ~Voting(d)'
  BY <1>1 DEF OutShape, Voting
<1>3. ASSUME NEW d \in Edges \ {e}
      PROVE  CanaryKnown(d)' /\ DueAgrees(d)' /\ VotesFollow(d)'
  <2>1. ~Ended(d)' /\ ~Announced(d)' /\ ~Withdrawn(d)'
    BY <1>1 DEF Ended, Announced, Withdrawn, NoEvent
  <2>2. Excused(d)' <=> Excused(d)
    BY DEF Excused
  <2>3. CanaryKnown(d)' /\ DueAgrees(d)'
    BY <1>1, <2>1, AtRest DEF CanaryKnown, DueAgrees
  <2>4. VotesFollow(d)'
    BY <1>1, <1>2, <2>1, <2>2, AtRest DEF VotesFollow, AliveAgrees, EndHeard
  <2> QED BY <2>3, <2>4
<1> QED BY <1>2, <1>3 DEF VoteInv, VotingAgrees

(***************************************************************************)
(* An event is folded.  A session that begins after one that ended unheard   *)
(* is held against its edge; an end, and a canary, start the votes anew.    *)
(***************************************************************************)
LEMMA TapEventVotes ==
    ASSUME \A p, q \in CanaryPrefixes : p = q,
           TypeOK, VoteInv, NEW e \in Edges, TapEvent(e)
    PROVE  VoteInv'
<1> USE DEF CanaryKnown, DueAgrees, Ended, Announced, Withdrawn, Voting
<1>1. view[e] \in EdgeViewType /\ flaw \in [Edges -> SUBSET Flaws]
  BY DEF TypeOK
<1>2. CASE PeerUp(e)
  <2> DEFINE v == FoldPeerUp(view[e])
  <2>1. ~v.canaryUp /\ v.canaryPfx = NoPrefix
    BY <1>1, CanaryOfFold
  <2>2. Folded(e, v, NoEvent)
    BY <1>2 DEF PeerUp
  <2> HIDE DEF v
  <2>3. view'[e] = v /\ tap'.event = NoEvent /\ tap'.out = <<>> /\ tap = Resting /\ vote' = vote
    BY <2>2 DEF Folded, server, Resting, TypeOK
  <2>4. ~Excused(e)' => ~Excused(e) /\ view[e].canaryPfx = NoPrefix
    BY <1>1, <1>2 DEF PeerUp, Excused
  <2>5. view[e].canaryPfx = NoPrefix => ~view[e].canaryUp
    BY <2>3, AtRest
  <2>6. ~Excused(e)' => AliveAgrees(e)' /\ EndHeard(e)'
    BY <2>1, <2>3, <2>4, <2>5, AtRest DEF AliveAgrees, EndHeard
  <2>7. ~Ended(e)' /\ ~Announced(e)' /\ ~Withdrawn(e)' /\ ~Voting(e)'
    BY <2>3 DEF NoEvent
  <2>8. CanaryKnown(e)' /\ DueAgrees(e)'
    BY <2>1, <2>3, <2>7 DEF NoEvent
  <2>9. VotesFollow(e)'
    BY <2>6, <2>7 DEF VotesFollow
  <2>10. \A d \in Edges \ {e} : flaw'[d] = flaw[d]
    BY <1>1, <1>2 DEF PeerUp
  <2> QED BY <2>2, <2>8, <2>9, <2>10, FoldVotes
<1>3. CASE PeerDown(e)
  <2> DEFINE v == FoldPeerDown(view[e])
             ev == [kind |-> "PeerDown", edge |-> e]
  <2>1. ~v.canaryUp /\ v.canaryPfx = NoPrefix
    BY <1>1, CanaryOfFold
  <2>2. Folded(e, v, ev) /\ flaw' = [flaw EXCEPT ![e] = @ \ {"vote_lost", "unended"}]
    BY <1>3 DEF PeerDown
  <2>3. ev.kind = "PeerDown" /\ ev.edge = e
    OBVIOUS
  <2> HIDE DEF v, ev
  <2>4. view'[e] = v /\ tap'.event = ev /\ tap'.out = <<>>
    BY <2>2 DEF Folded, Resting, TypeOK
  <2>5. CanaryKnown(e)' /\ DueAgrees(e)' /\ VotesFollow(e)'
    BY <2>1, <2>3, <2>4 DEF VotesFollow
  <2>6. \A d \in Edges \ {e} : flaw'[d] = flaw[d]
    BY <1>1, <2>2
  <2> QED BY <2>2, <2>3, <2>5, <2>6, FoldVotes
<1>4. ASSUME NEW f \in Families, EOR(e, f) PROVE VoteInv'
  <2> DEFINE v == FoldEOR(view[e], f)
             ev == [kind |-> "EOR", edge |-> e, family |-> f]
  <2>1. (v.canaryUp <=> view[e].canaryUp) /\ v.canaryPfx = view[e].canaryPfx
    BY <1>1, CanaryOfFold
  <2>2. Folded(e, v, ev) /\ flaw' = flaw
    BY <1>4 DEF EOR
  <2>3. ev.kind = "EOR" /\ ev.edge = e
    OBVIOUS
  <2> HIDE DEF v, ev
  <2>4. view'[e] = v /\ tap'.event = ev /\ tap'.out = <<>> /\ tap = Resting /\ UNCHANGED <<vote, canarySeen>>
    BY <2>2 DEF Folded, Resting, server, TypeOK
  <2>5. CanaryKnown(e)' /\ DueAgrees(e)'
    BY <2>1, <2>3, <2>4, AtRest
  <2>6. VotesFollow(e)'
    BY <2>1, <2>2, <2>4, AtRest DEF VotesFollow, Excused, AliveAgrees, EndHeard
  <2> QED BY <2>2, <2>3, <2>5, <2>6, FoldVotes
<1>5. ASSUME NEW p \in Prefixes, PathUpdate(e, p) PROVE VoteInv'
  <2> DEFINE v == FoldPathUpdate(view[e], p, p \in CanaryPrefixes)
             ev == [kind |-> "PathUpdate", edge |-> e, prefix |-> p]
  <2>1. /\ p \in CanaryPrefixes => v.canaryUp /\ v.canaryPfx = p
        /\ p \notin CanaryPrefixes => (v.canaryUp <=> view[e].canaryUp) /\ v.canaryPfx = view[e].canaryPfx
    BY <1>1 DEF FoldPathUpdate, EdgeViewType
  <2>2. /\ Folded(e, v, ev)
        /\ flaw' = IF p \in CanaryPrefixes
                   THEN [flaw EXCEPT ![e] = @ \ {"vote_lost", "unended"}] ELSE flaw
    BY <1>5 DEF PathUpdate
  <2>3. ev.kind = "PathUpdate" /\ ev.edge = e /\ ev.prefix = p
    OBVIOUS
  <2> HIDE DEF v, ev
  <2>4. view'[e] = v /\ tap'.event = ev /\ tap'.out = <<>> /\ tap = Resting /\ UNCHANGED <<vote, canarySeen>>
    BY <2>2 DEF Folded, Resting, server, TypeOK
  <2>5. p \in CanaryPrefixes => p # NoPrefix
    BY PrefixAssumption, UplinkAssumption
  <2>6. CanaryKnown(e)' /\ DueAgrees(e)'
    BY <2>1, <2>3, <2>4, <2>5, AtRest
  <2>7. VotesFollow(e)'
    <3>1. CASE p \in CanaryPrefixes
      <4>1. Announced(e)' /\ EndHeard(e)' /\ ~Voting(e)'
        BY <2>1, <2>3, <2>4, <2>5, <3>1 DEF EndHeard
      <4> QED BY <4>1 DEF VotesFollow
    <3>2. CASE p \notin CanaryPrefixes
      <4>1. Excused(e)' <=> Excused(e)
        BY <2>2, <3>2 DEF Excused
      <4> QED BY <2>1, <2>4, <3>2, <4>1, AtRest DEF VotesFollow, AliveAgrees, EndHeard
    <3> QED BY <3>1, <3>2
  <2>8. \A d \in Edges \ {e} : flaw'[d] = flaw[d]
    BY <1>1, <2>2
  <2> QED BY <2>2, <2>3, <2>6, <2>7, <2>8, FoldVotes
<1>6. ASSUME NEW p \in Prefixes, Withdrawal(e, p) PROVE VoteInv'
  <2> DEFINE v == FoldWithdrawal(view[e], p, FALSE)
             ev == [kind |-> "Withdrawal", edge |-> e, prefix |-> p]
  <2>1. /\ v.canaryPfx = view[e].canaryPfx
        /\ v.canaryUp <=> view[e].canaryUp /\ p # view[e].canaryPfx
    BY <1>1, CanaryOfPath
  <2>2. Folded(e, v, ev) /\ flaw' = flaw
    BY <1>6 DEF Withdrawal
  <2>3. ev.kind = "Withdrawal" /\ ev.edge = e /\ ev.prefix = p
    OBVIOUS
  <2> HIDE DEF v, ev
  <2>4. view'[e] = v /\ tap'.event = ev /\ tap'.out = <<>> /\ tap = Resting /\ UNCHANGED <<vote, canarySeen>>
    BY <2>2 DEF Folded, Resting, server, TypeOK
  <2>5. <<e, p>> \in canarySeen => p \in CanaryPrefixes
    BY DEF TypeOK
  <2>6. CanaryKnown(e)' /\ DueAgrees(e)'
    BY <2>1, <2>3, <2>4, <2>5, AtRest
  <2>7. VotesFollow(e)'
    <3>1. ~Excused(e)' => AliveAgrees(e) /\ EndHeard(e)
      BY <2>2, <2>4, AtRest DEF Excused
    <3>2. EndHeard(e) => EndHeard(e)'
      BY <2>1, <2>4 DEF EndHeard
    <3>3. ~Voting(e)'
      BY <2>4
    <3>4. ASSUME AliveAgrees(e), ~Withdrawn(e)' PROVE AliveAgrees(e)'
      <4>1. view[e].canaryUp => p # view[e].canaryPfx
        BY <2>3, <2>4, <3>4, AtRest
      <4> QED BY <2>1, <2>4, <3>4, <4>1 DEF AliveAgrees
    <3> QED BY <3>1, <3>2, <3>3, <3>4 DEF VotesFollow
  <2> QED BY <2>2, <2>3, <2>6, <2>7, FoldVotes
<1> QED BY <1>2, <1>3, <1>4, <1>5, <1>6 DEF TapEvent

\* What is due, is decided upon.
LEMMA JudgedVotes ==
    ASSUME TypeOK, VoteInv, tap.event # NoEvent, tap'.event = NoEvent,
           UNCHANGED <<view, vote>>,
           \A e \in Edges : Excused(e) => Excused(e)',
           \A e \in Edges : view[e].canaryUp => <<e, view[e].canaryPfx>> \in canarySeen',
           OutShape', \A e \in Edges : VotingAgrees(e)',
           \A e \in Edges : Voting(e)' => Ballot(tap'.out[1]) # "hard_up",
           \A e \in Edges : Ended(e) \/ Announced(e) \/ Withdrawn(e) => Voting(e)',
           \A e \in Edges : Ended(e) => Ballot(tap'.out[1]) = "hard_down"
    PROVE  VoteInv'
<1> SUFFICES ASSUME NEW e \in Edges
             PROVE  CanaryKnown(e)' /\ DueAgrees(e)' /\ VotesFollow(e)'
  BY DEF VoteInv
<1>1. CanaryKnown(e) /\ DueAgrees(e) /\ VotesFollow(e)
  BY DEF VoteInv
<1>2. ~Ended(e)' /\ ~Announced(e)' /\ ~Withdrawn(e)'
  <2>1. tap'.event.kind = "none"
    BY DEF NoEvent
  <2> QED BY <2>1 DEF Ended, Announced, Withdrawn
<1>3. ~Voting(e)
  BY DEF TypeOK, Voting
<1>4. CanaryKnown(e)' /\ DueAgrees(e)'
  BY <1>1, <1>2 DEF CanaryKnown, DueAgrees
<1>5. VotesFollow(e)'
  BY <1>1, <1>2, <1>3 DEF VotesFollow, AliveAgrees, EndHeard
<1> QED BY <1>4, <1>5

LEMMA GatedVotes ==
    ASSUME TypeOK, NEW e, NEW p, Gated(e, p) \/ UNCHANGED flaw, NEW d \in Edges, Excused(d)
    PROVE  Excused(d)'
<1>1. flaw \in [Edges -> SUBSET Flaws]
  BY DEF TypeOK
<1> QED BY <1>1 DEF Gated, Settled, Excused

\* A member report, or none, is no vote.
LEMMA MemberVotes ==
    ASSUME TypeOK, VoteInv, NEW e, NEW p, NEW down, NEW so \in BOOLEAN,
           ReportMember(e, p, down, so), UNCHANGED <<view, canarySeen, vote>>,
           tap.event # NoEvent, \A d \in Edges : ~Ended(d) /\ ~Announced(d) /\ ~Withdrawn(d),
           \A d \in Edges : Excused(d) => Excused(d)'
    PROVE  VoteInv'
<1> DEFINE r == MemberEdge(e, {p}, down)
<1>1. tap'.event = NoEvent /\ (tap'.out = <<r>> \/ tap'.out = <<>>)
  BY DEF ReportMember
<1>2. Ballot(r) = "none"
  BY DEF MemberEdge, Ballot
<1> HIDE DEF r
<1>3. OutShape' /\ \A d \in Edges : ~Voting(d)'
  <2>1. CASE tap'.out = <<r>>
    BY <1>2, <2>1 DEF OutShape, Voting
  <2>2. CASE tap'.out = <<>>
    BY <2>2 DEF OutShape, Voting
  <2> QED BY <1>1, <2>1, <2>2
<1>4. \A d \in Edges : view[d].canaryUp => <<d, view[d].canaryPfx>> \in canarySeen'
  BY DEF VoteInv, CanaryKnown
<1> QED BY <1>1, <1>3, <1>4, JudgedVotes DEF VotingAgrees

LEMMA HandlerVotes ==
    ASSUME TypeOK, VoteInv,
           \/ JudgePeerDown \/ CanaryWithdrawn \/ HostWithdrawn
           \/ CanaryAnnounced \/ HostAnnounced \/ SpawnSnapshot
    PROVE  VoteInv'
<1> DEFINE ev == tap.event
<1>1. /\ ev.kind \in {"PeerDown", "EOR", "PathUpdate", "Withdrawal"} => ev.edge \in Edges
      /\ ev.kind = "none" <=> ev = NoEvent
  BY EventFields DEF TypeOK
<1>2. \A e \in Edges : CanaryKnown(e) /\ DueAgrees(e)
  BY DEF VoteInv
<1>3. canarySeen \subseteq Edges \X CanaryPrefixes
  BY DEF TypeOK
<1>4. CASE JudgePeerDown
  <2> DEFINE r == DeathVote(ev.edge, TRUE, FALSE)
  <2>1. /\ Ballot(r) = "hard_down" /\ r.edge = ev.edge
        /\ ev.kind = "PeerDown" /\ ev.edge \in Edges
    BY <1>1, <1>4 DEF DeathVote, JudgePeerDown, Judging, Ballot
  <2>2. tap' = [event |-> NoEvent, out |-> <<r>>] /\ UNCHANGED <<view, canarySeen, vote>>
        /\ \A e \in Edges : Excused(e) => Excused(e)'
    BY <1>4 DEF JudgePeerDown, ReportVotes, server, Excused
  <2> HIDE DEF r
  <2>3. tap'.event = NoEvent /\ tap'.out = <<r>>
    BY <2>2
  <2>4. \A e \in Edges : Voting(e)' <=> e = ev.edge
    BY <2>1, <2>3 DEF Voting
  <2>5. Ended(ev.edge)
    BY <2>1 DEF Ended
  <2>6. OutShape' /\ \A e \in Edges : VotingAgrees(e)'
    BY <1>2, <2>1, <2>2, <2>3, <2>4, <2>5 DEF OutShape, VotingAgrees, DueAgrees
  <2>7. \A e \in Edges : ~Announced(e) /\ ~Withdrawn(e) /\ (Ended(e) => e = ev.edge)
    BY <2>1 DEF Announced, Withdrawn, Ended
  <2>8. \A e \in Edges : view[e].canaryUp => <<e, view[e].canaryPfx>> \in canarySeen'
    BY <1>2, <2>2, <2>7 DEF CanaryKnown
  <2> QED BY <1>1, <2>1, <2>2, <2>3, <2>4, <2>6, <2>7, <2>8, JudgedVotes
<1>5. CASE CanaryWithdrawn
  <2> DEFINE r == DeathVote(ev.edge, TRUE, TRUE)
  <2>1. /\ Ballot(r) = "soft_down" /\ r.edge = ev.edge
        /\ ev.kind = "Withdrawal" /\ ev.edge \in Edges /\ <<ev.edge, ev.prefix>> \in canarySeen
    BY <1>1, <1>5 DEF DeathVote, CanaryWithdrawn, Judging, Ballot
  <2>2. tap' = [event |-> NoEvent, out |-> <<r>>] /\ UNCHANGED <<view, vote>>
        /\ canarySeen' = canarySeen \ {<<ev.edge, ev.prefix>>}
        /\ \A e \in Edges : Excused(e) => Excused(e)'
    BY <1>5 DEF CanaryWithdrawn, ReportVotes, server, Excused
  <2> HIDE DEF r
  <2>3. tap'.event = NoEvent /\ tap'.out = <<r>>
    BY <2>2
  <2>4. \A e \in Edges : Voting(e)' <=> e = ev.edge
    BY <2>1, <2>3 DEF Voting
  <2>5. Withdrawn(ev.edge)
    BY <2>1 DEF Withdrawn
  <2>6. OutShape' /\ \A e \in Edges : VotingAgrees(e)'
    BY <1>2, <2>1, <2>2, <2>3, <2>4, <2>5 DEF OutShape, VotingAgrees, DueAgrees
  <2>7. \A e \in Edges : ~Announced(e) /\ ~Ended(e) /\ (Withdrawn(e) => e = ev.edge)
    BY <2>1 DEF Announced, Withdrawn, Ended
  <2>8. \A e \in Edges : view[e].canaryUp => <<e, view[e].canaryPfx>> \in canarySeen'
    BY <1>2, <2>2, <2>5, <2>7 DEF CanaryKnown, DueAgrees
  <2> QED BY <1>1, <2>1, <2>2, <2>3, <2>4, <2>6, <2>7, <2>8, JudgedVotes
<1>6. CASE CanaryAnnounced
  <2> DEFINE r == DeathVote(ev.edge, FALSE, TRUE)
             s == DeathVote(ev.edge, FALSE, FALSE)
  <2>1. /\ Ballot(r) = "soft_up" /\ r.edge = ev.edge
        /\ Ballot(s) = "hard_up" /\ s.edge = ev.edge
        /\ ev.kind = "PathUpdate" /\ ev.edge \in Edges /\ ev.prefix \in CanaryPrefixes
    BY <1>1, <1>6 DEF DeathVote, CanaryAnnounced, Judging, Ballot
  <2>2. tap' = [event |-> NoEvent, out |-> <<r, s>>] /\ UNCHANGED <<view, vote>>
        /\ canarySeen' = canarySeen \cup {<<ev.edge, ev.prefix>>}
        /\ \A e \in Edges : Excused(e) => Excused(e)'
    BY <1>6 DEF CanaryAnnounced, ReportVotes, server, Excused
  <2> HIDE DEF r, s
  <2>3. tap'.event = NoEvent /\ tap'.out = <<r, s>>
    BY <2>2
  <2>4. \A e \in Edges : Voting(e)' <=> e = ev.edge
    BY <2>1, <2>3 DEF Voting
  <2>5. Announced(ev.edge)
    BY <2>1 DEF Announced
  <2>6. OutShape' /\ \A e \in Edges : VotingAgrees(e)'
    BY <1>2, <2>1, <2>2, <2>3, <2>4, <2>5 DEF OutShape, VotingAgrees, DueAgrees
  <2>7. \A e \in Edges : ~Withdrawn(e) /\ ~Ended(e) /\ (Announced(e) => e = ev.edge)
    BY <2>1 DEF Announced, Withdrawn, Ended
  <2>8. \A e \in Edges : view[e].canaryUp => <<e, view[e].canaryPfx>> \in canarySeen'
    BY <1>2, <2>2, <2>5, <2>7 DEF CanaryKnown
  <2> QED BY <1>1, <2>1, <2>2, <2>3, <2>4, <2>6, <2>7, <2>8, JudgedVotes
<1>7. CASE HostWithdrawn
  <2> DEFINE so == Member(ev.prefix) /\ ShouldWithdraw(view[ev.edge], ev.prefix)
  <2>1. ReportMember(ev.edge, ev.prefix, TRUE, so) /\ UNCHANGED <<view, canarySeen, vote>>
    BY <1>7 DEF HostWithdrawn, server
  <2>2. ev.kind = "Withdrawal" /\ <<ev.edge, ev.prefix>> \notin canarySeen /\ so \in BOOLEAN
    BY <1>7 DEF HostWithdrawn, Judging
  <2>3. \A d \in Edges : ~Ended(d) /\ ~Announced(d) /\ ~Withdrawn(d)
    BY <2>2 DEF Ended, Announced, Withdrawn
  <2>4. \A d \in Edges : Excused(d) => Excused(d)'
    BY <1>7, GatedVotes DEF HostWithdrawn
  <2> HIDE DEF so
  <2>5. tap.event # NoEvent
    BY <1>1, <2>2
  <2> QED BY <2>1, <2>2, <2>3, <2>4, <2>5, MemberVotes
<1>8. CASE HostAnnounced
  <2> DEFINE so == /\ Member(ev.prefix) /\ Trusted(ev.edge, ev.prefix)
                   /\ ev.prefix \in view[ev.edge].hosts
  <2>1. ReportMember(ev.edge, ev.prefix, FALSE, so) /\ UNCHANGED <<view, canarySeen, vote>>
    BY <1>8 DEF HostAnnounced, server
  <2>2. ev.kind = "PathUpdate" /\ ev.prefix \notin CanaryPrefixes /\ so \in BOOLEAN
    BY <1>8 DEF HostAnnounced, Judging
  <2>3. \A d \in Edges : ~Ended(d) /\ ~Announced(d) /\ ~Withdrawn(d)
    BY <2>2 DEF Ended, Announced, Withdrawn
  <2>4. \A d \in Edges : Excused(d) => Excused(d)'
    BY <1>8, GatedVotes DEF HostAnnounced
  <2> HIDE DEF so
  <2>5. tap.event # NoEvent
    BY <1>1, <2>2
  <2> QED BY <2>1, <2>2, <2>3, <2>4, <2>5, MemberVotes
<1>9. CASE SpawnSnapshot
  <2>1. ev.kind = "EOR" /\ UNCHANGED <<view, canarySeen, vote>>
        /\ \A e \in Edges : Excused(e) => Excused(e)'
    BY <1>9 DEF SpawnSnapshot, Judging, server, Excused
  <2>2. tap'.event = NoEvent /\ tap'.out = <<>>
    BY <1>9 DEF SpawnSnapshot, ReportVotes
  <2>3. \A d \in Edges : ~Ended(d) /\ ~Announced(d) /\ ~Withdrawn(d)
    BY <2>1 DEF Ended, Announced, Withdrawn
  <2>4. OutShape' /\ \A d \in Edges : ~Voting(d)'
    BY <2>2 DEF OutShape, Voting
  <2>5. \A d \in Edges : view[d].canaryUp => <<d, view[d].canaryPfx>> \in canarySeen'
    BY <1>2, <2>1, <2>3 DEF CanaryKnown
  <2> QED BY <1>1, <2>1, <2>2, <2>3, <2>4, <2>5, JudgedVotes DEF VotingAgrees
<1> QED BY <1>4, <1>5, <1>6, <1>7, <1>8, <1>9

\* What the server makes of a vote.
LEMMA BallotCounts ==
    ASSUME NEW r, r.kind = "DEATH_VOTE", r.edge \in Edges, Deliver(r),
           vote \in [Edges -> [hard : Word, soft : Word]]
    PROVE  /\ vote'[r.edge].hard = IF Ballot(r) = "hard_up" THEN "up"
                                   ELSE IF Ballot(r) = "hard_down" THEN "down" ELSE vote[r.edge].hard
           /\ vote'[r.edge].soft = IF Ballot(r) = "soft_up" THEN "up"
                                   ELSE IF Ballot(r) = "soft_down" THEN "down" ELSE vote[r.edge].soft
           /\ \A e \in Edges \ {r.edge} : vote'[e] = vote[e]
BY DEF Ballot, Deliver

(***************************************************************************)
(* A vote that is sent.  One that is lost is held against its edge.          *)
(***************************************************************************)
LEMMA TapSendsVotes == TypeOK /\ VoteInv /\ TapSends => VoteInv'
<1> SUFFICES ASSUME TypeOK, VoteInv, TapSends PROVE VoteInv'
  OBVIOUS
<1> DEFINE r == tap.out[1]
<1>1. /\ tap.out \in Seq(ReportType) /\ tap.out # <<>> /\ tap.event = NoEvent
      /\ vote \in [Edges -> [hard : Word, soft : Word]]
      /\ flaw \in [Edges -> SUBSET Flaws]
  BY DEF TypeOK, TapSends, ReportType
<1>2. /\ Head(tap.out) = r /\ r \in ReportType /\ Len(tap.out) \in Nat \ {0}
      /\ Len(Tail(tap.out)) = Len(tap.out) - 1
      /\ Len(tap.out) = 2 => Tail(tap.out)[1] = tap.out[2] /\ Tail(tap.out) # <<>>
      /\ Len(tap.out) = 1 => Tail(tap.out) = <<>>
  BY <1>1, TailTypes
<1>3. Send(r, "tap") /\ UNCHANGED <<view, canarySeen>> /\ tap'.event = NoEvent /\ tap'.out = Tail(tap.out)
  BY <1>1, <1>2 DEF TapSends, TypeOK
<1>4. \A e \in Edges : /\ CanaryKnown(e) /\ VotingAgrees(e) /\ VotesFollow(e)
                       /\ ~Ended(e) /\ ~Announced(e) /\ ~Withdrawn(e)
                       /\ ~Ended(e)' /\ ~Announced(e)' /\ ~Withdrawn(e)'
  <2>1. tap.event.kind = "none" /\ tap'.event.kind = "none"
    BY <1>1, <1>3 DEF NoEvent
  <2> QED BY <2>1 DEF VoteInv, Ended, Announced, Withdrawn
<1>5. \A e \in Edges : CanaryKnown(e)' /\ DueAgrees(e)'
  BY <1>3, <1>4 DEF CanaryKnown, DueAgrees
<1>6. OutShape /\ OutShape'
  <2>1. OutShape
    BY DEF VoteInv
  <2>2. Len(tap'.out) # 2 /\ Len(tap'.out) <= 2
    <3>1. Len(tap'.out) = Len(tap.out) - 1
      BY <1>2, <1>3
    <3>2. Len(tap.out) \in Nat /\ Len(tap.out) <= 2
      BY <1>2, <2>1 DEF OutShape
    <3> DEFINE n == Len(tap.out)  m == Len(tap'.out)
    <3>3. m = n - 1 /\ n \in Nat /\ n <= 2
      BY <3>1, <3>2
    <3> HIDE DEF n, m
    <3>4. m # 2 /\ m <= 2
      BY <3>3
    <3> QED BY <3>4 DEF m
  <2> QED BY <2>1, <2>2 DEF OutShape
<1>7. CASE r.kind = "MEMBER_EDGE"
  <2>1. Ballot(r) = "none"
    BY <1>7 DEF Ballot
  <2>2. vote' = vote /\ \A e \in Edges : Excused(e) => Excused(e)'
    <3>1. r.kind # "DEATH_VOTE" /\ r.edge \in Edges
      BY <1>2, <1>7, ReportFields
    <3>2. CASE Deliver(r) /\ Overtakes(r, "tap")
      BY <1>1, <3>1, <3>2 DEF Deliver, Overtakes, Excused
    <3>3. CASE Lose(r)
      BY <1>1, <3>1, <3>3 DEF Lose, server, Excused
    <3> QED BY <1>3, <3>2, <3>3 DEF Send
  <2>3. Len(tap.out) = 1 /\ tap'.out = <<>>
    <3>1. Len(tap.out) # 2 /\ Len(tap.out) <= 2
      BY <1>6, <2>1 DEF OutShape
    <3> DEFINE n == Len(tap.out)
    <3>2. n \in Nat \ {0} /\ n # 2 /\ n <= 2
      BY <1>2, <3>1
    <3> HIDE DEF n
    <3>3. n = 1
      BY <3>2
    <3>4. Len(tap.out) = 1
      BY <3>3 DEF n
    <3> QED BY <1>2, <1>3, <3>4
  <2>4. \A e \in Edges : ~Voting(e) /\ ~Voting(e)'
    BY <2>1, <2>3 DEF Voting
  <2>5. \A e \in Edges : VotingAgrees(e)' /\ VotesFollow(e)'
    BY <1>3, <1>4, <2>2, <2>4 DEF VotingAgrees, VotesFollow, AliveAgrees, EndHeard
  <2> QED BY <1>5, <1>6, <2>5 DEF VoteInv
<1>8. CASE r.kind = "DEATH_VOTE"
  <2> PICK d \in Edges : d = r.edge
    BY <1>2, <1>8, ReportFields
  <2>1. r.edge = d /\ Ballot(r) \in {"hard_up", "hard_down", "soft_up", "soft_down"}
    BY <1>2, <1>8, ReportFields DEF Ballot
  <2>2. Voting(d) /\ \A e \in Edges : Voting(e) => e = d
    BY <1>1, <2>1 DEF Voting
  <2>3. ASSUME NEW e \in Edges
        PROVE  VotingAgrees(e)' /\ (Voting(e)' => e = d /\ Ballot(r) = "soft_up")
    <3>1. CASE Ballot(r) = "soft_up"
      <4>1. /\ Len(tap.out) = 2 /\ tap'.out[1] = tap.out[2] /\ Len(tap'.out) = 1
            /\ tap.out[2].edge = d /\ Ballot(tap.out[2]) = "hard_up"
            /\ view[d].canaryUp
        BY <1>2, <1>3, <1>4, <2>1, <2>2, <3>1 DEF VotingAgrees
      <4> QED BY <1>3, <2>1, <3>1, <4>1 DEF VotingAgrees, Voting
    <3>2. CASE Ballot(r) # "soft_up"
      <4>1. tap'.out = <<>>
        BY <1>2, <1>3, <1>4, <2>1, <2>2, <3>2 DEF VotingAgrees
      <4> QED BY <4>1 DEF VotingAgrees, Voting
    <3> QED BY <3>1, <3>2
  <2>4. CASE Lose(r)
    <3>1. vote' = vote /\ flaw' = [flaw EXCEPT ![d] = @ \cup {"vote_lost"}]
      BY <1>8, <2>4 DEF Lose, server
    <3>2. ASSUME NEW e \in Edges PROVE VotesFollow(e)'
      <4>1. CASE e = d
        BY <1>1, <3>1, <4>1 DEF VotesFollow, Excused
      <4>2. CASE e # d
        <5>1. flaw'[e] = flaw[e] /\ ~Voting(e) /\ ~Voting(e)'
          BY <1>1, <2>2, <2>3, <3>1, <4>2
        <5> QED BY <1>3, <1>4, <3>1, <5>1 DEF VotesFollow, Excused, AliveAgrees, EndHeard
      <4> QED BY <4>1, <4>2
    <3> QED BY <1>5, <1>6, <2>3, <3>2 DEF VoteInv
  <2>5. CASE Deliver(r) /\ Overtakes(r, "tap")
    <3>1. /\ vote'[d].hard = IF Ballot(r) = "hard_up" THEN "up"
                                  ELSE IF Ballot(r) = "hard_down" THEN "down" ELSE vote[d].hard
          /\ vote'[d].soft = IF Ballot(r) = "soft_up" THEN "up"
                                  ELSE IF Ballot(r) = "soft_down" THEN "down" ELSE vote[d].soft
          /\ \A e \in Edges \ {d} : vote'[e] = vote[e]
      BY <1>1, <1>8, <2>1, <2>5, BallotCounts
    <3>2. \A e \in Edges : Excused(e)' <=> Excused(e)
      BY <1>8, <2>5 DEF Overtakes, Excused
    <3>3. ASSUME NEW e \in Edges, e # d PROVE VotesFollow(e)'
      <4>1. ~Voting(e) /\ ~Voting(e)'
        BY <2>2, <2>3, <3>3
      <4> QED BY <1>3, <1>4, <3>1, <3>2, <3>3, <4>1 DEF VotesFollow, AliveAgrees, EndHeard
    <3>4. VotesFollow(d)'
      <4>1. VotingAgrees(d) /\ VotesFollow(d)
        BY <1>4, <2>1
      <4>2. CASE Ballot(r) = "hard_down"
        <5>1. ~view[d].canaryUp /\ vote'[d].hard = "down" /\ ~Voting(d)'
          BY <2>1, <2>2, <2>3, <3>1, <4>1, <4>2 DEF VotingAgrees
        <5> QED BY <1>3, <5>1 DEF VotesFollow, AliveAgrees, EndHeard
      <4>3. CASE Ballot(r) = "soft_down"
        <5>1. /\ ~view[d].canaryUp /\ vote'[d].soft = "down" /\ vote'[d].hard = vote[d].hard
              /\ ~Voting(d)'
          BY <2>1, <2>2, <2>3, <3>1, <4>1, <4>3 DEF VotingAgrees
        <5>2. ~Excused(d) => EndHeard(d)
          BY <1>4, <4>1, <4>3 DEF VotesFollow
        <5> QED BY <1>3, <3>2, <5>1, <5>2 DEF VotesFollow, AliveAgrees, EndHeard
      <4>4. CASE Ballot(r) = "soft_up"
        <5>1. /\ vote'[d].soft = "up" /\ Len(tap.out) = 2
              /\ Ballot(tap.out[2]) = "hard_up" /\ tap.out[2].edge = d
              /\ view[d].canaryUp
          BY <2>1, <2>2, <3>1, <4>1, <4>4 DEF VotingAgrees
        <5>2. Voting(d)'
          BY <1>2, <1>3, <5>1 DEF Voting
        <5>3. EndHeard(d)'
          BY <1>3, <1>4, <5>1 DEF CanaryKnown, EndHeard
        <5> QED BY <5>1, <5>2, <5>3 DEF VotesFollow
      <4>5. CASE Ballot(r) = "hard_up"
        <5>1. /\ view[d].canaryUp /\ ~Voting(d)'
              /\ vote'[d].hard = "up" /\ vote'[d].soft = vote[d].soft
          BY <2>1, <2>2, <2>3, <3>1, <4>1, <4>5 DEF VotingAgrees
        <5>2. ~Excused(d) => vote[d].soft = "up"
          BY <2>2, <4>1, <4>5 DEF VotesFollow
        <5>3. EndHeard(d)'
          BY <1>3, <1>4, <5>1 DEF CanaryKnown, EndHeard
        <5> QED BY <1>3, <3>2, <5>1, <5>2, <5>3 DEF VotesFollow, AliveAgrees
      <4> QED BY <2>1, <4>2, <4>3, <4>4, <4>5
    <3> QED BY <1>5, <1>6, <2>3, <3>3, <3>4 DEF VoteInv
  <2> QED BY <1>3, <2>4, <2>5 DEF Send
<1> QED BY <1>2, <1>7, <1>8, ReportFields

LEMMA VoteStep ==
    ASSUME \A p, q \in CanaryPrefixes : p = q, TypeOK, VoteInv, [Next]_vars
    PROVE  VoteInv'
<1>1. flaw \in [Edges -> SUBSET Flaws]
  BY DEF TypeOK
<1>2. ASSUME NEW e \in Edges, TapEvent(e) PROVE VoteInv'
  BY <1>2, TapEventVotes
<1>3. CASE TapHandler
  BY <1>3, HandlerVotes, TapSendsVotes DEF TapHandler
<1>4. ASSUME NEW e \in Edges, NEW f \in Families, NEW auth, AuditRepair(e, f, auth) PROVE VoteInv'
  <2>1. /\ UNCHANGED <<tap, canarySeen, vote>>
        /\ \A d \in Edges : Excused(d) => Excused(d)'
        /\ view' = [view EXCEPT ![e] = Reconciled(view[e], f, auth)]
    BY <1>4 DEF AuditRepair, server, Excused
  <2>2. view \in [Edges -> EdgeViewType]
    BY DEF TypeOK
  <2> DEFINE v == Reconciled(view[e], f, auth)
  <2>3. /\ v.canaryUp <=> view[e].canaryUp
        /\ v.canaryPfx = view[e].canaryPfx
    BY <2>2, CanaryOfFold
  <2> HIDE DEF v
  <2>4. ASSUME NEW d \in Edges
        PROVE  /\ view'[d].canaryUp <=> view[d].canaryUp
               /\ view'[d].canaryPfx = view[d].canaryPfx
    <3>1. view'[d] = IF d = e THEN v ELSE view[d]
      BY <2>1, <2>2 DEF v
    <3> QED BY <2>3, <3>1
  <2> QED BY <2>1, <2>4, VoteFrame
<1>5. ASSUME NEW x \in Emitters, ReadHosts(x) PROVE VoteInv'
  BY <1>5, VoteFrame DEF ReadHosts, server, Excused
<1>6. ASSUME NEW x \in Emitters, EmitterSends(x) PROVE VoteInv'
  <2> PICK chunk \in SUBSET emitter[x].report.members : ChunkSent(x, chunk)
    BY <1>6, EmitterChunk
  <2> DEFINE r == [emitter[x].report EXCEPT !.members = chunk]
  <2>1. Send(r, x) /\ UNCHANGED <<view, canarySeen, tap>>
    BY DEF ChunkSent
  <2>2. r.kind # "DEATH_VOTE"
    <3>1. emitter[x].report \in MemberReport
      BY <1>6, EmitterChunk
    <3> QED BY <3>1 DEF MemberReport
  <2> HIDE DEF r
  <2>3. vote' = vote
    BY <2>1, <2>2 DEF Send, Deliver, Lose, server
  <2>4. \A d \in Edges : Excused(d) => Excused(d)'
    BY <1>1, <2>1 DEF Send, Overtakes, Lose, Excused
  <2> QED BY <2>1, <2>3, <2>4, VoteFrame
<1>7. CASE UNCHANGED vars
  BY <1>7, VoteFrame DEF vars, Excused
<1> QED BY <1>2, <1>3, <1>4, <1>5, <1>6, <1>7 DEF Next

(***************************************************************************)
(* "So guard + canary state stay consistent with the event stream"           *)
(* (taphandler.go:36), for any number of edges, hosts and emitters, in        *)
(* whatever order the events of an edge come, those of a session whose       *)
(* PeerUp was dropped included: unless a vote was lost, or the session before *)
(* had shown its canary and ended unheard.  And as long as there is one       *)
(* canary: the guard remembers one canary prefix for an edge, TapHandler all *)
(* of them, so with two the withdrawal of the older one tells the server of a *)
(* death the guard does not see.                                            *)
(***************************************************************************)
THEOREM VotesFollowView ==
    ASSUME \A p, q \in CanaryPrefixes : p = q
    PROVE  Spec => []VotesMatchView
<1>1. Init => VoteInv
  BY VoteInit
<1>2. TypeOK /\ VoteInv /\ [Next]_vars => VoteInv'
  BY VoteStep
<1>3. TypeOK /\ VoteInv => VotesMatchView
  BY VoteGives
<1> QED BY <1>1, <1>2, <1>3, UplinkTyped, PTL DEF Spec

-----------------------------------------------------------------------------
(***************************************************************************)
(* The hosts.  The member report that a goroutine has to send, if any: the   *)
(* hosts it is about, and what the server is to take from it.               *)
(***************************************************************************)
Held(x) ==
    IF x = "tap"
    THEN IF tap.out # <<>> /\ tap.out[1].kind = "MEMBER_EDGE" THEN {tap.out[1]} ELSE {}
    ELSE IF emitter[x].pc = "send" THEN {emitter[x].report} ELSE {}

Says(r, p) == ~r.down /\ p \in r.members

\* No report makes a host of a canary.
Plain(r) == \A p \in CanaryPrefixes : ~Says(r, p)

Touching(x, e, p) == \E r \in Held(x) : r.edge = e /\ p \in r.members
Saying(x, e, p) == \E r \in Held(x) : r.edge = e /\ Says(r, p)

\* Of the reports that are about p, x's was decided upon last.
Newest(x, e, p) ==
    /\ Touching(x, e, p)
    /\ \A y \in Goroutines : Touching(y, e, p) => x \notin ahead[y]

(***************************************************************************)
(* The newest of the reports about a host says what the view says of it;     *)
(* with none to send, so does the server.                                   *)
(***************************************************************************)
Followed(e, p) ==
    /\ (\A x \in Goroutines : ~Touching(x, e, p)) => (p \in homed[e] <=> p \in view[e].hosts)
    /\ \A x \in Goroutines : Newest(x, e, p) => (Saying(x, e, p) <=> p \in view[e].hosts)

(***************************************************************************)
(* What has yet to be decided upon: by the tap, of the host whose path it    *)
(* has folded into a settled view; or by an emitter, of a whole family.     *)
(***************************************************************************)
Owed(e, p) ==
    /\ Settled(view[e], FamilyOf[p])
    /\ \/ /\ tap.event.kind = "PathUpdate" /\ tap.event.edge = e /\ tap.event.prefix = p
          /\ p \in view[e].hosts
       \/ /\ tap.event.kind = "Withdrawal" /\ tap.event.edge = e /\ tap.event.prefix = p
          /\ p \notin view[e].hosts

Reading(x, e, p) ==
    emitter[x].pc = "read" /\ emitter[x].edge = e /\ emitter[x].family = FamilyOf[p]

Snapshotting(e, p) ==
    \/ tap.event.kind = "EOR" /\ tap.event.edge = e /\ tap.event.family = FamilyOf[p]
    \/ \E x \in Emitters : Reading(x, e, p)

Unflawed(e) == flaw[e] \cap {"member_lost", "gated", "overtaken"} = {}

\* A host that was reported on is followed; one of a settled view was reported on.
Following(e, p) == Unflawed(e) /\ p \in told[e] /\ ~Owed(e, p) => Followed(e, p)

Reported(e, p) ==
    /\ Settled(view[e], FamilyOf[p]) /\ Unflawed(e) /\ p \in view[e].hosts
    /\ ~Owed(e, p) /\ ~Snapshotting(e, p)
    => p \in told[e]

MemberLast == Len(tap.out) <= 2 /\ (Len(tap.out) = 2 => tap.out[2].kind = "DEATH_VOTE")

AheadInv == \A x, y \in Goroutines : x \in ahead[y] => x # y /\ Held(x) # {}

HeldInv == \A x \in Goroutines : \A r \in Held(x) : Plain(r)

NoCanaryHomed == \A e \in Edges : (view[e].hosts \cup homed[e]) \cap CanaryPrefixes = {}

MemberInv ==
    /\ MemberLast /\ AheadInv /\ HeldInv /\ NoCanaryHomed
    /\ \A e \in Edges, p \in HostPrefixes \ CanaryPrefixes : Following(e, p) /\ Reported(e, p)

LEMMA MemberInit == Init => MemberInv
<1> SUFFICES ASSUME Init PROVE MemberInv
  OBVIOUS
<1>1. tap.out = <<>> /\ \A x \in Emitters : emitter[x].pc = "done"
  BY DEF Init, Resting, Done
<1>2. \A x \in Goroutines : Held(x) = {}
  BY <1>1 DEF Held, Goroutines
<1>3. \A e \in Edges : view[e].hosts = {} /\ told[e] = {} /\ homed[e] = {}
  BY DEF Init, Fresh
<1>4. AheadInv
  BY DEF Init, AheadInv
<1> QED BY <1>1, <1>2, <1>3, <1>4
        DEF MemberInv, MemberLast, HeldInv, NoCanaryHomed, Following, Reported

LEMMA HoldsHeld ==
    ASSUME TypeOK, NEW x \in Goroutines, NEW e
    PROVE  /\ Holds(x, e) <=> \E r \in Held(x) : r.edge = e
           /\ \A r \in Held(x) : Carried(x) = r.members
<1>1. tap.out # <<>> => Head(tap.out) = tap.out[1]
  BY TailTypes DEF TypeOK, ReportType
<1>2. CASE x = "tap"
  <2>1. x \notin Emitters
    BY <1>2, UplinkAssumption DEF Emitters
  <2> QED BY <1>1, <1>2, <2>1 DEF Holds, Held, Carried
<1>3. CASE x # "tap"
  BY <1>3 DEF Holds, Held, Goroutines, Carried
<1> QED BY <1>2, <1>3

LEMMA MemberGives == TypeOK /\ MemberInv => MembersMatchView
<1> SUFFICES ASSUME TypeOK, MemberInv, NEW e \in Edges, Unflawed(e), NEW f \in Families,
                    Quiet(e), Valid(view[e], f), NEW p \in OfFamily(f)
             PROVE  p \in homed[e] /\ p \in told[e] <=> p \in view[e].hosts
  BY DEF MembersMatchView, InStep, Unflawed
<1>1. p \in HostPrefixes /\ FamilyOf[p] = f
  BY DEF OfFamily
<1>2. CASE p \in CanaryPrefixes
  BY <1>2 DEF MemberInv, NoCanaryHomed
<1>3. CASE p \notin CanaryPrefixes
  <2>1. Following(e, p) /\ Reported(e, p)
    BY <1>1, <1>3 DEF MemberInv
  <2>2. Settled(view[e], FamilyOf[p])
    BY <1>1 DEF Valid, Settled
  <2>3. ~Owed(e, p) /\ ~Snapshotting(e, p)
    <3>1. tap.event.kind = "none"
      BY DEF Quiet, Resting, NoEvent
    <3> QED BY <3>1 DEF Quiet, Owed, Snapshotting, Reading
  <2>4. \A x \in Goroutines : ~Touching(x, e, p)
    BY HoldsHeld DEF Quiet, Touching
  <2> QED BY <2>1, <2>2, <2>3, <2>4 DEF Following, Reported, Followed
<1> QED BY <1>2, <1>3

(***************************************************************************)
(* Nothing of what the reports say, and of their order, has changed.         *)
(***************************************************************************)
LEMMA FollowedFrame ==
    ASSUME \A x \in Goroutines : Held(x)' = Held(x),
           \A x \in Goroutines : Held(x) # {} => ahead'[x] = ahead[x],
           NEW e, NEW p, Followed(e, p),
           p \in homed'[e] <=> p \in homed[e],
           p \in view'[e].hosts <=> p \in view[e].hosts
    PROVE  Followed(e, p)'
<1>1. \A x \in Goroutines : /\ Touching(x, e, p)' <=> Touching(x, e, p)
                            /\ Saying(x, e, p)' <=> Saying(x, e, p)
                            /\ Touching(x, e, p) => ahead'[x] = ahead[x]
  BY DEF Touching, Saying
<1>2. \A x \in Goroutines : Newest(x, e, p)' <=> Newest(x, e, p)
  BY <1>1 DEF Newest
<1> QED BY <1>1, <1>2 DEF Followed

(***************************************************************************)
(* x decides upon report r.                                                 *)
(***************************************************************************)
LEMMA DecidedAhead ==
    ASSUME TypeOK, AheadInv, NEW x \in Goroutines, NEW e \in Edges, NEW r, NEW hosts, r.edge = e,
           Held(x) = {}, Held(x)' = {r}, \A y \in Goroutines \ {x} : Held(y)' = Held(y),
           Decide(x, e, hosts)
    PROVE  /\ AheadInv'
           /\ \A y \in Goroutines : Held(y) # {} => ahead'[y] = ahead[y]
           /\ \A y \in Goroutines : (\E s \in Held(y) : s.edge = e) <=> y \in ahead'[x]
           /\ \A y \in Goroutines : x \notin ahead'[y]
<1>1. ahead' = [ahead EXCEPT ![x] = {y \in Goroutines : \E s \in Held(y) : s.edge = e}]
  <2>1. \A y \in Goroutines : Holds(y, e) <=> \E s \in Held(y) : s.edge = e
    BY HoldsHeld
  <2>2. {y \in Goroutines : Holds(y, e)} = {y \in Goroutines : \E s \in Held(y) : s.edge = e}
    BY <2>1
  <2> QED BY <2>2 DEF Decide
<1>2. ahead \in [Goroutines -> SUBSET Goroutines]
  BY DEF TypeOK
<1> QED BY <1>1, <1>2 DEF AheadInv

LEMMA DecidedFollowed ==
    ASSUME TypeOK, AheadInv, NEW x \in Goroutines, NEW e \in Edges, NEW r, NEW hosts, r.edge = e,
           Held(x) = {}, Held(x)' = {r}, \A y \in Goroutines \ {x} : Held(y)' = Held(y),
           Decide(x, e, hosts), UNCHANGED <<view, homed>>, NEW d \in Edges, NEW p,
           IF d = e /\ p \in r.members THEN Says(r, p) <=> p \in view[d].hosts ELSE Followed(d, p)
    PROVE  Followed(d, p)'
<1>1. /\ \A y \in Goroutines : Held(y) # {} => ahead'[y] = ahead[y]
      /\ \A y \in Goroutines : (\E s \in Held(y) : s.edge = e) <=> y \in ahead'[x]
      /\ \A y \in Goroutines : x \notin ahead'[y]
  BY DecidedAhead
<1>2. \A y \in Goroutines \ {x} : (Touching(y, d, p)' <=> Touching(y, d, p))
                                  /\ (Saying(y, d, p)' <=> Saying(y, d, p))
  BY DEF Touching, Saying
<1>3. ~Touching(x, d, p) /\ (Touching(x, d, p)' <=> d = e /\ p \in r.members)
  BY DEF Touching
<1>4. CASE d = e /\ p \in r.members
  <2>1. Newest(x, d, p)' /\ \A y \in Goroutines \ {x} : ~Newest(y, d, p)'
    BY <1>1, <1>2, <1>3, <1>4 DEF Newest, Touching
  <2>2. Saying(x, d, p)' <=> Says(r, p)
    BY <1>4 DEF Saying
  <2> QED BY <1>3, <1>4, <2>1, <2>2 DEF Followed, Newest
<1>5. CASE ~(d = e /\ p \in r.members)
  <2>1. \A y \in Goroutines : Touching(y, d, p)' <=> Touching(y, d, p)
    BY <1>2, <1>3, <1>5
  <2>2. \A y \in Goroutines : Touching(y, d, p) => ahead'[y] = ahead[y]
    BY <1>1 DEF Touching
  <2>3. \A y \in Goroutines : Newest(y, d, p)' <=> Newest(y, d, p)
    BY <2>1, <2>2 DEF Newest
  <2>4. \A y \in Goroutines : Newest(y, d, p) => (Saying(y, d, p)' <=> Saying(y, d, p))
    BY <1>2, <1>3 DEF Newest
  <2> QED BY <1>5, <2>1, <2>3, <2>4 DEF Followed
<1> QED BY <1>4, <1>5

(***************************************************************************)
(* x sends s, all or a chunk of the report r that it has.                   *)
(***************************************************************************)
SendsPart(x, r, s) ==
    /\ Held(x) = {r} /\ s.edge = r.edge /\ (s.down <=> r.down) /\ s.members \subseteq r.members
    /\ Send(s, x)
    /\ \/ s.members = r.members /\ Held(x)' = {} /\ Through(x)
       \/ Held(x)' = {[r EXCEPT !.members = @ \ s.members]} /\ UNCHANGED ahead

LEMMA DeliveredHome ==
    ASSUME TypeOK, NEW s \in MemberReport, Deliver(s)
    PROVE  /\ \A p : p \in homed'[s.edge] <=>
                       IF p \in s.members THEN Says(s, p) ELSE p \in homed[s.edge]
           /\ \A d \in Edges \ {s.edge} : homed'[d] = homed[d]
<1>1. s.edge \in Edges /\ s.kind # "DEATH_VOTE"
  BY DEF MemberReport
<1>2. homed' = [homed EXCEPT ![s.edge] = IF s.down THEN @ \ s.members ELSE @ \cup s.members]
  BY <1>1 DEF Deliver
<1>3. homed \in [Edges -> SUBSET HostPrefixes]
  BY DEF TypeOK
<1> QED BY <1>1, <1>2, <1>3 DEF Says

LEMMA ThroughAhead ==
    ASSUME TypeOK, AheadInv, NEW x \in Goroutines, Through(x),
           \A y \in Goroutines \ {x} : Held(y)' = Held(y)
    PROVE  /\ AheadInv'
           /\ ahead'[x] = {}
           /\ \A y \in Goroutines \ {x} : ahead'[y] = ahead[y] \ {x}
BY DEF Through, AheadInv

LEMMA PartAhead ==
    ASSUME TypeOK, AheadInv, NEW x \in Goroutines, NEW r, NEW s, SendsPart(x, r, s),
           \A y \in Goroutines \ {x} : Held(y)' = Held(y)
    PROVE  AheadInv'
<1>1. CASE Through(x)
  BY <1>1, ThroughAhead
<1>2. CASE Held(x)' # {} /\ UNCHANGED ahead
  BY <1>2 DEF AheadInv
<1> QED BY <1>1, <1>2 DEF SendsPart

(***************************************************************************)
(* What x still has to send is about the hosts of r that s is not about, and *)
(* says the same of them; of any other host its place in the order stays.    *)
(***************************************************************************)
LEMMA PartLeft ==
    ASSUME TypeOK, AheadInv, NEW x \in Goroutines, NEW r \in MemberReport, NEW s,
           SendsPart(x, r, s), \A y \in Goroutines \ {x} : Held(y)' = Held(y), NEW d, NEW p
    PROVE  /\ Touching(x, d, p) <=> d = r.edge /\ p \in r.members
           /\ Touching(x, d, p)' <=> Touching(x, d, p) /\ p \notin s.members
           /\ \A y \in Goroutines \ {x} : Touching(y, d, p)' <=> Touching(y, d, p)
           /\ \A y \in Goroutines : Touching(y, d, p)' => (Saying(y, d, p)' <=> Saying(y, d, p))
           /\ \A y, z \in Goroutines : Touching(y, d, p)' /\ Touching(z, d, p)' =>
                 (y \in ahead'[z] <=> y \in ahead[z])
<1>1. Held(x) = {r} /\ s.members \subseteq r.members
  BY DEF SendsPart
<1>2. Touching(x, d, p) <=> d = r.edge /\ p \in r.members
  BY <1>1 DEF Touching
<1>3. \A y \in Goroutines \ {x} : (Touching(y, d, p)' <=> Touching(y, d, p))
                                  /\ (Saying(y, d, p)' <=> Saying(y, d, p))
  BY DEF Touching, Saying
<1>4. CASE s.members = r.members /\ Held(x)' = {} /\ Through(x)
  <2>1. ~Touching(x, d, p)'
    BY <1>4 DEF Touching
  <2>2. \A y \in Goroutines \ {x} : ahead'[y] = ahead[y] \ {x}
    BY <1>4, ThroughAhead
  <2> QED BY <1>2, <1>3, <1>4, <2>1, <2>2
<1>5. CASE Held(x)' = {[r EXCEPT !.members = @ \ s.members]} /\ UNCHANGED ahead
  <2> DEFINE q == [r EXCEPT !.members = @ \ s.members]
  <2>1. q.edge = r.edge /\ q.members = r.members \ s.members /\ (q.down <=> r.down)
    BY DEF MemberReport
  <2>2. Held(x)' = {q}
    BY <1>5
  <2> HIDE DEF q
  <2>3. Touching(x, d, p)' <=> d = r.edge /\ p \in r.members \ s.members
    BY <2>1, <2>2 DEF Touching
  <2>4. Touching(x, d, p)' => (Saying(x, d, p)' <=> Saying(x, d, p))
    BY <1>1, <2>1, <2>2, <2>3 DEF Saying, Says
  <2> QED BY <1>2, <1>3, <1>5, <2>3, <2>4
<1> QED BY <1>2, <1>3, <1>4, <1>5 DEF SendsPart

LEMMA SentFollowed ==
    ASSUME TypeOK, AheadInv, NEW x \in Goroutines, NEW r \in MemberReport, NEW s \in MemberReport,
           SendsPart(x, r, s), \A y \in Goroutines \ {x} : Held(y)' = Held(y),
           view' = view, NEW d \in Edges, NEW p, Unflawed(d)', Followed(d, p)
    PROVE  Followed(d, p)'
<1>1. /\ Touching(x, d, p) <=> d = r.edge /\ p \in r.members
      /\ Touching(x, d, p)' <=> Touching(x, d, p) /\ p \notin s.members
      /\ \A y \in Goroutines \ {x} : Touching(y, d, p)' <=> Touching(y, d, p)
      /\ \A y \in Goroutines : Touching(y, d, p)' => (Saying(y, d, p)' <=> Saying(y, d, p))
      /\ \A y, z \in Goroutines : Touching(y, d, p)' /\ Touching(z, d, p)' =>
            (y \in ahead'[z] <=> y \in ahead[z])
  BY PartLeft
<1>2. s.edge = r.edge /\ (s.down <=> r.down) /\ s.members \subseteq r.members /\ Held(x) = {r}
      /\ Send(s, x)
  BY DEF SendsPart
<1>3. flaw \in [Edges -> SUBSET Flaws]
      /\ s.edge \in Edges /\ s.kind = "MEMBER_EDGE"
  BY DEF TypeOK, MemberReport
<1>4. CASE d = r.edge /\ p \in s.members
  <2>1. Deliver(s) /\ \A y \in ahead[x] : Carried(y) \cap s.members = {}
    <3>1. ~Lose(s)
      BY <1>2, <1>3, <1>4 DEF Lose, Unflawed
    <3>2. Deliver(s) /\ Overtakes(s, x)
      BY <1>2, <3>1 DEF Send
    <3>3. ASSUME NEW y \in ahead[x], Carried(y) \cap s.members # {} PROVE FALSE
      <4>1. flaw' = [flaw EXCEPT ![d] = @ \cup {"overtaken"}]
        BY <1>2, <1>3, <1>4, <3>2, <3>3 DEF Overtakes
      <4> QED BY <1>3, <4>1 DEF Unflawed
    <3> QED BY <3>2, <3>3
  <2>2. p \in homed'[d] <=> ~r.down
    BY <1>2, <1>4, <2>1, DeliveredHome DEF Says
  <2>3. ASSUME NEW y \in Goroutines, Touching(y, d, p) PROVE y \notin ahead[x]
    <3>1. PICK t \in Held(y) : p \in t.members
      BY <2>3 DEF Touching
    <3>2. Carried(y) = t.members
      BY HoldsHeld
    <3> QED BY <1>4, <2>1, <3>1, <3>2
  <2>4. ~Touching(x, d, p)'
    BY <1>1, <1>4
  <2>5. ASSUME NEW y \in Goroutines, Newest(y, d, p)' PROVE Newest(y, d, p)
    <3>1. y # x /\ Touching(y, d, p)
      BY <1>1, <2>4, <2>5 DEF Newest
    <3>2. ASSUME NEW z \in Goroutines, Touching(z, d, p) PROVE y \notin ahead[z]
      <4>1. CASE z = x
        BY <2>3, <3>1, <4>1
      <4>2. CASE z # x
        BY <1>1, <2>5, <3>1, <3>2, <4>2 DEF Newest
      <4> QED BY <4>1, <4>2
    <3> QED BY <3>1, <3>2 DEF Newest
  <2>6. \A y \in Goroutines : Newest(y, d, p)' => (Saying(y, d, p)' <=> p \in view'[d].hosts)
    BY <1>1, <2>5 DEF Followed, Newest
  <2>7. ASSUME \A y \in Goroutines : ~Touching(y, d, p)' PROVE p \in homed'[d] <=> p \in view'[d].hosts
    <3>1. \A y \in Goroutines \ {x} : ~Touching(y, d, p)
      BY <1>1, <2>7
    <3>2. x \notin ahead[x]
      BY DEF AheadInv
    <3>3. Newest(x, d, p)
      BY <1>1, <1>2, <1>4, <3>1, <3>2 DEF Newest
    <3>4. Saying(x, d, p) <=> ~r.down
      BY <1>2, <1>4 DEF Saying, Says
    <3> QED BY <2>2, <3>3, <3>4 DEF Followed
  <2> QED BY <2>6, <2>7 DEF Followed
<1>5. CASE ~(d = r.edge /\ p \in s.members)
  <2>1. p \in homed'[d] <=> p \in homed[d]
    BY <1>2, <1>5, DeliveredHome DEF Send, Lose, server
  <2>2. \A y \in Goroutines : Touching(y, d, p)' <=> Touching(y, d, p)
    BY <1>1, <1>5
  <2>3. \A y \in Goroutines : Newest(y, d, p)' <=> Newest(y, d, p)
    BY <1>1, <2>2 DEF Newest
  <2>4. \A y \in Goroutines : Newest(y, d, p) => (Saying(y, d, p)' <=> Saying(y, d, p))
    BY <1>1, <2>2 DEF Newest
  <2> QED BY <2>1, <2>2, <2>3, <2>4 DEF Followed
<1> QED BY <1>4, <1>5

\* What the tap and an emitter hold, before and after a step.
LEMMA TapHolds ==
    LET TapHeld(out) == IF out # <<>> /\ out[1].kind = "MEMBER_EDGE" THEN {out[1]} ELSE {}
        EmitterHeld(m) == IF m.pc = "send" THEN {m.report} ELSE {}
    IN  /\ Held("tap") = TapHeld(tap.out) /\ Held("tap")' = TapHeld(tap'.out)
        /\ \A x \in Emitters : Held(x) = EmitterHeld(emitter[x]) /\ Held(x)' = EmitterHeld(emitter'[x])
BY UplinkAssumption DEF Held, Emitters

(***************************************************************************)
(* The tap folds an event: unless it is about p, nothing has changed at p.   *)
(***************************************************************************)
LEMMA FoldHolds ==
    ASSUME TypeOK, NEW e, NEW v, NEW ev, Folded(e, v, ev)
    PROVE  \A x \in Goroutines : Held(x)' = Held(x)
<1>1. tap = Resting /\ tap'.out = <<>> /\ emitter' = emitter
  BY DEF Folded, Resting, TypeOK
<1>2. tap.out = <<>>
  BY <1>1 DEF Resting
<1> QED BY <1>1, <1>2 DEF Held

LEMMA FoldMembers ==
    ASSUME TypeOK, MemberInv, NEW e \in Edges, NEW v, NEW ev, Folded(e, v, ev),
           ev = NoEvent \/ ev.edge = e,
           v.hosts \cap CanaryPrefixes = {},
           \A d \in Edges \ {e} : flaw'[d] = flaw[d],
           \A p \in HostPrefixes \ CanaryPrefixes : Settled(v, FamilyOf[p]) =>
              /\ Unflawed(e)' => Unflawed(e)
              /\ ~Owed(e, p)' => (p \in v.hosts <=> p \in view[e].hosts)
              /\ ~Snapshotting(e, p)' => Settled(view[e], FamilyOf[p])
    PROVE  MemberInv'
<1>1. /\ tap = Resting /\ tap'.out = <<>> /\ tap'.event = ev /\ UNCHANGED <<emitter, homed, ahead>>
      /\ view' = [view EXCEPT ![e] = v] /\ view \in [Edges -> EdgeViewType]
  BY DEF Folded, Resting, server, TypeOK
<1>2. view'[e] = v /\ \A d \in Edges \ {e} : view'[d] = view[d]
  BY <1>1
<1>3. \A x \in Goroutines : Held(x)' = Held(x)
  BY FoldHolds
<1>4. /\ \A p : p \in told'[e] => p \in told[e] /\ Settled(v, FamilyOf[p])
      /\ \A p : p \in told[e] /\ Settled(v, FamilyOf[p]) => p \in told'[e]
      /\ \A d \in Edges \ {e} : told'[d] = told[d]
  BY DEF Folded, TypeOK
<1>5. MemberLast' /\ AheadInv' /\ HeldInv' /\ NoCanaryHomed'
  <2>1. MemberLast'
    BY <1>1 DEF MemberLast
  <2>2. AheadInv' /\ HeldInv'
    BY <1>1, <1>3 DEF MemberInv, AheadInv, HeldInv
  <2>3. NoCanaryHomed'
    BY <1>1, <1>2 DEF MemberInv, NoCanaryHomed
  <2> QED BY <2>1, <2>2, <2>3
<1>6. ASSUME NEW d \in Edges, NEW p \in HostPrefixes \ CanaryPrefixes
      PROVE  Following(d, p)' /\ Reported(d, p)'
  <2>1. Following(d, p) /\ Reported(d, p)
    BY DEF MemberInv
  <2>2. ~Owed(d, p) /\ (Snapshotting(d, p) => Snapshotting(d, p)')
    <3>1. tap.event.kind = "none"
      BY <1>1 DEF Resting, NoEvent
    <3> QED BY <1>1, <3>1 DEF Owed, Snapshotting, Reading
  <2>3. ASSUME Unflawed(d), p \in told[d], p \in view'[d].hosts <=> p \in view[d].hosts
        PROVE  Followed(d, p)'
    BY <1>1, <1>3, <2>1, <2>2, <2>3, FollowedFrame DEF Following
  <2>4. CASE d = e
    <3>1. Following(d, p)'
      BY <1>2, <1>4, <2>3, <2>4 DEF Following
    <3>2. Reported(d, p)'
      BY <1>2, <1>4, <2>1, <2>2, <2>4 DEF Reported
    <3> QED BY <3>1, <3>2
  <2>5. CASE d # e
    <3>1. Unflawed(d)' <=> Unflawed(d)
      BY <2>5 DEF Unflawed
    <3>2. view'[d] = view[d] /\ told'[d] = told[d]
      BY <1>2, <1>4, <2>5
    <3>3. Following(d, p)'
      BY <2>3, <3>1, <3>2 DEF Following
    <3>4. Reported(d, p)'
      BY <2>1, <2>2, <3>1, <3>2 DEF Reported
    <3> QED BY <3>3, <3>4
  <2> QED BY <2>4, <2>5
<1> QED BY <1>5, <1>6 DEF MemberInv

LEMMA TapEventMembers ==
    ASSUME TypeOK, MemberInv, NEW e \in Edges, TapEvent(e)
    PROVE  MemberInv'
<1>1. view[e] \in EdgeViewType /\ view[e].hosts \cap CanaryPrefixes = {}
      /\ flaw \in [Edges -> SUBSET Flaws]
  BY DEF TypeOK, MemberInv, NoCanaryHomed
<1>2. CASE PeerUp(e)
  <2> DEFINE v == FoldPeerUp(view[e])
  <2>1. v.hosts = {} /\ v.eor = {}
    BY DEF FoldPeerUp, Fresh
  <2>2. Folded(e, v, NoEvent) /\ \A d \in Edges \ {e} : flaw'[d] = flaw[d]
    BY <1>1, <1>2 DEF PeerUp
  <2> HIDE DEF v
  <2>3. \A f : ~Settled(v, f)
    BY <2>1 DEF Settled
  <2> QED BY <2>1, <2>2, <2>3, FoldMembers
<1>3. CASE PeerDown(e)
  <2> DEFINE v == FoldPeerDown(view[e])
             ev == [kind |-> "PeerDown", edge |-> e]
  <2>1. v.hosts = {} /\ v.eor = {}
    BY DEF FoldPeerDown, Fresh
  <2>2. Folded(e, v, ev) /\ ev.edge = e /\ \A d \in Edges \ {e} : flaw'[d] = flaw[d]
    BY <1>1, <1>3 DEF PeerDown
  <2> HIDE DEF v, ev
  <2>3. \A f : ~Settled(v, f)
    BY <2>1 DEF Settled
  <2> QED BY <2>1, <2>2, <2>3, FoldMembers
<1>4. ASSUME NEW f \in Families, EOR(e, f) PROVE MemberInv'
  <2> DEFINE v == FoldEOR(view[e], f)
             ev == [kind |-> "EOR", edge |-> e, family |-> f]
  <2>1. v.hosts = view[e].hosts /\ \A g : g # f => (Settled(v, g) <=> Settled(view[e], g))
    BY <1>1 DEF FoldEOR, EdgeViewType, Settled
  <2>2. Folded(e, v, ev) /\ flaw' = flaw
    BY <1>4 DEF EOR
  <2>3. ev.kind = "EOR" /\ ev.edge = e /\ ev.family = f
    OBVIOUS
  <2> HIDE DEF v, ev
  <2>4. tap'.event = ev
    BY <2>2 DEF Folded, TypeOK
  <2>5. Unflawed(e)' => Unflawed(e)
    BY <2>2 DEF Unflawed
  <2>6. \A p : Settled(v, FamilyOf[p]) /\ ~Snapshotting(e, p)' => Settled(view[e], FamilyOf[p])
    BY <2>1, <2>3, <2>4 DEF Snapshotting
  <2> QED BY <1>1, <2>1, <2>2, <2>3, <2>5, <2>6, FoldMembers
<1>5. ASSUME NEW q \in Prefixes, PathUpdate(e, q) PROVE MemberInv'
  <2> DEFINE v == FoldPathUpdate(view[e], q, q \in CanaryPrefixes)
             ev == [kind |-> "PathUpdate", edge |-> e, prefix |-> q]
  <2>1. /\ v.hosts = view[e].hosts \cup ({q} \cap (HostPrefixes \ CanaryPrefixes))
        /\ \A g : Settled(v, g) <=> Settled(view[e], g)
    BY <1>1 DEF FoldPathUpdate, EdgeViewType, Settled
  <2>2. /\ Folded(e, v, ev)
        /\ flaw' = IF q \in CanaryPrefixes
                   THEN [flaw EXCEPT ![e] = @ \ {"vote_lost", "unended"}] ELSE flaw
    BY <1>5 DEF PathUpdate
  <2>3. ev.kind = "PathUpdate" /\ ev.edge = e /\ ev.prefix = q
    OBVIOUS
  <2> HIDE DEF v, ev
  <2>4. tap'.event = ev /\ view'[e] = v
    BY <2>2 DEF Folded, TypeOK
  <2>5. (Unflawed(e)' => Unflawed(e)) /\ \A d \in Edges \ {e} : flaw'[d] = flaw[d]
    BY <1>1, <2>2 DEF Unflawed
  <2>6. ASSUME NEW p \in HostPrefixes \ CanaryPrefixes, Settled(v, FamilyOf[p]), ~Owed(e, p)'
        PROVE  p \in v.hosts <=> p \in view[e].hosts
    BY <2>1, <2>3, <2>4, <2>6 DEF Owed
  <2> QED BY <1>1, <2>1, <2>2, <2>3, <2>5, <2>6, FoldMembers
<1>6. ASSUME NEW q \in Prefixes, Withdrawal(e, q) PROVE MemberInv'
  <2> DEFINE v == FoldWithdrawal(view[e], q, FALSE)
             ev == [kind |-> "Withdrawal", edge |-> e, prefix |-> q]
  <2>1. /\ v.hosts = view[e].hosts \/ v.hosts = view[e].hosts \ {q}
        /\ \A g : Settled(v, g) <=> Settled(view[e], g)
    BY <1>1 DEF FoldWithdrawal, EdgeViewType, Settled
  <2>2. Folded(e, v, ev) /\ flaw' = flaw
    BY <1>6 DEF Withdrawal
  <2>3. ev.kind = "Withdrawal" /\ ev.edge = e /\ ev.prefix = q
    OBVIOUS
  <2> HIDE DEF v, ev
  <2>4. tap'.event = ev /\ view'[e] = v
    BY <2>2 DEF Folded, TypeOK
  <2>5. Unflawed(e)' => Unflawed(e)
    BY <2>2 DEF Unflawed
  <2>6. ASSUME NEW p \in HostPrefixes \ CanaryPrefixes, Settled(v, FamilyOf[p]), ~Owed(e, p)'
        PROVE  p \in v.hosts <=> p \in view[e].hosts
    BY <2>1, <2>3, <2>4, <2>6 DEF Owed
  <2> QED BY <1>1, <2>1, <2>2, <2>3, <2>5, <2>6, FoldMembers
<1> QED BY <1>2, <1>3, <1>4, <1>5, <1>6 DEF TapEvent

(***************************************************************************)
(* The tap judges what it has folded.                                       *)
(***************************************************************************)
LEMMA JudgedNothing ==
    ASSUME TypeOK, MemberInv, tap.event # NoEvent, tap'.event = NoEvent,
           tap'.out # <<>> => tap'.out[1].kind = "DEATH_VOTE", MemberLast',
           UNCHANGED <<view, homed, ahead, told>>,
           \A x \in Emitters : Held(x)' = Held(x),
           \A d \in Edges : Unflawed(d)' => Unflawed(d),
           \A d \in Edges, p \in HostPrefixes \ CanaryPrefixes :
              /\ Unflawed(d)' => ~Owed(d, p)
              /\ Snapshotting(d, p) => Snapshotting(d, p)'
    PROVE  MemberInv'
<1>1. \A x \in Goroutines : Held(x)' = Held(x)
  <2>1. tap.out = <<>>
    BY DEF TypeOK
  <2>2. Held("tap") = {} /\ Held("tap")' = {}
    BY <2>1, TapHolds
  <2> QED BY <2>2 DEF Goroutines
<1>2. AheadInv' /\ HeldInv' /\ NoCanaryHomed'
  BY <1>1 DEF MemberInv, AheadInv, HeldInv, NoCanaryHomed
<1>3. ASSUME NEW d \in Edges, NEW p \in HostPrefixes \ CanaryPrefixes
      PROVE  Following(d, p)' /\ Reported(d, p)'
  <2>1. Following(d, p) /\ Reported(d, p)
    BY DEF MemberInv
  <2>2. ASSUME Unflawed(d)', p \in told'[d] PROVE Followed(d, p)'
    <3>1. Followed(d, p)
      BY <2>1, <2>2 DEF Following
    <3> QED BY <1>1, <3>1, FollowedFrame
  <2> QED BY <2>1, <2>2 DEF Following, Reported
<1> QED BY <1>2, <1>3 DEF MemberInv

\* A gated change is held against the edge if its view is settled.
LEMMA GatedFlaws ==
    ASSUME TypeOK, NEW e \in Edges, NEW p, Gated(e, p) \/ UNCHANGED flaw
    PROVE  /\ \A d \in Edges : Unflawed(d)' => Unflawed(d)
           /\ Gated(e, p) => ~(Settled(view[e], FamilyOf[p]) /\ Unflawed(e)')
<1>1. flaw \in [Edges -> SUBSET Flaws]
  BY DEF TypeOK
<1> QED BY <1>1 DEF Gated, Unflawed

\* The verdict on a host of the tap's event, if it has one to report.
LEMMA JudgedMember ==
    ASSUME TypeOK, MemberInv, NEW e \in Edges, NEW q \in Prefixes, NEW down \in BOOLEAN,
           NEW so \in BOOLEAN,
           tap.event.kind \in {"PathUpdate", "Withdrawal"}, tap.event.edge = e, tap.event.prefix = q,
           ReportMember(e, q, down, so), UNCHANGED <<view, homed, emitter>>,
           Gated(e, q) \/ UNCHANGED flaw,
           so => q \in HostPrefixes /\ (q \in view[e].hosts <=> ~down) /\ (~down => q \notin CanaryPrefixes),
           ~so => \/ q \notin HostPrefixes \ CanaryPrefixes
                  \/ ~Owed(e, q) \/ Gated(e, q)
    PROVE  MemberInv'
<1>1. tap.event # NoEvent /\ tap.out = <<>> /\ tap'.event = NoEvent
  BY DEF NoEvent, TypeOK, ReportMember
<1>2. /\ \A d \in Edges : Unflawed(d)' => Unflawed(d)
      /\ Gated(e, q) => ~(Settled(view[e], FamilyOf[q]) /\ Unflawed(e)')
  BY GatedFlaws
<1>3. \A x \in Emitters : Held(x)' = Held(x)
  BY TapHolds
<1>4. \A d \in Edges, p \in Prefixes : Owed(d, p) => d = e /\ p = q /\ Settled(view[e], FamilyOf[q])
  BY DEF Owed
<1>5. \A d \in Edges, p \in Prefixes : Snapshotting(d, p) => Snapshotting(d, p)'
  BY DEF Snapshotting, Reading
<1>6. CASE ~so
  <2>1. tap'.out = <<>> /\ UNCHANGED <<ahead, told>>
    BY <1>6 DEF ReportMember
  <2>2. MemberLast'
    BY <2>1 DEF MemberLast
  <2>3. \A d \in Edges, p \in HostPrefixes \ CanaryPrefixes :
           /\ Unflawed(d)' => ~Owed(d, p)
           /\ Snapshotting(d, p) => Snapshotting(d, p)'
    BY <1>2, <1>4, <1>5, <1>6, PrefixAssumption
  <2> QED BY <1>1, <1>2, <1>3, <2>1, <2>2, <2>3, JudgedNothing
<1>7. CASE so
  <2> DEFINE r == MemberEdge(e, {q}, down)
  <2>1. /\ r.edge = e /\ r.kind = "MEMBER_EDGE" /\ Plain(r)
        /\ \A p : p \in r.members <=> p = q
        /\ Says(r, q) <=> q \in view[e].hosts
    BY <1>7 DEF MemberEdge, Plain, Says
  <2>2. tap'.out = <<r>> /\ Decide("tap", e, {q})
    BY <1>7 DEF ReportMember
  <2> HIDE DEF r
  <2>3. tap'.out # <<>> /\ tap'.out[1] = r /\ Len(tap'.out) = 1
    BY <2>2
  <2>4. Held("tap") = {} /\ Held("tap")' = {r} /\ \A x \in Goroutines \ {"tap"} : Held(x)' = Held(x)
    BY <1>1, <1>3, <2>1, <2>3, TapHolds DEF Goroutines
  <2>5. /\ \A p : p \in told'[e] <=> p \in told[e] \/ p = q
        /\ \A d \in Edges \ {e} : told'[d] = told[d]
    BY <2>2 DEF Decide, TypeOK
  <2>6. AheadInv' /\ HeldInv' /\ NoCanaryHomed' /\ MemberLast'
    <3>1. AheadInv'
      BY <2>1, <2>2, <2>4, DecidedAhead DEF MemberInv, Goroutines
    <3>2. HeldInv'
      BY <2>1, <2>4 DEF MemberInv, HeldInv
    <3>3. NoCanaryHomed' /\ MemberLast'
      BY <2>3 DEF MemberInv, NoCanaryHomed, MemberLast
    <3> QED BY <3>1, <3>2, <3>3
  <2>7. ASSUME NEW d \in Edges, NEW p \in HostPrefixes \ CanaryPrefixes
        PROVE  Following(d, p)' /\ Reported(d, p)'
    <3>1. Following(d, p) /\ Reported(d, p)
      BY DEF MemberInv
    <3>2. ASSUME Unflawed(d)', p \in told'[d] PROVE Followed(d, p)'
      <4>1. ~(d = e /\ p = q) => Followed(d, p)
        BY <1>2, <1>4, <2>5, <3>1, <3>2, PrefixAssumption DEF Following
      <4>2. IF d = e /\ p \in r.members THEN Says(r, p) <=> p \in view[d].hosts ELSE Followed(d, p)
        BY <2>1, <4>1
      <4>3. "tap" \in Goroutines /\ AheadInv /\ UNCHANGED <<view, homed>>
        BY DEF Goroutines, MemberInv
      <4> QED BY <2>1, <2>2, <2>4, <4>2, <4>3, DecidedFollowed
    <3>3. Reported(d, p)'
      <4>1. Snapshotting(d, p) => Snapshotting(d, p)'
        BY <1>5, PrefixAssumption
      <4>2. p \in told[d] \/ (d = e /\ p = q) => p \in told'[d]
        BY <2>5
      <4>3. Owed(d, p) => d = e /\ p = q
        BY <1>4, PrefixAssumption
      <4> QED BY <1>2, <3>1, <4>1, <4>2, <4>3 DEF Reported
    <3> QED BY <3>2, <3>3 DEF Following
  <2> QED BY <2>6, <2>7 DEF MemberInv
<1> QED BY <1>6, <1>7

LEMMA HandlerMembers ==
    ASSUME TypeOK, MemberInv,
           \/ JudgePeerDown \/ CanaryWithdrawn \/ HostWithdrawn
           \/ CanaryAnnounced \/ HostAnnounced \/ SpawnSnapshot
    PROVE  MemberInv'
<1> DEFINE ev == tap.event
<1>1. /\ ev.kind \in {"PeerDown", "EOR", "PathUpdate", "Withdrawal"} => ev.edge \in Edges
      /\ ev.kind \in {"PathUpdate", "Withdrawal"} => ev.prefix \in Prefixes
      /\ ev.kind = "none" <=> ev = NoEvent
  BY EventFields DEF TypeOK
<1>2. canarySeen \subseteq Edges \X CanaryPrefixes
  BY DEF TypeOK
<1>3. flaw' = flaw => \A d \in Edges : Unflawed(d)' => Unflawed(d)
  BY DEF Unflawed
<1>4. emitter' = emitter => \A x \in Emitters : Held(x)' = Held(x)
  BY TapHolds
<1>5. emitter' = emitter /\ ev.kind # "EOR" =>
         \A d \in Edges, p \in HostPrefixes \ CanaryPrefixes : Snapshotting(d, p) => Snapshotting(d, p)'
  BY DEF Snapshotting, Reading
<1>6. CASE JudgePeerDown
  <2> DEFINE r == DeathVote(ev.edge, TRUE, FALSE)
  <2>1. /\ tap'.event = NoEvent /\ tap'.out = <<r>> /\ r.kind = "DEATH_VOTE" /\ ev.kind = "PeerDown"
        /\ UNCHANGED <<view, homed, ahead, told, emitter, flaw>>
    BY <1>6 DEF JudgePeerDown, Judging, ReportVotes, DeathVote, server
  <2> HIDE DEF r
  <2>2. tap'.out[1] = r /\ Len(tap'.out) = 1
    BY <2>1
  <2>3. \A d \in Edges, p \in HostPrefixes \ CanaryPrefixes : ~Owed(d, p)
    BY <2>1 DEF Owed
  <2>4. MemberLast'
    BY <2>2 DEF MemberLast
  <2> QED BY <1>1, <1>3, <1>4, <1>5, <2>1, <2>2, <2>3, <2>4, JudgedNothing
<1>7. CASE CanaryWithdrawn
  <2> DEFINE r == DeathVote(ev.edge, TRUE, TRUE)
  <2>1. /\ tap'.event = NoEvent /\ tap'.out = <<r>> /\ r.kind = "DEATH_VOTE" /\ ev.kind = "Withdrawal"
        /\ UNCHANGED <<view, homed, ahead, told, emitter, flaw>> /\ <<ev.edge, ev.prefix>> \in canarySeen
    BY <1>7 DEF CanaryWithdrawn, Judging, ReportVotes, DeathVote, server
  <2> HIDE DEF r
  <2>2. tap'.out[1] = r /\ Len(tap'.out) = 1
    BY <2>1
  <2>3. \A d \in Edges, p \in HostPrefixes \ CanaryPrefixes : ~Owed(d, p)
    BY <1>2, <2>1 DEF Owed
  <2>4. MemberLast'
    BY <2>2 DEF MemberLast
  <2> QED BY <1>1, <1>3, <1>4, <1>5, <2>1, <2>2, <2>3, <2>4, JudgedNothing
<1>8. CASE CanaryAnnounced
  <2> DEFINE r == DeathVote(ev.edge, FALSE, TRUE)
             s == DeathVote(ev.edge, FALSE, FALSE)
  <2>1. /\ tap'.event = NoEvent /\ tap'.out = <<r, s>> /\ ev.kind = "PathUpdate"
        /\ r.kind = "DEATH_VOTE" /\ s.kind = "DEATH_VOTE"
        /\ UNCHANGED <<view, homed, ahead, told, emitter, flaw>> /\ ev.prefix \in CanaryPrefixes
    BY <1>8 DEF CanaryAnnounced, Judging, ReportVotes, DeathVote, server
  <2> HIDE DEF r, s
  <2>2. tap'.out[1] = r /\ tap'.out[2] = s /\ Len(tap'.out) = 2
    BY <2>1
  <2>3. \A d \in Edges, p \in HostPrefixes \ CanaryPrefixes : ~Owed(d, p)
    BY <2>1 DEF Owed
  <2>4. MemberLast'
    BY <2>1, <2>2 DEF MemberLast
  <2> QED BY <1>1, <1>3, <1>4, <1>5, <2>1, <2>2, <2>3, <2>4, JudgedNothing
<1>9. CASE HostWithdrawn
  <2> DEFINE e == ev.edge  p == ev.prefix
             so == Member(p) /\ ShouldWithdraw(view[e], p)
  <2>1. /\ ev.kind = "Withdrawal" /\ e \in Edges /\ p \in Prefixes
        /\ ReportMember(e, p, TRUE, so) /\ UNCHANGED <<view, homed, emitter>>
        /\ IF Member(p) /\ ~Trusted(e, p) THEN Gated(e, p) ELSE UNCHANGED flaw
    BY <1>1, <1>9 DEF HostWithdrawn, Judging, server
  <2>2. so => p \in HostPrefixes /\ p \notin view[e].hosts
    BY DEF Member, ShouldWithdraw
  <2>3. ~so => p \notin HostPrefixes \/ ~Trusted(e, p) \/ ~Owed(e, p)
    BY <2>1 DEF Member, ShouldWithdraw, Trusted, Owed
  <2>4. ~so => p \notin HostPrefixes \/ ~Owed(e, p) \/ Gated(e, p)
    BY <2>1, <2>3 DEF Member
  <2>5. Gated(e, p) \/ UNCHANGED flaw
    BY <2>1
  <2>6. so \in BOOLEAN
    OBVIOUS
  <2> HIDE DEF so
  <2> QED BY <2>1, <2>2, <2>4, <2>5, <2>6, JudgedMember
<1>10. CASE HostAnnounced
  <2> DEFINE e == ev.edge  p == ev.prefix
             so == Member(p) /\ Trusted(e, p) /\ p \in view[e].hosts
  <2>1. /\ ev.kind = "PathUpdate" /\ e \in Edges /\ p \in Prefixes /\ p \notin CanaryPrefixes
        /\ ReportMember(e, p, FALSE, so) /\ UNCHANGED <<view, homed, emitter>>
        /\ IF Member(p) /\ ~Trusted(e, p) THEN Gated(e, p) ELSE UNCHANGED flaw
    BY <1>1, <1>10 DEF HostAnnounced, Judging, server
  <2>2. so => p \in HostPrefixes /\ p \in view[e].hosts
    BY DEF Member
  <2>3. ~so => p \notin HostPrefixes \/ ~Trusted(e, p) \/ ~Owed(e, p)
    BY <2>1 DEF Member, Owed
  <2>4. ~so => p \notin HostPrefixes \/ ~Owed(e, p) \/ Gated(e, p)
    BY <2>1, <2>3 DEF Member
  <2>5. Gated(e, p) \/ UNCHANGED flaw
    BY <2>1
  <2>6. so \in BOOLEAN
    OBVIOUS
  <2> HIDE DEF so
  <2> QED BY <2>1, <2>2, <2>4, <2>5, <2>6, JudgedMember
<1>11. CASE SpawnSnapshot
  <2> DEFINE e == ev.edge  f == ev.family
             m == [pc |-> "read", edge |-> e, family |-> f]
  <2>1. PICK x \in EorGoroutines : emitter[x] = Done /\ emitter' = [emitter EXCEPT ![x] = m]
    BY <1>11 DEF SpawnSnapshot, Emit
  <2>2. /\ ev.kind = "EOR" /\ tap'.event = NoEvent /\ tap'.out = <<>>
        /\ UNCHANGED <<view, homed, ahead, told, flaw>>
    BY <1>11 DEF SpawnSnapshot, Judging, ReportVotes, server
  <2>3. m.pc = "read" /\ m.edge = e /\ m.family = f
    OBVIOUS
  <2> HIDE DEF m
  <2>4. emitter'[x] = m /\ \A y \in Emitters \ {x} : emitter'[y] = emitter[y]
    BY <2>1 DEF TypeOK, Emitters
  <2>5. \A y \in Emitters : Held(y)' = Held(y)
    <3>1. x \in Emitters /\ emitter[x].pc # "send" /\ emitter'[x].pc # "send"
      BY <2>1, <2>3, <2>4 DEF Done, Emitters
    <3>2. Held(x) = {} /\ Held(x)' = {}
      BY <3>1, TapHolds
    <3>3. \A y \in Emitters \ {x} : Held(y)' = Held(y)
      BY <2>4, TapHolds
    <3> QED BY <3>2, <3>3
  <2>6. ASSUME NEW d \in Edges, NEW p \in HostPrefixes \ CanaryPrefixes
        PROVE  ~Owed(d, p) /\ (Snapshotting(d, p) => Snapshotting(d, p)')
    <3>1. ~Owed(d, p)
      BY <2>2 DEF Owed
    <3>2. CASE d = e /\ f = FamilyOf[p]
      <4>1. x \in Emitters /\ Reading(x, d, p)'
        BY <2>3, <2>4, <3>2 DEF Reading, Emitters
      <4> QED BY <3>1, <4>1 DEF Snapshotting
    <3>3. CASE ~(d = e /\ f = FamilyOf[p])
      <4>1. \A y \in Emitters : Reading(y, d, p) => Reading(y, d, p)'
        BY <2>1, <2>4 DEF Reading, Done
      <4>2. ~(tap.event.edge = d /\ tap.event.family = FamilyOf[p])
        BY <3>3
      <4>3. Snapshotting(d, p) => \E y \in Emitters : Reading(y, d, p)'
        BY <4>1, <4>2 DEF Snapshotting
      <4> QED BY <3>1, <4>3 DEF Snapshotting
    <3> QED BY <3>1, <3>2, <3>3
  <2>7. MemberLast'
    BY <2>2 DEF MemberLast
  <2> QED BY <1>1, <1>3, <2>2, <2>5, <2>6, <2>7, JudgedNothing
<1> QED BY <1>6, <1>7, <1>8, <1>9, <1>10, <1>11

(***************************************************************************)
(* The audit repairs: an emitter will read what it has changed.             *)
(***************************************************************************)
LEMMA AuditRepairMembers ==
    ASSUME TypeOK, MemberInv, NEW e \in Edges, NEW f \in Families,
           NEW auth \in SUBSET (HostPrefixes \ CanaryPrefixes), AuditRepair(e, f, auth)
    PROVE  MemberInv'
<1> DEFINE m == [pc |-> "read", edge |-> e, family |-> f]
           v == Reconciled(view[e], f, auth)
           changed == Missed(view[e], f, auth) \cup Stale(view[e], f, auth)
<1>1. /\ emitter["audit"] = Done /\ emitter' = [emitter EXCEPT !["audit"] = m]
      /\ UNCHANGED <<tap, homed, ahead, flaw>> /\ view' = [view EXCEPT ![e] = v]
      /\ told' = [told EXCEPT ![e] = @ \ changed]
  BY DEF AuditRepair, Emit, server
<1>2. view[e] \in EdgeViewType /\ view \in [Edges -> EdgeViewType]
      /\ told \in [Edges -> SUBSET HostPrefixes]
  BY DEF TypeOK
<1>3. /\ \A g : Settled(v, g) <=> Settled(view[e], g)
      /\ v.hosts \subseteq view[e].hosts \cup auth
      /\ \A p \in HostPrefixes : p \notin changed => (p \in v.hosts <=> p \in view[e].hosts)
      /\ \A p \in changed : p \in HostPrefixes => FamilyOf[p] = f
  BY <1>2 DEF Reconciled, Missed, Stale, OfFamily, Settled, EdgeViewType
<1>4. m.pc = "read" /\ m.edge = e /\ m.family = f
  OBVIOUS
<1> HIDE DEF m, v, changed
<1>5. /\ view'[e] = v /\ \A d \in Edges \ {e} : view'[d] = view[d]
      /\ told'[e] = told[e] \ changed /\ \A d \in Edges \ {e} : told'[d] = told[d]
  BY <1>1, <1>2
<1>6. "audit" \in Emitters /\ emitter'["audit"] = m
      /\ \A y \in Emitters \ {"audit"} : emitter'[y] = emitter[y]
  BY <1>1 DEF TypeOK, Emitters
<1>7. \A x \in Goroutines : Held(x)' = Held(x)
  <2>1. emitter["audit"].pc # "send" /\ emitter'["audit"].pc # "send"
    BY <1>1, <1>4, <1>6 DEF Done
  <2>2. Held("audit") = {} /\ Held("audit")' = {}
    BY <1>6, <2>1, TapHolds
  <2>3. \A y \in Emitters \ {"audit"} : Held(y)' = Held(y)
    BY <1>6, TapHolds
  <2>4. Held("tap")' = Held("tap")
    BY <1>1, TapHolds
  <2> QED BY <2>2, <2>3, <2>4 DEF Goroutines
<1>8. AheadInv' /\ HeldInv' /\ MemberLast'
  BY <1>1, <1>7 DEF MemberInv, AheadInv, HeldInv, MemberLast
<1>9. NoCanaryHomed'
  BY <1>1, <1>3, <1>5 DEF MemberInv, NoCanaryHomed
<1>10. ASSUME NEW d \in Edges, NEW p \in HostPrefixes \ CanaryPrefixes
       PROVE  Following(d, p)' /\ Reported(d, p)'
  <2>1. Following(d, p) /\ Reported(d, p) /\ (Unflawed(d)' <=> Unflawed(d))
    BY <1>1 DEF MemberInv, Unflawed
  <2>2. CASE d = e /\ p \in changed
    <3>1. p \notin told'[d] /\ Snapshotting(d, p)'
      BY <1>3, <1>4, <1>5, <1>6, <2>2 DEF Snapshotting, Reading
    <3> QED BY <3>1 DEF Following, Reported
  <2>3. CASE ~(d = e /\ p \in changed)
    <3>1. /\ p \in view'[d].hosts <=> p \in view[d].hosts
          /\ p \in told'[d] <=> p \in told[d]
          /\ Settled(view'[d], FamilyOf[p]) <=> Settled(view[d], FamilyOf[p])
      BY <1>3, <1>5, <2>3
    <3>2. Owed(d, p)' <=> Owed(d, p)
      BY <1>1, <3>1 DEF Owed
    <3>3. Snapshotting(d, p) => Snapshotting(d, p)'
      <4>1. \A y \in Emitters : Reading(y, d, p) => Reading(y, d, p)'
        BY <1>1, <1>6 DEF Reading, Done
      <4> QED BY <1>1, <4>1 DEF Snapshotting
    <3>4. Followed(d, p) => Followed(d, p)'
      BY <1>1, <1>7, <3>1, FollowedFrame
    <3> QED BY <2>1, <3>1, <3>2, <3>3, <3>4 DEF Following, Reported
  <2> QED BY <2>2, <2>3
<1> QED BY <1>8, <1>9, <1>10 DEF MemberInv

(***************************************************************************)
(* An emitter reads the hosts, and decides upon all of the family.          *)
(***************************************************************************)
LEMMA ReadHostsMembers ==
    ASSUME TypeOK, MemberInv, NEW x \in Emitters, ReadHosts(x) PROVE MemberInv'
<1> DEFINE e == emitter[x].edge
           f == emitter[x].family
           hosts == view[e].hosts \cap OfFamily(f)
           r == MemberEdge(e, hosts, FALSE)
           m == [pc |-> "send", report |-> r]
<1>1. e \in Edges /\ f \in Families /\ emitter[x].pc = "read"
  BY EmitterFields DEF ReadHosts
<1>2. /\ emitter' = [emitter EXCEPT ![x] = m] /\ Decide(x, e, hosts)
      /\ UNCHANGED <<view, tap, homed, flaw>>
  BY DEF ReadHosts, server
<1>3. view[e].hosts \cap CanaryPrefixes = {}
  BY <1>1 DEF MemberInv, NoCanaryHomed
<1>4. /\ r.edge = e /\ Plain(r) /\ r.members = hosts
      /\ \A p \in hosts : Says(r, p) /\ p \in view[e].hosts
      /\ \A p \in HostPrefixes : p \in hosts <=> p \in view[e].hosts /\ FamilyOf[p] = f
  BY <1>3 DEF MemberEdge, Plain, Says, OfFamily
<1>5. m.pc = "send" /\ m.report = r
  OBVIOUS
<1> HIDE DEF m, r, hosts
<1>6. emitter'[x] = m /\ \A y \in Emitters \ {x} : emitter'[y] = emitter[y]
  BY <1>2 DEF TypeOK
<1>7. Held(x) = {} /\ Held(x)' = {r} /\ \A y \in Goroutines \ {x} : Held(y)' = Held(y)
  <2>1. Held(x) = {} /\ Held(x)' = {r}
    BY <1>1, <1>5, <1>6, TapHolds
  <2>2. \A y \in Emitters \ {x} : Held(y)' = Held(y)
    BY <1>6, TapHolds
  <2>3. Held("tap")' = Held("tap")
    BY <1>2, TapHolds
  <2> QED BY <2>1, <2>2, <2>3 DEF Goroutines
<1>8. x \in Goroutines /\ AheadInv
  BY DEF Goroutines, MemberInv
<1>9. AheadInv'
  BY <1>1, <1>2, <1>4, <1>7, <1>8, DecidedAhead
<1>10. HeldInv' /\ NoCanaryHomed' /\ MemberLast'
  <2>1. HeldInv'
    BY <1>4, <1>7 DEF MemberInv, HeldInv
  <2> QED BY <1>2, <2>1 DEF MemberInv, NoCanaryHomed, MemberLast
<1>11. /\ \A p : p \in told'[e] <=> p \in told[e] \/ p \in hosts
       /\ \A d \in Edges \ {e} : told'[d] = told[d]
  BY <1>1, <1>2 DEF Decide, TypeOK
<1>12. ASSUME NEW d \in Edges, NEW p \in HostPrefixes \ CanaryPrefixes
       PROVE  Following(d, p)' /\ Reported(d, p)'
  <2>1. Following(d, p) /\ Reported(d, p)
    BY DEF MemberInv
  <2>2. (Unflawed(d)' <=> Unflawed(d)) /\ (Owed(d, p)' <=> Owed(d, p))
    BY <1>2 DEF Unflawed, Owed
  <2>3. ASSUME Unflawed(d)', p \in told'[d], ~Owed(d, p)' PROVE Followed(d, p)'
    <3>1. ~(d = e /\ p \in hosts) => Followed(d, p)
      BY <1>11, <2>1, <2>2, <2>3 DEF Following
    <3>2. IF d = e /\ p \in r.members THEN Says(r, p) <=> p \in view[d].hosts ELSE Followed(d, p)
      BY <1>4, <3>1
    <3>3. UNCHANGED <<view, homed>>
      BY <1>2
    <3> QED BY <1>1, <1>2, <1>4, <1>7, <1>8, <3>2, <3>3, DecidedFollowed
  <2>4. Reported(d, p)'
    <3>1. CASE d = e /\ FamilyOf[p] = f
      BY <1>2, <1>4, <1>11, <3>1 DEF Reported
    <3>2. CASE ~(d = e /\ FamilyOf[p] = f)
      <4>1. Snapshotting(d, p) => Snapshotting(d, p)'
        <5>1. \A y \in Emitters : Reading(y, d, p) => Reading(y, d, p)'
          BY <1>6, <3>2 DEF Reading
        <5> QED BY <1>2, <5>1 DEF Snapshotting
      <4> QED BY <1>2, <1>11, <2>1, <2>2, <4>1 DEF Reported
    <3> QED BY <3>1, <3>2
  <2> QED BY <2>3, <2>4 DEF Following
<1> QED BY <1>9, <1>10, <1>12 DEF MemberInv

(***************************************************************************)
(* A member report is sent, by x.                                           *)
(***************************************************************************)
LEMMA SentMembers ==
    ASSUME TypeOK, MemberInv, NEW x \in Goroutines, NEW r \in MemberReport, NEW s \in MemberReport,
           SendsPart(x, r, s), \A y \in Goroutines \ {x} : Held(y)' = Held(y),
           UNCHANGED <<view, told>>, tap'.event = tap.event, MemberLast',
           \A y \in Emitters : emitter[y].pc = "read" \/ emitter'[y].pc = "read" => emitter'[y] = emitter[y]
    PROVE  MemberInv'
<1>1. AheadInv /\ AheadInv' /\ Plain(r)
  <2>1. AheadInv /\ Plain(r)
    BY DEF MemberInv, HeldInv, SendsPart
  <2> QED BY <2>1, PartAhead
<1>2. HeldInv'
  <2> DEFINE q == [r EXCEPT !.members = @ \ s.members]
  <2>1. q.down = r.down /\ q.members \subseteq r.members
    BY DEF MemberReport
  <2>2. Plain(q)
    BY <1>1, <2>1 DEF Plain, Says
  <2>3. \A t \in Held(x)' : Plain(t)
    BY <2>2 DEF SendsPart
  <2> QED BY <2>3 DEF MemberInv, HeldInv
<1>3. NoCanaryHomed'
  <2>1. homed \in [Edges -> SUBSET HostPrefixes] /\ s.edge \in Edges
    BY DEF TypeOK, MemberReport
  <2>2. CASE Lose(s)
    BY <2>2 DEF MemberInv, NoCanaryHomed, Lose, server
  <2>3. CASE Deliver(s)
    <3>1. ASSUME NEW d \in Edges, NEW p \in CanaryPrefixes PROVE p \notin homed'[d]
      <4>1. p \notin homed[d] /\ ~Says(s, p)
        BY <1>1 DEF MemberInv, NoCanaryHomed, Plain, Says, SendsPart
      <4> QED BY <2>3, <4>1, DeliveredHome
    <3> QED BY <3>1 DEF MemberInv, NoCanaryHomed
  <2> QED BY <2>2, <2>3 DEF Send, SendsPart
<1>4. ASSUME NEW d \in Edges, NEW p \in HostPrefixes \ CanaryPrefixes
      PROVE  Following(d, p)' /\ Reported(d, p)'
  <2>1. Following(d, p) /\ Reported(d, p)
    BY DEF MemberInv
  <2>2. Unflawed(d)' => Unflawed(d)
    <3>1. flaw \in [Edges -> SUBSET Flaws]
      BY DEF TypeOK
    <3> QED BY <3>1 DEF SendsPart, Send, Lose, Overtakes, Unflawed
  <2>3. (Owed(d, p)' <=> Owed(d, p)) /\ (Snapshotting(d, p)' <=> Snapshotting(d, p))
    BY DEF Owed, Snapshotting, Reading
  <2>4. ASSUME Unflawed(d)', Followed(d, p) PROVE Followed(d, p)'
    BY <1>1, <2>4, SentFollowed
  <2> QED BY <2>1, <2>2, <2>3, <2>4 DEF Following, Reported
<1> QED BY <1>1, <1>2, <1>3, <1>4 DEF MemberInv

LEMMA EmitterSendsMembers ==
    ASSUME TypeOK, MemberInv, NEW x \in Emitters, EmitterSends(x) PROVE MemberInv'
<1> DEFINE r == emitter[x].report
<1>1. emitter[x].pc = "send" /\ r \in MemberReport
  BY EmitterChunk
<1>2. PICK chunk \in SUBSET r.members : ChunkSent(x, chunk)
  BY EmitterChunk
<1> DEFINE s == [r EXCEPT !.members = chunk]
           q == [r EXCEPT !.members = r.members \ chunk]
           m == [pc |-> "send", report |-> q]
<1>3. /\ s \in MemberReport
      /\ s.edge = r.edge /\ (s.down <=> r.down) /\ s.members = chunk
  BY <1>1 DEF MemberReport
<1>4. /\ Send(s, x) /\ UNCHANGED <<view, tap, told>>
      /\ \/ r.members \ chunk = {} /\ emitter' = [emitter EXCEPT ![x] = Done] /\ Through(x)
         \/ emitter' = [emitter EXCEPT ![x] = m] /\ UNCHANGED ahead
  BY <1>2 DEF ChunkSent
<1>5. m.pc = "send" /\ m.report = q /\ Done.pc = "done"
  BY DEF Done
<1>6. q = [r EXCEPT !.members = @ \ s.members]
  BY <1>3
<1> HIDE DEF m, s, q, r
<1>7. /\ emitter'[x] = Done \/ emitter'[x] = m
      /\ \A y \in Emitters \ {x} : emitter'[y] = emitter[y]
  BY <1>4 DEF TypeOK
<1>8. \A y \in Goroutines \ {x} : Held(y)' = Held(y)
  <2>1. \A y \in Emitters \ {x} : Held(y)' = Held(y)
    BY <1>7, TapHolds
  <2>2. Held("tap")' = Held("tap")
    BY <1>4, TapHolds
  <2> QED BY <2>1, <2>2 DEF Goroutines
<1>9. SendsPart(x, r, s)
  <2>1. Held(x) = {r}
    BY <1>1, TapHolds DEF r
  <2>2. \/ s.members = r.members /\ Held(x)' = {} /\ Through(x)
        \/ Held(x)' = {q} /\ UNCHANGED ahead
    <3>1. CASE r.members \ chunk = {} /\ emitter' = [emitter EXCEPT ![x] = Done] /\ Through(x)
      <4>1. emitter'[x].pc = "done"
        BY <1>5, <3>1 DEF TypeOK
      <4>2. Held(x)' = {}
        BY <4>1, TapHolds
      <4> QED BY <1>3, <3>1, <4>2
    <3>2. CASE emitter' = [emitter EXCEPT ![x] = m] /\ UNCHANGED ahead
      <4>1. emitter'[x] = m
        BY <3>2 DEF TypeOK
      <4>2. Held(x)' = {q}
        BY <1>5, <4>1, TapHolds
      <4> QED BY <3>2, <4>2
    <3> QED BY <1>4, <3>1, <3>2
  <2> QED BY <1>3, <1>4, <1>6, <2>1, <2>2 DEF SendsPart
<1>10. x \in Goroutines /\ MemberLast' /\ tap'.event = tap.event
  BY <1>4 DEF Goroutines, MemberInv, MemberLast
<1>11. \A y \in Emitters : emitter[y].pc = "read" \/ emitter'[y].pc = "read" => emitter'[y] = emitter[y]
  BY <1>1, <1>5, <1>7
<1> QED BY <1>1, <1>3, <1>4, <1>8, <1>9, <1>10, <1>11, SentMembers DEF r

LEMMA TapSendsMembers == TypeOK /\ MemberInv /\ TapSends => MemberInv'
<1> SUFFICES ASSUME TypeOK, MemberInv, TapSends PROVE MemberInv'
  OBVIOUS
<1> DEFINE r == tap.out[1]
<1>1. /\ tap.out \in Seq(ReportType) /\ tap.out # <<>> /\ tap \in [event : EventType, out : Seq(ReportType)]
  BY DEF TypeOK, TapSends, ReportType
<1>2. /\ Head(tap.out) = r /\ r \in ReportType /\ Len(tap.out) \in Nat \ {0}
      /\ Len(Tail(tap.out)) = Len(tap.out) - 1
      /\ Len(tap.out) = 2 => Tail(tap.out)[1] = tap.out[2] /\ Tail(tap.out) # <<>>
      /\ Len(tap.out) = 1 => Tail(tap.out) = <<>>
  BY <1>1, TailTypes
<1>3. /\ Send(r, "tap") /\ Through("tap") /\ UNCHANGED <<view, emitter, told>>
      /\ tap'.event = tap.event /\ tap'.out = Tail(tap.out)
  BY <1>1, <1>2 DEF TapSends
<1>4. MemberLast
  BY DEF MemberInv
<1>5. MemberLast' /\ (tap'.out # <<>> => tap'.out[1].kind = "DEATH_VOTE")
  <2>1. CASE Len(tap.out) = 1
    <3>1. tap'.out = <<>>
      BY <1>2, <1>3, <2>1
    <3> QED BY <3>1 DEF MemberLast
  <2>2. CASE Len(tap.out) = 2
    <3>1. Len(tap'.out) = 1 /\ tap'.out[1].kind = "DEATH_VOTE"
      BY <1>2, <1>3, <1>4, <2>2 DEF MemberLast
    <3> QED BY <3>1 DEF MemberLast
  <2>3. Len(tap.out) = 1 \/ Len(tap.out) = 2
    <3> DEFINE n == Len(tap.out)
    <3>1. n \in Nat \ {0} /\ n <= 2
      BY <1>2, <1>4 DEF MemberLast
    <3> HIDE DEF n
    <3>2. n = 1 \/ n = 2
      BY <3>1
    <3> QED BY <3>2 DEF n
  <2> QED BY <2>1, <2>2, <2>3
<1>6. Held("tap")' = {} /\ \A y \in Goroutines \ {"tap"} : Held(y)' = Held(y)
  <2>1. Held("tap")' = {}
    BY <1>5, TapHolds
  <2>2. \A y \in Emitters : Held(y)' = Held(y)
    BY <1>3, TapHolds
  <2> QED BY <2>1, <2>2 DEF Goroutines
<1>7. "tap" \in Goroutines
  BY DEF Goroutines
<1>8. CASE r.kind = "MEMBER_EDGE"
  <2>1. Held("tap") = {r} /\ r \in MemberReport
    BY <1>1, <1>2, <1>8, TapHolds, ReportFields
  <2>2. SendsPart("tap", r, r)
    BY <1>3, <1>6, <2>1 DEF SendsPart
  <2>3. UNCHANGED <<view, told>> /\ \A y \in Emitters : emitter'[y] = emitter[y]
    BY <1>3
  <2> HIDE DEF r
  <2> QED BY <1>3, <1>5, <1>6, <1>7, <2>1, <2>2, <2>3, SentMembers
<1>9. CASE r.kind = "DEATH_VOTE"
  <2>1. Held("tap") = {}
    BY <1>9, TapHolds
  <2>2. \A y \in Goroutines : Held(y)' = Held(y)
    BY <1>6, <2>1
  <2>3. /\ AheadInv'
        /\ \A y \in Goroutines : Held(y) # {} => ahead'[y] = ahead[y]
    <3>1. \A y \in Goroutines : "tap" \notin ahead[y]
      BY <1>7, <2>1 DEF MemberInv, AheadInv
    <3>2. \A y \in Goroutines \ {"tap"} : ahead'[y] = ahead[y]
      <4>1. ahead \in [Goroutines -> SUBSET Goroutines]
        BY DEF TypeOK
      <4> QED BY <1>3, <3>1, <4>1 DEF Through
    <3>3. AheadInv'
      BY <1>3, <1>6, ThroughAhead DEF MemberInv, Goroutines
    <3> QED BY <2>1, <3>2, <3>3
  <2>4. homed' = homed
    BY <1>3, <1>9 DEF Send, Deliver, Lose, server
  <2>5. HeldInv' /\ NoCanaryHomed'
    BY <1>3, <2>2, <2>4 DEF MemberInv, HeldInv, NoCanaryHomed
  <2>6. ASSUME NEW d \in Edges, NEW p \in HostPrefixes \ CanaryPrefixes
        PROVE  Following(d, p)' /\ Reported(d, p)'
    <3>1. Following(d, p) /\ Reported(d, p)
      BY DEF MemberInv
    <3>2. Unflawed(d)' => Unflawed(d)
      <4>1. flaw \in [Edges -> SUBSET Flaws]
        BY DEF TypeOK
      <4> QED BY <1>3, <4>1 DEF Send, Lose, Overtakes, Unflawed
    <3>3. (Owed(d, p)' <=> Owed(d, p)) /\ (Snapshotting(d, p)' <=> Snapshotting(d, p))
      BY <1>3 DEF Owed, Snapshotting, Reading
    <3>4. Followed(d, p) => Followed(d, p)'
      BY <1>3, <2>2, <2>3, <2>4, FollowedFrame
    <3> QED BY <1>3, <3>1, <3>2, <3>3, <3>4 DEF Following, Reported
  <2> QED BY <1>5, <2>3, <2>5, <2>6 DEF MemberInv
<1> QED BY <1>2, <1>8, <1>9, ReportFields

LEMMA MemberStep == TypeOK /\ MemberInv /\ [Next]_vars => MemberInv'
<1> SUFFICES ASSUME TypeOK, MemberInv, [Next]_vars PROVE MemberInv'
  OBVIOUS
<1>1. ASSUME NEW e \in Edges, TapEvent(e) PROVE MemberInv'
  BY <1>1, TapEventMembers
<1>2. CASE TapHandler
  BY <1>2, HandlerMembers, TapSendsMembers DEF TapHandler
<1>3. ASSUME NEW e \in Edges, NEW f \in Families, NEW auth \in SUBSET (HostPrefixes \ CanaryPrefixes),
             AuditRepair(e, f, auth)
      PROVE  MemberInv'
  BY <1>3, AuditRepairMembers
<1>4. ASSUME NEW x \in Emitters, ReadHosts(x) \/ EmitterSends(x) PROVE MemberInv'
  BY <1>4, ReadHostsMembers, EmitterSendsMembers
<1>5. CASE UNCHANGED vars
  <2>1. UNCHANGED <<view, tap, emitter, homed, ahead, told, flaw>>
    BY <1>5 DEF vars
  <2>2. \A x \in Goroutines : Held(x)' = Held(x)
    BY <2>1 DEF Held
  <2>3. MemberLast' /\ AheadInv' /\ HeldInv' /\ NoCanaryHomed'
    BY <2>1, <2>2 DEF MemberInv, MemberLast, AheadInv, HeldInv, NoCanaryHomed
  <2>4. ASSUME NEW d \in Edges, NEW p \in HostPrefixes \ CanaryPrefixes
        PROVE  Following(d, p)' /\ Reported(d, p)'
    <3>1. (Owed(d, p)' <=> Owed(d, p)) /\ (Snapshotting(d, p)' <=> Snapshotting(d, p))
      BY <2>1 DEF Owed, Snapshotting, Reading
    <3>2. Unflawed(d)' <=> Unflawed(d)
      BY <2>1 DEF Unflawed
    <3>3. Followed(d, p) => Followed(d, p)'
      BY <2>1, <2>2, FollowedFrame
    <3> QED BY <2>1, <3>1, <3>2, <3>3 DEF MemberInv, Following, Reported
  <2> QED BY <2>3, <2>4 DEF MemberInv
<1> QED BY <1>1, <1>2, <1>3, <1>4, <1>5 DEF Next

(***************************************************************************)
(* With nothing under way for an edge the server, taking each report at its *)
(* word, places at it all hosts of the trusted view, and of the hosts it was *)
(* told of since the view last settled no other (taphandler.go,              *)
(* ReconcileTapView): however the tap, the End-of-RIB goroutines and the      *)
(* audit took turns, for any number of them and however the snapshots were   *)
(* chunked.  Unless a report was lost, one overtook one about the same host  *)
(* decided upon before it, or a change came while the view was frozen.      *)
(***************************************************************************)
THEOREM MembersFollowView == Spec => []MembersMatchView
<1>1. Init => MemberInv
  BY MemberInit
<1>2. TypeOK /\ MemberInv /\ [Next]_vars => MemberInv'
  BY MemberStep
<1>3. TypeOK /\ MemberInv => MembersMatchView
  BY MemberGives
<1> QED BY <1>1, <1>2, <1>3, UplinkTyped, PTL DEF Spec
=============================================================================
