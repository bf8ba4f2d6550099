------------------------------- MODULE RibTap -------------------------------
(***************************************************************************)
(* The RIB tap end to end (internal/ribtap, and the audit of               *)
(* internal/coverer/taphandler.go): where the guard's view comes from and   *)
(* how far it may be from the routes GoBGP really holds.                    *)
(*                                                                          *)
(*   the watch goroutine  applies a COVERAGE assignment: CoverageSink adds  *)
(*                        and removes GoBGP peers, one call at a time;      *)
(*   GoBGP (external)     runs the BGP sessions, keeps the received paths   *)
(*                        (rib) and queues watch events (evq);              *)
(*   the tap goroutine    takes one watch event, normalizes it (Producer)   *)
(*                        and folds it into the view (Guard.OnEvent);       *)
(*   the audit goroutine  pulls a Snapshot of rib and reconciles the views. *)
(*                                                                          *)
(* A peer address and its edge are one: cfg.BGP.Peers gives each edge one    *)
(* address.                                                                 *)
(***************************************************************************)
EXTENDS EdgeView, Naturals, Sequences

CONSTANTS
    Edges,
    NextHops,        \* AddPath receive: one path per next hop and prefix
    CanaryPrefixes,  \* announced with the canary large community
    Auditing,        \* whether the audit goroutine runs
    \* Bounds on the environment:
    MaxQueue,        \* watch events in flight
    MaxSessions,     \* sessions that establish
    MaxChurn,        \* announcements and withdrawals by the edges
    MaxDrops,        \* path events GoBGP's watch loses
    MaxCoverages     \* COVERAGE assignments the server sends

ASSUME TapAssumption ==
    /\ CanaryPrefixes \subseteq Prefixes
    /\ Auditing \in BOOLEAN
    /\ {MaxQueue, MaxSessions, MaxChurn, MaxDrops, MaxCoverages} \subseteq Nat

Paths == Prefixes \X NextHops

VARIABLES
    \* GoBGP
    configured,   \* peers GoBGP was told to run a session with
    sess,         \* peers in BGP_FSM_ESTABLISHED
    eorSent,      \* families whose EOR the current session delivered
    rib,          \* paths received from each edge (adj-in)
    evq,          \* watch events not yet delivered
    \* ribtap.Server, CoverageSink, Producer
    peers,        \* Server.peers: edges whose address is registered
    sink,         \* Ensure in progress: what is left to add and to delete
    established,  \* Producer.Run's map: edges last seen established
    \* Guard, audit
    view,
    audit,        \* ReconcileTapView in progress
    \* history, bounds
    uncovered,    \* edges that were removed at some time
    budget        \* what is left of the environment's bounds

gobgp == <<configured, sess, eorSent, rib>>
coverage == <<peers, sink>>
vars == <<gobgp, evq, coverage, established, view, audit, uncovered, budget>>

StateEvent(e, up) == [kind |-> "state", edge |-> e, up |-> up]
EorEvent(e, f)    == [kind |-> "eor", edge |-> e, family |-> f]
PathEvent(e, p, wd) == [kind |-> "path", edge |-> e, prefix |-> p, withdrawal |-> wd]

PrefixesOf(paths) == {path[1] : path \in paths}

Spend(what) == budget[what] > 0 /\ budget' = [budget EXCEPT ![what] = @ - 1]

IdleSink == [add |-> {}, del |-> {}, half |-> {}]
IdleAudit == [covered |-> {}, families |-> {}, family |-> "none", left |-> {},
              auth |-> [e \in Edges |-> {}]]

Init ==
    /\ configured = {} /\ sess = {}
    /\ eorSent = [e \in Edges |-> {}]
    /\ rib = [e \in Edges |-> {}]
    /\ evq = <<>>
    /\ peers = {} /\ sink = IdleSink
    /\ established = {}
    /\ view = [e \in Edges |-> Fresh]
    /\ audit = IdleAudit
    /\ uncovered = {}
    /\ budget = [sessions |-> MaxSessions, churn |-> MaxChurn,
                 drops |-> MaxDrops, coverages |-> MaxCoverages]

-----------------------------------------------------------------------------
(***************************************************************************)
(* Coverage.  Ensure diffs want against Peers(), adds first, then removes.  *)
(* AddPeer tells GoBGP before it registers the address; RemovePeer deletes   *)
(* GoBGP's peer before it forgets the address: between the two calls events *)
(* of that peer may be delivered.  A failed call skips the edge.            *)
(***************************************************************************)
Ensure(want) ==
    /\ sink = IdleSink
    /\ Spend("coverages")
    /\ sink' = [IdleSink EXCEPT !.add = want \ peers, !.del = peers \ want]
    /\ UNCHANGED <<gobgp, evq, peers, established, view, audit, uncovered>>

AddPeer(e) ==
    /\ e \in sink.add /\ sink.half = {}
    /\ configured' = configured \cup {e}
    /\ sink' = [sink EXCEPT !.half = {e}]
    /\ UNCHANGED <<sess, eorSent, rib, evq, peers, established, view, audit, budget, uncovered>>

RegisterEdge(e) ==
    /\ e \in sink.add \cap sink.half
    /\ peers' = peers \cup {e}
    /\ sink' = [sink EXCEPT !.add = @ \ {e}, !.half = {}]
    /\ UNCHANGED <<gobgp, evq, established, view, audit, budget, uncovered>>

\* GoBGP ends the session and drops its paths without withdrawing them from the
\* watch; whether the watch still sees the peer leave established is its affair.
DeletePeer(e) ==
    /\ e \in sink.del /\ sink.add = {} /\ sink.half = {}
    /\ configured' = configured \ {e}
    /\ sess' = sess \ {e}
    /\ eorSent' = [eorSent EXCEPT ![e] = {}]
    /\ rib' = [rib EXCEPT ![e] = {}]
    /\ \/ e \in sess /\ evq' = Append(evq, StateEvent(e, FALSE))
       \/ UNCHANGED evq
    /\ uncovered' = uncovered \cup {e}
    /\ sink' = [sink EXCEPT !.half = {e}]
    /\ UNCHANGED <<peers, established, view, audit, budget>>

ForgetEdge(e) ==
    /\ e \in sink.del \cap sink.half
    /\ peers' = peers \ {e}
    /\ sink' = [sink EXCEPT !.del = @ \ {e}, !.half = {}]
    /\ UNCHANGED <<gobgp, evq, established, view, audit, budget, uncovered>>

\* resolve() knows no address, or GoBGP refuses the call: the next edge.
SkipEdge(e) ==
    /\ sink.half = {}
    /\ e \in IF sink.add # {} THEN sink.add ELSE sink.del
    /\ sink' = [sink EXCEPT !.add = @ \ {e}, !.del = @ \ {e}]
    /\ UNCHANGED <<gobgp, evq, peers, established, view, audit, budget, uncovered>>

-----------------------------------------------------------------------------
(***************************************************************************)
(* GoBGP and the edges (external).  A session delivers the edge's table     *)
(* path by path, one EOR per family when the initial dump is done, changes  *)
(* ever after.  The watch may lose the event of a path, never that of a     *)
(* session or an EOR.                                                       *)
(***************************************************************************)
Emit(ev) == Len(evq) < MaxQueue /\ evq' = Append(evq, ev)

SessionUp(e) ==
    /\ e \in configured \ sess
    /\ Spend("sessions")
    /\ sess' = sess \cup {e}
    /\ Emit(StateEvent(e, TRUE))
    /\ UNCHANGED <<configured, eorSent, rib, coverage, established, view, audit, uncovered>>

SessionDown(e) ==
    /\ e \in sess
    /\ sess' = sess \ {e}
    /\ eorSent' = [eorSent EXCEPT ![e] = {}]
    /\ rib' = [rib EXCEPT ![e] = {}]
    /\ Emit(StateEvent(e, FALSE))
    /\ UNCHANGED <<configured, coverage, established, view, audit, budget, uncovered>>

EndOfRib(e, f) ==
    /\ e \in sess /\ f \notin eorSent[e]
    /\ eorSent' = [eorSent EXCEPT ![e] = @ \cup {f}]
    /\ Emit(EorEvent(e, f))
    /\ UNCHANGED <<configured, sess, rib, coverage, established, view, audit, budget, uncovered>>

\* A path's event reaches the watch, or is dropped at the cost of a drop.
EmitLossy(ev) ==
    \/ Spend("churn") /\ Emit(ev)
    \/ /\ budget.churn > 0 /\ budget.drops > 0
       /\ budget' = [budget EXCEPT !.churn = @ - 1, !.drops = @ - 1]
       /\ UNCHANGED evq

Announce(e, path) ==
    /\ e \in sess /\ path \notin rib[e]
    /\ rib' = [rib EXCEPT ![e] = @ \cup {path}]
    /\ EmitLossy(PathEvent(e, path[1], FALSE))
    /\ UNCHANGED <<configured, sess, eorSent, coverage, established, view, audit, uncovered>>

WithdrawPath(e, path) ==
    /\ e \in sess /\ path \in rib[e]
    /\ rib' = [rib EXCEPT ![e] = @ \ {path}]
    /\ EmitLossy(PathEvent(e, path[1], TRUE))
    /\ UNCHANGED <<configured, sess, eorSent, coverage, established, view, audit, uncovered>>

-----------------------------------------------------------------------------
(***************************************************************************)
(* The tap goroutine: one watch event, normalized and folded.  An event     *)
(* whose address is not registered (EdgeFor) is dropped.                    *)
(***************************************************************************)
Take(kind) == evq # <<>> /\ Head(evq).kind = kind /\ evq' = Tail(evq)

Fold(e, v) ==
    /\ view' = [view EXCEPT ![e] = v]
    /\ UNCHANGED <<gobgp, coverage, audit, budget, uncovered>>

DropUnknown ==
    /\ evq # <<>> /\ Head(evq).edge \notin peers
    /\ evq' = Tail(evq)
    /\ UNCHANGED <<gobgp, coverage, established, view, audit, budget, uncovered>>

\* pathEvent: NewPathUpdate or NewWithdrawal.  A withdrawal has no attributes.
DeliverPath ==
    LET ev == Head(evq)  e == ev.edge  lc == ev.prefix \in CanaryPrefixes
    IN  /\ Take("path") /\ e \in peers
        /\ Fold(e, IF ev.withdrawal THEN FoldWithdrawal(view[e], ev.prefix, FALSE)
                   ELSE FoldPathUpdate(view[e], ev.prefix, lc))
        /\ UNCHANGED established

DeliverEor ==
    LET e == Head(evq).edge
    IN  /\ Take("eor") /\ e \in peers
        /\ Fold(e, FoldEOR(view[e], Head(evq).family))
        /\ UNCHANGED established

DeliverState_DownIgnored ==     \* mutant: only the way up is tracked
    LET e == Head(evq).edge
    IN  /\ Take("state") /\ e \in peers
        /\ established' = established \cup {e}
        /\ Fold(e, IF Head(evq).up THEN FoldPeerUp(view[e]) ELSE view[e])

\* peerEvent: PeerUp on reaching established, PeerDown on leaving it, else nothing.
DeliverState ==
    LET e == Head(evq).edge  up == Head(evq).up
    IN  /\ Take("state") /\ e \in peers
        /\ established' = IF up THEN established \cup {e} ELSE established \ {e}
        /\ Fold(e, IF up = (e \in established) THEN view[e]
                   ELSE IF up THEN FoldPeerUp(view[e]) ELSE FoldPeerDown(view[e]))

-----------------------------------------------------------------------------
(***************************************************************************)
(* The audit: capture the covered edges; per family pull one Snapshot, then *)
(* reconcile the covered edges one after the other against it.  Neither the *)
(* canary nor a non-host path is part of the authoritative set.             *)
(***************************************************************************)
AuditTick ==
    /\ Auditing /\ audit = IdleAudit
    /\ audit' = [IdleAudit EXCEPT !.covered = peers, !.families = Families]
    /\ UNCHANGED <<gobgp, evq, coverage, established, view, budget, uncovered>>

AdjIn(e, f) == (PrefixesOf(rib[e]) \ CanaryPrefixes) \cap OfFamily(f)

Snapshot(f) ==
    [e \in Edges |-> IF e \in peers
                     THEN AdjIn(e, f)
                     ELSE {}]

AuditSnapshot(f) ==
    /\ audit.left = {} /\ f \in audit.families
    /\ audit' = IF audit.covered = {} /\ audit.families = {f} THEN IdleAudit
                ELSE [audit EXCEPT !.families = @ \ {f}, !.family = f,
                                   !.left = audit.covered, !.auth = Snapshot(f)]
    /\ UNCHANGED <<gobgp, evq, coverage, established, view, budget, uncovered>>

\* A failing ListPath ends this round; the next tick starts over.
AuditFails ==
    /\ audit.left = {} /\ audit.families # {}
    /\ audit' = IdleAudit
    /\ UNCHANGED <<gobgp, evq, coverage, established, view, budget, uncovered>>

AuditReconcile(e) ==
    /\ e \in audit.left
    /\ view' = [view EXCEPT ![e] = IF Settled(@, audit.family)
                                   THEN Reconciled(@, audit.family, audit.auth[e])
                                   ELSE @]
    /\ audit' = IF audit.left = {e} /\ audit.families = {} THEN IdleAudit
                ELSE [audit EXCEPT !.left = @ \ {e}]
    /\ UNCHANGED <<gobgp, evq, coverage, established, budget, uncovered>>

-----------------------------------------------------------------------------
SinkNext ==
    \/ \E want \in SUBSET Edges : Ensure(want)
    \/ \E e \in Edges : AddPeer(e)
    \/ \E e \in Edges : RegisterEdge(e)
    \/ \E e \in Edges : DeletePeer(e)
    \/ \E e \in Edges : ForgetEdge(e)
    \/ \E e \in Edges : SkipEdge(e)

GoBGPNext ==
    \/ \E e \in Edges : SessionUp(e)
    \/ \E e \in Edges : SessionDown(e)
    \/ \E e \in Edges, f \in Families : EndOfRib(e, f)
    \/ \E e \in Edges, path \in Paths : Announce(e, path)
    \/ \E e \in Edges, path \in Paths : WithdrawPath(e, path)

TapStep == DropUnknown \/ DeliverPath \/ DeliverEor \/ DeliverState

AuditStep ==
    \/ AuditTick
    \/ \E f \in Families : AuditSnapshot(f)
    \/ \E e \in Edges : AuditReconcile(e)

Next == SinkNext \/ GoBGPNext \/ TapStep \/ AuditStep \/ AuditFails

Spec == Init /\ [][Next]_vars

(***************************************************************************)
(* The two loops of the coverer keep running: the tap goroutine takes what  *)
(* is queued, the audit ticks and, ListPath failing only now and then,      *)
(* completes rounds again and again.                                       *)
(***************************************************************************)
FairSpec ==
    /\ Spec
    /\ WF_vars(TapStep)
    /\ WF_vars(AuditTick)
    /\ \A f \in Families : SF_vars(AuditSnapshot(f))
    /\ \A e \in Edges : WF_vars(AuditReconcile(e))

-----------------------------------------------------------------------------
EventType ==
    [kind : {"state"}, edge : Edges, up : BOOLEAN]
    \cup [kind : {"eor"}, edge : Edges, family : Families]
    \cup [kind : {"path"}, edge : Edges, prefix : Prefixes, withdrawal : BOOLEAN]

TypeOK ==
    /\ {configured, sess, peers, established} \subseteq SUBSET Edges
    /\ eorSent \in [Edges -> SUBSET Families]
    /\ rib \in [Edges -> SUBSET Paths]
    /\ evq \in Seq(EventType)
    /\ sink \in [add : SUBSET Edges, del : SUBSET Edges, half : SUBSET Edges]
    /\ view \in [Edges -> EdgeViewType]
    /\ audit \in [covered : SUBSET Edges, families : SUBSET Families,
                  family : Families \cup {"none"}, left : SUBSET Edges,
                  auth : [Edges -> SUBSET HostPrefixes]]

\* The events of one kind still to be delivered for edge e.
InFlight(e, kinds) ==
    \E i \in DOMAIN evq : evq[i].edge = e /\ evq[i].kind \in kinds

(***************************************************************************)
(* Rule 4 across reconnects (guard.go valid, Producer.peerEvent): a view    *)
(* that passes for replayed belongs to the session GoBGP has now, and that   *)
(* session has delivered this family's EOR, unless the news of a session    *)
(* change is still on its way.                                              *)
(***************************************************************************)
Current(e, f) ==
    Settled(view[e], f) /\ ~InFlight(e, {"state"}) => e \in sess /\ f \in eorSent[e]

TrustIsCurrent == \A e \in Edges \ uncovered, f \in Families : Current(e, f)

(***************************************************************************)
(* The same, also for an edge that was uncovered and is covered again:      *)
(* producer.go:26-28 has the producer emit exactly one PeerDown when a peer  *)
(* leaves established, so that the view of an earlier session is gone.      *)
(***************************************************************************)
TrustIsCurrentAgain == \A e \in sess \cap peers, f \in Families : Current(e, f)

(***************************************************************************)
(* Rules 1 to 4 together: once a trusted view has folded what was queued for *)
(* its edge, it says of every member prefix exactly what GoBGP's adj-in says.*)
(***************************************************************************)
MirrorFaithful ==
    \A e \in Edges \ uncovered, f \in Families :
        Valid(view[e], f) /\ ~InFlight(e, {"state", "eor", "path"})
            => view[e].hosts \cap OfFamily(f) = AdjIn(e, f)

(***************************************************************************)
(* What ShouldWithdraw promises (guard.go:272-275): it orders an anchor      *)
(* withdrawn only when the host route is really absent from the edge.       *)
(***************************************************************************)
AbsenceTrustworthy ==
    \A e \in Edges \ uncovered, p \in HostPrefixes :
        ShouldWithdraw(view[e], p) /\ ~InFlight(e, {"state", "eor", "path"})
            => p \notin AdjIn(e, FamilyOf[p])

(***************************************************************************)
(* T-609, the adj-in reconciliation: whatever path events the watch lost and *)
(* whatever a stale snapshot did, a settled view whose edge has calmed down *)
(* ends up, and stays, equal to the adj-in.                                 *)
(***************************************************************************)
HostsInStep(e, f) == Settled(view[e], f) => view[e].hosts \cap OfFamily(f) = AdjIn(e, f)

DriftRepaired == \A e \in Edges, f \in Families : <>[](e \in uncovered \/ HostsInStep(e, f))
=============================================================================
