------------------------------ MODULE RibGuard ------------------------------
(***************************************************************************)
(* The RIB-survival guard (internal/guard): one view per edge, folded under *)
(* one mutex by two goroutines, and the two alarms it raises.               *)
(*                                                                          *)
(* Goroutine "tap" runs OnEvent for every normalized RIB event, goroutine   *)
(* "audit" runs ReconcileHosts.  Either computes its alarm notices while it *)
(* holds the lock and calls the handlers after it released the lock, one    *)
(* notice at a time, so the other goroutine may fold between the change and *)
(* its alarm.  A goroutine takes its next event only after its last notice. *)
(*                                                                          *)
(* This module lets the tap deliver any event at any time; RibTap says      *)
(* which ones really come.                                                  *)
(***************************************************************************)
EXTENDS EdgeView, Integers

CONSTANT Edges

VARIABLES
    view,       \* g.edges: the mirrored view of each edge
    crossing,   \* conflict notices a goroutine computed and has not fired yet:
                \*   +1 the prefix became multi-sourced, -1 it ceased to be
    flipped,    \* view notices of the tap not fired yet, <<edge, family, valid>>
    account,    \* alarms minus resolutions the conflict handler was given
    told        \* the view handler's last word on each view

vars == <<view, crossing, flipped, account, told>>

Goroutines == {"tap", "audit"}

(***************************************************************************)
(* len(sourcesOf(p)) > 1                                                   *)
(***************************************************************************)
MultiSourced(w, p) == \E a, b \in Edges : a # b /\ p \in w[a].hosts /\ p \in w[b].hosts

\* conflictTransitions over the affected hosts: from view w to view x.
Crossings(affected, w, x) ==
    [p \in HostPrefixes |->
        IF p \in affected /\ MultiSourced(x, p) # MultiSourced(w, p)
        THEN IF MultiSourced(x, p) THEN 1 ELSE -1
        ELSE 0]

ViewTransitions_ThawOnly(e, v, x) ==    \* mutant: a freeze is not noticed
    {<<e, f, TRUE>> : f \in {g \in Families : Valid(x, g) /\ ~Valid(v, g)}}

\* viewTransitions(e, before): the families whose validity the fold changed.
ViewTransitions(e, v, x) ==
    {<<e, f, Valid(x, f)>> : f \in {g \in Families : Valid(x, g) # Valid(v, g)}}

NoCrossing == [p \in HostPrefixes |-> 0]
Fired(g) == crossing[g] = NoCrossing /\ (g = "tap" => flipped = {})

Init ==
    /\ view = [e \in Edges |-> Fresh]
    /\ crossing = [g \in Goroutines |-> NoCrossing]
    /\ flipped = {}
    /\ account = NoCrossing
    /\ told = [e \in Edges |-> [f \in Families |-> FALSE]]

-----------------------------------------------------------------------------
(***************************************************************************)
(* OnEvent: fold edge e's view into v and compute both kinds of notices,   *)
(* in one critical section.                                                *)
(***************************************************************************)
OnEvent(e, v, affected) ==
    /\ Fired("tap")
    /\ view' = [view EXCEPT ![e] = v]
    /\ crossing' = [crossing EXCEPT !["tap"] =
                        Crossings(affected, view, [view EXCEPT ![e] = v])]
    /\ flipped' = ViewTransitions(e, view[e], v)
    /\ UNCHANGED <<account, told>>

PeerUp_NoSnapshot(e) == OnEvent(e, FoldPeerUp(view[e]), {})     \* mutant

PeerUp(e) == OnEvent(e, FoldPeerUp(view[e]), AffectedBySession(view[e]))

PeerDown(e) == OnEvent(e, FoldPeerDown(view[e]), AffectedBySession(view[e]))

EOR(e, f) == OnEvent(e, FoldEOR(view[e], f), {})

PathUpdate(e, p, lc) ==
    OnEvent(e, FoldPathUpdate(view[e], p, lc), AffectedByPath(p, lc))

Withdrawal(e, p, lc) ==
    OnEvent(e, FoldWithdrawal(view[e], p, lc), AffectedByPath(p, lc))

(***************************************************************************)
(* ReconcileHosts(e, f, auth), past its two early returns: the view is     *)
(* settled and there is drift to repair.                                   *)
(***************************************************************************)
ReconcileHosts(e, f, auth) ==
    LET missed == Missed(view[e], f, auth)
        stale  == Stale(view[e], f, auth)
        fixed  == [view EXCEPT ![e] = Reconciled(view[e], f, auth)]
    IN  /\ Fired("audit")
        /\ Settled(view[e], f)
        /\ missed \cup stale # {}
        /\ view' = fixed
        /\ crossing' = [crossing EXCEPT !["audit"] =
                            Crossings(missed \cup stale, view, fixed)]
        /\ UNCHANGED <<flipped, account, told>>

(***************************************************************************)
(* Outside the lock: the goroutine calls onConflict for one of its notices. *)
(***************************************************************************)
FireConflict(g, p) ==
    /\ crossing[g][p] # 0
    /\ account' = [account EXCEPT ![p] = @ + crossing[g][p]]
    /\ crossing' = [crossing EXCEPT ![g] = [@ EXCEPT ![p] = 0]]
    /\ UNCHANGED <<view, flipped, told>>

(***************************************************************************)
(* After its conflict notices, the tap calls onViewChange for each flip.   *)
(***************************************************************************)
FireView(n) ==
    /\ crossing["tap"] = NoCrossing
    /\ told' = [told EXCEPT ![n[1]] = [@ EXCEPT ![n[2]] = n[3]]]
    /\ flipped' = flipped \ {n}
    /\ UNCHANGED <<view, crossing, account>>

TapNext ==
    \E e \in Edges :
        \/ PeerUp(e)
        \/ PeerDown(e)
        \/ \E f \in Families : EOR(e, f)
        \/ \E p \in Prefixes, lc \in BOOLEAN : PathUpdate(e, p, lc)
        \/ \E p \in Prefixes, lc \in BOOLEAN : Withdrawal(e, p, lc)

Next ==
    \/ TapNext
    \/ \E e \in Edges, f \in Families, auth \in SUBSET HostPrefixes :
          ReconcileHosts(e, f, auth)
    \/ \E g \in Goroutines, p \in HostPrefixes : FireConflict(g, p)
    \/ \E n \in flipped : FireView(n)

Spec == Init /\ [][Next]_vars

-----------------------------------------------------------------------------
TypeOK ==
    /\ view \in [Edges -> EdgeViewType]
    /\ crossing \in [Goroutines -> [HostPrefixes -> {-1, 0, 1}]]
    /\ flipped \in SUBSET (Edges \X Families \X BOOLEAN)
    /\ account \in [HostPrefixes -> Int]
    /\ told \in [Edges -> [Families -> BOOLEAN]]

(***************************************************************************)
(* Rule 6, no alarm lost or doubled: for every member prefix the alarms     *)
(* raised so far minus the resolutions, the notices still to be fired       *)
(* included, is 1 while two edges advertise it and 0 otherwise.  A session  *)
(* reset that drops a whole edge, a canary, a repair by the audit between   *)
(* another event's fold and its alarm: all must keep the books.             *)
(***************************************************************************)
AlarmBalance ==
    \A p \in HostPrefixes :
        account[p] + crossing["tap"][p] + crossing["audit"][p]
            = IF MultiSourced(view, p) THEN 1 ELSE 0

(***************************************************************************)
(* The freeze / thaw alarm tells the truth: what the handler last heard of  *)
(* a view, corrected by the one flip that may be in flight, is whether the  *)
(* view can be trusted for absence.                                         *)
(***************************************************************************)
ViewAlarmTrue ==
    \A e \in Edges, f \in Families :
        IF told[e][f] = Valid(view[e], f)
        THEN \A b \in BOOLEAN : <<e, f, b>> \notin flipped
        ELSE <<e, f, Valid(view[e], f)>> \in flipped
             /\ <<e, f, told[e][f]>> \notin flipped
=============================================================================
