------------------------------ MODULE EdgeView ------------------------------
(***************************************************************************)
(* The mirrored tap state of one edge (internal/guard/guard.go, edgeView)  *)
(* and the pure functions the guard computes on it.  A view is a value: the *)
(* modules that extend this one keep one view per edge and say who changes  *)
(* it and when.                                                             *)
(*                                                                          *)
(* Prefixes are opaque.  HostPrefixes are the /32 and /128 ones, the only   *)
(* ones mirrored; the others stand for the routes the mirror must ignore    *)
(* (and may be canaries).  An edge the guard has never heard of             *)
(* (g.edges[e] absent) is the edge whose view is Fresh: every query answers *)
(* the same for both.                                                       *)
(***************************************************************************)
CONSTANTS
    Families,       \* address families, model.FamilyIPv4 and model.FamilyIPv6
    Prefixes,       \* every prefix an edge may advertise
    HostPrefixes,   \* those for which model.IsHost holds
    FamilyOf,       \* the family of each prefix
    NoPrefix        \* the invalid netip.Prefix{}

ASSUME PrefixAssumption ==
    /\ HostPrefixes \subseteq Prefixes
    /\ FamilyOf \in [Prefixes -> Families]
    /\ NoPrefix \notin Prefixes

EdgeViewType ==
    [peerUp    : BOOLEAN,             \* PeerUp seen, no PeerDown since
     canaryUp  : BOOLEAN,             \* canary route present
     eor       : SUBSET Families,     \* families whose End-of-RIB was seen
     hosts     : SUBSET HostPrefixes, \* member host routes present
     canaryPfx : Prefixes \cup {NoPrefix}]  \* prefix last seen as the canary

(***************************************************************************)
(* newEdgeView, and what reset() leaves behind: nothing known.             *)
(***************************************************************************)
Fresh == [peerUp |-> FALSE, canaryUp |-> FALSE, eor |-> {}, hosts |-> {},
          canaryPfx |-> NoPrefix]

\* valid(f): peer up, canary up and the family replayed.
Valid(v, f) == v.peerUp /\ v.canaryUp /\ f \in v.eor

OfFamily(f) == {p \in HostPrefixes : FamilyOf[p] = f}

(***************************************************************************)
(* fold(e), one operator per event kind.  lc says whether the path carries *)
(* the canary large community; a BGP withdrawal normally carries none.     *)
(***************************************************************************)
FoldPeerUp(v) == [Fresh EXCEPT !.peerUp = TRUE]

FoldPeerDown(v) == Fresh

FoldEOR(v, f) == [v EXCEPT !.eor = @ \cup {f}]

FoldPathUpdate_Mirrored(v, p, lc) ==    \* mutant: a canary is mirrored, too
    [v EXCEPT !.canaryUp = @ \/ lc, !.canaryPfx = IF lc THEN p ELSE @,
              !.hosts = @ \cup {p}]

FoldPathUpdate_LiveOnly(v, p, lc) ==    \* mutant: ignores the initial dump
    IF lc THEN [v EXCEPT !.canaryUp = TRUE, !.canaryPfx = p]
    ELSE [v EXCEPT !.hosts = @ \cup {q \in {p} \cap HostPrefixes : FamilyOf[q] \in v.eor}]

FoldPathUpdate(v, p, lc) ==
    IF lc THEN [v EXCEPT !.canaryUp = TRUE, !.canaryPfx = p]
    ELSE [v EXCEPT !.hosts = @ \cup ({p} \cap HostPrefixes)]

FoldWithdrawal(v, p, lc) ==
    IF lc \/ p = v.canaryPfx THEN [v EXCEPT !.canaryUp = FALSE]
    ELSE [v EXCEPT !.hosts = @ \ {p}]

(***************************************************************************)
(* affectedHosts(e): the hosts whose set of sources the event may change.  *)
(***************************************************************************)
AffectedByPath(p, lc) == IF lc THEN {} ELSE {p} \cap HostPrefixes
AffectedBySession(v) == v.hosts

(***************************************************************************)
(* ReconcileHosts on one family: the drift found and the corrected view.    *)
(* auth is the host set the audit took for authoritative.  Settled is the   *)
(* early return: a view that is down or still replaying is left alone.      *)
(***************************************************************************)
Settled(v, f) == v.peerUp /\ f \in v.eor
Missed(v, f, auth) == (auth \cap OfFamily(f)) \ v.hosts
Stale(v, f, auth) == (v.hosts \cap OfFamily(f)) \ auth
Reconciled_AddOnly(v, f, auth) ==    \* mutant: leaves what is stale
    [v EXCEPT !.hosts = @ \cup Missed(v, f, auth)]

Reconciled(v, f, auth) ==
    [v EXCEPT !.hosts = (@ \cup Missed(v, f, auth)) \ Stale(v, f, auth)]

(***************************************************************************)
(* The anchor-gating answer: absent, and the view is to be trusted.         *)
(***************************************************************************)
ShouldWithdraw(v, p) == Valid(v, FamilyOf[p]) /\ p \notin v.hosts
=============================================================================
