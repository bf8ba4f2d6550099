---------------------------- MODULE ReportUplink ----------------------------
(***************************************************************************)
(* The uplink (internal/coverer: TapHandler, ReconcileTapView, the report   *)
(* helpers of coverer.go): what the server is told of the edges, against     *)
(* what the guard's view of them says.                                      *)
(*                                                                          *)
(*   the tap goroutine   folds one RIB event into the view, decides what to *)
(*                       report and sends it, report by report;             *)
(*   an EOR goroutine    per End-of-RIB, and the audit after a repair, read *)
(*                       the hosts of a view and then send them, a chunk at  *)
(*                       a time: emitters, each on its own.                 *)
(*                                                                          *)
(* All meet in reportClient.Send, one critical section per report; a report *)
(* whose Send fails, or that a dying transport swallows, is lost.  The      *)
(* server (external) is the book it keeps if it takes each report at its    *)
(* word: its last votes, and the hosts it places at each edge.  A report     *)
(* names an edge, hosts and a direction: nothing in it tells a snapshot from *)
(* an announcement, so no report takes away a host it does not name.        *)
(***************************************************************************)
EXTENDS EdgeView, Naturals, Sequences

CONSTANTS
    Edges,
    CanaryPrefixes,  \* announced with the canary large community
    EorGoroutines    \* emitters for End-of-RIBs that may be under way (bound)

ASSUME UplinkAssumption ==
    /\ CanaryPrefixes \subseteq Prefixes
    /\ {"audit", "tap"} \cap EorGoroutines = {}

Emitters == EorGoroutines \cup {"audit"}
Goroutines == Emitters \cup {"tap"}

VARIABLES
    established, \* the producer's: edges whose PeerUp it sent, and no PeerDown since
    view,        \* the guard's
    canarySeen,  \* Coverer.canarySeen: edge and prefix of each canary heard of
    tap,         \* the tap goroutine: the event folded and not judged yet, or
                 \* the reports it has still to send
    emitter,     \* emitEORSnapshot in progress, per goroutine
    vote,        \* server: last hard and soft vote for each edge
    homed,       \* server: the hosts it places at each edge
    ahead,       \* history, per goroutine with a member report to send: the others
                 \* that decided upon one for its edge before, and have yet to send it
    told,        \* history, per edge: the hosts that a report was decided upon for
                 \* since its view was last unsettled, or repaired there
    flaw         \* history, per edge: what happened to its reports

vars == <<established, view, canarySeen, tap, emitter, vote, homed, ahead, told, flaw>>
server == <<vote, homed>>

NoEvent == [kind |-> "none"]
Resting == [event |-> NoEvent, out |-> <<>>]
Done == [pc |-> "done"]

DeathVote(e, down, soft) == [kind |-> "DEATH_VOTE", edge |-> e, down |-> down, soft |-> soft]
MemberEdge(e, hosts, down) ==
    [kind |-> "MEMBER_EDGE", edge |-> e, members |-> hosts, down |-> down]

Init ==
    /\ established = {}
    /\ view = [e \in Edges |-> Fresh]
    /\ canarySeen = {}
    /\ tap = Resting
    /\ emitter = [x \in Emitters |-> Done]
    /\ vote = [e \in Edges |-> [hard |-> "none", soft |-> "none"]]
    /\ homed = [e \in Edges |-> {}]
    /\ ahead = [x \in Goroutines |-> {}]
    /\ told = [e \in Edges |-> {}]
    /\ flaw = [e \in Edges |-> {}]

-----------------------------------------------------------------------------
(***************************************************************************)
(* c.guard.OnEvent(e), the first thing the handler does.  An edge's events   *)
(* come in any order: the PeerUp of a session may have been dropped, its    *)
(* address being unknown yet, and its paths and its canary be folded all the *)
(* same; the watch may have lost those of single paths.  Only PeerUp and     *)
(* PeerDown alternate, by the producer's map.                               *)
(***************************************************************************)
Folded(e, v, ev) ==
    /\ tap = Resting
    /\ view' = [view EXCEPT ![e] = v]
    /\ tap' = [tap EXCEPT !.event = ev]
    /\ told' = [told EXCEPT ![e] = {p \in @ : Settled(v, FamilyOf[p])}]
    /\ UNCHANGED <<canarySeen, emitter, server, ahead>>

\* Nothing is reported.  A session starts over with what is true of its hosts, and
\* so does the history; but if the guard still remembers the canary of the one
\* before, nobody heard of that one's end.
PeerUp(e) ==
    /\ e \notin established
    /\ established' = established \cup {e}
    /\ Folded(e, FoldPeerUp(view[e]), NoEvent)
    /\ flaw' = [flaw EXCEPT ![e] = (@ \cap {"vote_lost", "unended"})
                  \cup IF view[e].canaryPfx = NoPrefix THEN {} ELSE {"unended"}]

PeerDown(e) ==
    /\ e \in established
    /\ established' = established \ {e}
    /\ Folded(e, FoldPeerDown(view[e]), [kind |-> "PeerDown", edge |-> e])
    /\ flaw' = [flaw EXCEPT ![e] = @ \ {"vote_lost", "unended"}]

EOR(e, f) ==
    /\ Folded(e, FoldEOR(view[e], f), [kind |-> "EOR", edge |-> e, family |-> f])
    /\ UNCHANGED <<established, flaw>>

\* A canary casts both votes anew.
PathUpdate(e, p) ==
    /\ Folded(e, FoldPathUpdate(view[e], p, p \in CanaryPrefixes),
              [kind |-> "PathUpdate", edge |-> e, prefix |-> p])
    /\ flaw' = IF p \in CanaryPrefixes
               THEN [flaw EXCEPT ![e] = @ \ {"vote_lost", "unended"}] ELSE flaw
    /\ UNCHANGED established

Withdrawal(e, p) ==     \* without attributes
    /\ Folded(e, FoldWithdrawal(view[e], p, FALSE),
              [kind |-> "Withdrawal", edge |-> e, prefix |-> p])
    /\ UNCHANGED <<established, flaw>>

-----------------------------------------------------------------------------
(***************************************************************************)
(* The switch of the handler.  It asks the guard again, after the audit may *)
(* have repaired the view it has just folded.  (Only the tap makes a view    *)
(* valid or invalid: ViewValid and the question after it are one step.)     *)
(***************************************************************************)
Judging(kind) == tap.event.kind = kind

\* History: goroutine x has a member report for e to send; by decides upon one.
Holds(x, e) ==
    \/ x = "tap" /\ tap.out # <<>> /\ Head(tap.out).kind = "MEMBER_EDGE" /\ Head(tap.out).edge = e
    \/ x \in Emitters /\ emitter[x].pc = "send" /\ emitter[x].report.edge = e

Decide(by, e, hosts) ==
    /\ ahead' = [ahead EXCEPT ![by] = {x \in Goroutines : Holds(x, e)}]
    /\ told' = [told EXCEPT ![e] = @ \cup hosts]

ReportVotes(votes) ==
    /\ tap' = [event |-> NoEvent, out |-> votes]
    /\ UNCHANGED <<established, ahead, told>>

ReportMember(e, p, down, so) ==
    /\ tap' = [event |-> NoEvent, out |-> IF so THEN <<MemberEdge(e, {p}, down)>> ELSE <<>>]
    /\ IF so THEN Decide("tap", e, {p}) ELSE UNCHANGED <<ahead, told>>
    /\ UNCHANGED established

Member(p) == p \in HostPrefixes
Trusted(e, p) == Valid(view[e], FamilyOf[p])     \* viewReplayed

\* History: a change of the settled view that is gated out and so not reported.
Gated(e, p) ==
    flaw' = IF Settled(view[e], FamilyOf[p]) THEN [flaw EXCEPT ![e] = @ \cup {"gated"}]
            ELSE flaw

JudgePeerDown ==
    /\ Judging("PeerDown")
    /\ ReportVotes(<<DeathVote(tap.event.edge, TRUE, FALSE)>>)
    /\ UNCHANGED <<view, canarySeen, emitter, server, flaw>>

CanaryWithdrawn ==      \* forgetCanary says so
    LET e == tap.event.edge  p == tap.event.prefix
    IN  /\ Judging("Withdrawal") /\ <<e, p>> \in canarySeen
        /\ canarySeen' = canarySeen \ {<<e, p>>}
        /\ ReportVotes(<<DeathVote(e, TRUE, TRUE)>>)
        /\ UNCHANGED <<view, emitter, server, flaw>>

HostWithdrawn ==
    LET e == tap.event.edge  p == tap.event.prefix
    IN  /\ Judging("Withdrawal") /\ <<e, p>> \notin canarySeen
        /\ ReportMember(e, p, TRUE, Member(p) /\ ShouldWithdraw(view[e], p))
        /\ IF Member(p) /\ ~Trusted(e, p) THEN Gated(e, p) ELSE UNCHANGED flaw
        /\ UNCHANGED <<view, canarySeen, emitter, server>>

CanaryAnnounced_SoftOnly ==     \* mutant: leaves the hard vote standing
    LET e == tap.event.edge  p == tap.event.prefix
    IN  /\ Judging("PathUpdate") /\ p \in CanaryPrefixes
        /\ canarySeen' = canarySeen \cup {<<e, p>>}
        /\ ReportVotes(<<DeathVote(e, FALSE, TRUE)>>)
        /\ UNCHANGED <<view, emitter, server, flaw>>

CanaryAnnounced_Any ==      \* mutant: takes every path for a canary
    LET e == tap.event.edge  p == tap.event.prefix
    IN  /\ Judging("PathUpdate")
        /\ canarySeen' = canarySeen \cup {<<e, p>>}
        /\ ReportVotes(<<DeathVote(e, FALSE, TRUE), DeathVote(e, FALSE, FALSE)>>)
        /\ UNCHANGED <<view, emitter, server, flaw>>

CanaryAnnounced ==
    LET e == tap.event.edge  p == tap.event.prefix
    IN  /\ Judging("PathUpdate") /\ p \in CanaryPrefixes
        /\ canarySeen' = canarySeen \cup {<<e, p>>}
        /\ ReportVotes(<<DeathVote(e, FALSE, TRUE), DeathVote(e, FALSE, FALSE)>>)
        /\ UNCHANGED <<view, emitter, server, flaw>>

HostAnnounced_NoHasHost ==      \* mutant: does not look whether it is still there
    LET e == tap.event.edge  p == tap.event.prefix
    IN  /\ Judging("PathUpdate") /\ p \notin CanaryPrefixes
        /\ ReportMember(e, p, FALSE, Member(p) /\ Trusted(e, p))
        /\ IF Member(p) /\ ~Trusted(e, p) THEN Gated(e, p) ELSE UNCHANGED flaw
        /\ UNCHANGED <<view, canarySeen, emitter, server>>

HostAnnounced ==
    LET e == tap.event.edge  p == tap.event.prefix
    IN  /\ Judging("PathUpdate") /\ p \notin CanaryPrefixes
        /\ ReportMember(e, p, FALSE, Member(p) /\ Trusted(e, p) /\ p \in view[e].hosts)
        /\ IF Member(p) /\ ~Trusted(e, p) THEN Gated(e, p) ELSE UNCHANGED flaw
        /\ UNCHANGED <<view, canarySeen, emitter, server>>

Emit(x, e, f) == emitter' = [emitter EXCEPT ![x] = [pc |-> "read", edge |-> e, family |-> f]]

SpawnSnapshot ==        \* go c.emitEORSnapshot
    /\ Judging("EOR")
    /\ \E x \in EorGoroutines :
          emitter[x] = Done /\ Emit(x, tap.event.edge, tap.event.family)
    /\ ReportVotes(<<>>)
    /\ UNCHANGED <<view, canarySeen, server, flaw>>

-----------------------------------------------------------------------------
(***************************************************************************)
(* ReconcileTapView for one edge and family.  The snapshot it pulled may be *)
(* older or newer than what the tap has folded: auth is any set of hosts but *)
(* canaries.  An unsettled view or one without drift is left alone.         *)
(***************************************************************************)
AuditRepair(e, f, auth) ==
    /\ emitter["audit"] = Done
    /\ Settled(view[e], f)
    /\ Missed(view[e], f, auth) \cup Stale(view[e], f, auth) # {}
    /\ view' = [view EXCEPT ![e] = Reconciled(@, f, auth)]
    /\ told' = [told EXCEPT ![e] =
                  @ \ (Missed(view[e], f, auth) \cup Stale(view[e], f, auth))]
    /\ Emit("audit", e, f)
    /\ UNCHANGED <<established, canarySeen, tap, server, ahead, flaw>>

\* emitEORSnapshot: HostsByFamily, and then reportMemberEdge.
ReadHosts(x) ==
    /\ emitter[x].pc = "read"
    /\ LET e == emitter[x].edge
           hosts == view[e].hosts \cap OfFamily(emitter[x].family)
       IN  /\ emitter' = [emitter EXCEPT ![x] =
                             [pc |-> "send", report |-> MemberEdge(e, hosts, FALSE)]]
           /\ Decide(x, e, hosts)
    /\ UNCHANGED <<established, view, canarySeen, tap, server, flaw>>

-----------------------------------------------------------------------------
(***************************************************************************)
(* reportClient.Send, by the tap or by an emitter.  It reaches the server,  *)
(* or is lost.                                                              *)
(***************************************************************************)
\* History: r leaves behind a report about one of its hosts decided upon first.
Carried(x) == IF x = "tap" THEN Head(tap.out).members ELSE emitter[x].report.members

Overtakes(r, by) ==
    flaw' = IF r.kind = "MEMBER_EDGE" /\ \E x \in ahead[by] : Carried(x) \cap r.members # {}
            THEN [flaw EXCEPT ![r.edge] = @ \cup {"overtaken"}] ELSE flaw

Deliver(r) ==
    IF r.kind = "DEATH_VOTE"
    THEN /\ vote' = [vote EXCEPT ![r.edge] =
                        IF r.soft THEN [@ EXCEPT !.soft = IF r.down THEN "down" ELSE "up"]
                        ELSE [@ EXCEPT !.hard = IF r.down THEN "down" ELSE "up"]]
         /\ UNCHANGED homed
    ELSE /\ homed' = [homed EXCEPT ![r.edge] = IF r.down THEN @ \ r.members ELSE @ \cup r.members]
         /\ UNCHANGED vote

Lose(r) ==
    /\ flaw' = [flaw EXCEPT ![r.edge] =
                  @ \cup {IF r.kind = "DEATH_VOTE" THEN "vote_lost" ELSE "member_lost"}]
    /\ UNCHANGED server

Send(r, by) == (Deliver(r) /\ Overtakes(r, by)) \/ Lose(r)

\* History: by has nothing more to send of what it decided upon.
Through(by) == ahead' = [x \in Goroutines |-> IF x = by THEN {} ELSE ahead[x] \ {by}]

TapSends ==
    /\ tap.out # <<>>
    /\ Send(Head(tap.out), "tap") /\ Through("tap")
    /\ tap' = [tap EXCEPT !.out = Tail(@)]
    /\ UNCHANGED <<established, view, canarySeen, emitter, told>>

(***************************************************************************)
(* memberEdgeChunk hosts at a time, in the order they came out of a map: any *)
(* part of them here.  A family without hosts is one report of none.        *)
(***************************************************************************)
EmitterSends(x) ==
    /\ emitter[x].pc = "send"
    /\ \E chunk \in SUBSET emitter[x].report.members :
          LET r == emitter[x].report  rest == r.members \ chunk
          IN  /\ chunk = {} => r.members = {}
              /\ Send([r EXCEPT !.members = chunk], x)
              /\ IF rest = {} THEN emitter' = [emitter EXCEPT ![x] = Done] /\ Through(x)
                 ELSE emitter' = [emitter EXCEPT ![x].report.members = rest] /\ UNCHANGED ahead
    /\ UNCHANGED <<established, view, canarySeen, tap, told>>

-----------------------------------------------------------------------------
TapEvent(e) ==
    \/ PeerUp(e) \/ PeerDown(e)
    \/ \E f \in Families : EOR(e, f)
    \/ \E p \in Prefixes : PathUpdate(e, p)
    \/ \E p \in Prefixes : Withdrawal(e, p)

TapHandler ==
    \/ JudgePeerDown
    \/ CanaryWithdrawn \/ HostWithdrawn
    \/ CanaryAnnounced \/ HostAnnounced
    \/ SpawnSnapshot
    \/ TapSends

Next ==
    \/ \E e \in Edges : TapEvent(e)
    \/ TapHandler
    \/ \E e \in Edges, f \in Families, auth \in SUBSET (HostPrefixes \ CanaryPrefixes) : AuditRepair(e, f, auth)
    \/ \E x \in Emitters : ReadHosts(x)
    \/ \E x \in Emitters : EmitterSends(x)

Spec == Init /\ [][Next]_vars

-----------------------------------------------------------------------------
VoteReport == [kind : {"DEATH_VOTE"}, edge : Edges, down : BOOLEAN, soft : BOOLEAN]
MemberReport == [kind : {"MEMBER_EDGE"}, edge : Edges, members : SUBSET HostPrefixes,
                 down : BOOLEAN]
EventType ==
    {NoEvent} \cup [kind : {"PeerDown"}, edge : Edges]
    \cup [kind : {"EOR"}, edge : Edges, family : Families]
    \cup [kind : {"PathUpdate", "Withdrawal"}, edge : Edges, prefix : Prefixes]
EmitterType ==
    {Done} \cup [pc : {"read"}, edge : Edges, family : Families]
    \cup [pc : {"send"}, report : MemberReport]
Word == {"none", "up", "down"}
Flaws == {"vote_lost", "unended", "member_lost", "gated", "overtaken"}

(***************************************************************************)
(* The types; what the tap still has to judge or send is of one event.      *)
(***************************************************************************)
TypeOK ==
    /\ established \subseteq Edges
    /\ view \in [Edges -> EdgeViewType]
    /\ canarySeen \subseteq Edges \X CanaryPrefixes
    /\ tap \in [event : EventType, out : Seq(VoteReport \cup MemberReport)]
    /\ tap.event # NoEvent => tap.out = <<>>
    /\ emitter \in [Emitters -> EmitterType]
    /\ ahead \in [Goroutines -> SUBSET Goroutines]
    /\ vote \in [Edges -> [hard : Word, soft : Word]]
    /\ homed \in [Edges -> SUBSET HostPrefixes]
    /\ told \in [Edges -> SUBSET HostPrefixes]
    /\ flaw \in [Edges -> SUBSET Flaws]

(***************************************************************************)
(* "So guard + canary state stay consistent with the event stream"           *)
(* (taphandler.go:36): the two votes the server holds say alive exactly when *)
(* the guard's view of the edge has its canary, and never that its session   *)
(* lives when none has shown a canary since the last one ended.  Unless, since *)
(* both votes were last cast or a death was, a vote was lost, or a session   *)
(* began whose predecessor had shown its canary and ended unheard.          *)
(***************************************************************************)
VotesMatchView ==
    \A e \in Edges : tap = Resting /\ flaw[e] \cap {"vote_lost", "unended"} = {} =>
        /\ view[e].canaryUp <=> vote[e] = [hard |-> "up", soft |-> "up"]
        /\ view[e].canaryPfx = NoPrefix => vote[e].hard # "up"

(***************************************************************************)
(* With nothing under way for the edge, the server places at it all hosts of *)
(* the trusted view, replayed, announced or repaired; and of the hosts it was *)
(* told of, no other.  (What left the view without a goodbye, with a session *)
(* or by an audit's repair, is among those it was told of no longer.)       *)
(***************************************************************************)
Quiet(e) ==
    /\ tap = Resting
    /\ \A x \in Emitters : emitter[x].pc = "read" => emitter[x].edge # e
    /\ \A x \in Goroutines : ~Holds(x, e)

InStep(e) ==
    \A f \in Families :
        Quiet(e) /\ Valid(view[e], f) =>
            homed[e] \cap told[e] \cap OfFamily(f) = view[e].hosts \cap OfFamily(f)

(***************************************************************************)
(* InStep, unless since the session began a member report was lost, one     *)
(* overtook another about the same host decided upon before it, or a change  *)
(* came while the view was frozen.                                          *)
(***************************************************************************)
MembersMatchView ==
    \A e \in Edges : flaw[e] \cap {"member_lost", "gated", "overtaken"} = {} => InStep(e)

(***************************************************************************)
(* taphandler.go:14-17 has host changes routed up, "none dropped", and        *)
(* coverer.go:202 has "the post-EOR reconcile" apply what was suppressed: so *)
(* a change that came while the canary was away is known when it is back.   *)
(***************************************************************************)
ThawedMatchView ==
    \A e \in Edges : flaw[e] \cap {"member_lost", "overtaken"} = {} => InStep(e)
=============================================================================
