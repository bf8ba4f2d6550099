# sbw-coverer: TLA+ models, checks and proofs

The coverer sits between a central server and the agents on the edges. It taps
the edges' BGP sessions with an embedded GoBGP and mirrors their member host
routes (to say when a route is really gone), it reports what it sees up to the
server, and it relays the server's desired state down to the agents. It persists
nothing: after a restart everything is replayed to it. What is hard in it is
concurrency and order, and that is what is modelled here.

Paths below are relative to `src/`.

## Inventory

| Component | State | Operations | Correct when |
|---|---|---|---|
| **RIB-survival guard** `internal/guard/guard.go` | per edge: `peerUp`, `canaryUp`, `eor`, `hosts`, `canaryPfx`, under one mutex | `OnEvent` (fold of five event kinds), `ReconcileHosts`, `ShouldWithdraw`, `HasHost` | absence is only ever claimed of a view that is current, complete and equal to the adj-in; freeze/thaw notices tell the truth |
| **Unique-advertisement alarm** `internal/guard/conflict.go` | none of its own | notices computed in the lock, fired after it | every crossing between one and several sources is alarmed exactly once |
| **Tap server, sink, producer** `internal/ribtap` | `Server.peers`, `Producer.Run`'s `established`; GoBGP's peers, sessions, table and watch queue | `AddPeer`, `RemovePeer`, `Ensure`, `peerEvent`, `pathEvent`, `eorEvent`, `Snapshot` | one PeerUp per session before its replay, one PeerDown after it |
| **Adj-in audit** `internal/coverer/taphandler.go` | the snapshot in use | `ReconcileTapView` every 60 s | drift of the mirror is repaired and never introduced for good |
| **Tap handler** `taphandler.go`, `coverer.go` | `canarySeen` | `TapHandler`, `emitEORSnapshot` | the server's votes and member sets agree with the guard's view |
| **Report client** `reportclient.go` | the shared report stream | `Send` | the stream comes back after every failure; reports are lost whole |
| **Downlink** `internal/grpcsrv/server.go` | per subscription: channel, byte count, `pending`, `needResync`, `wake`, `drain`, `done` | `Subscribe` and its send loop, `push` | an agent ends up with the newest state; memory is bounded; nobody blocks for ever; nothing is closed twice |
| **Subscribe and resync hooks** `coverer.go` | a goroutine per ask | `onSubscribe`, `onResync` | an agent that lacks state is always asked for |
| **Watch consumer** `internal/coverer/watchclient.go` | map of edge workers, each with its queue; `fails`, `backoff` | `dispatch`, `runWorker`, `relayDirective`, reconnect | per-edge order, nothing dropped that is not superseded, one slow agent slows nobody else |
| **Server connection** `serverconn.go` | current `ClientConn` | `redial`, `Recreate` | a wedged connection is replaced after the threshold, and everything on it comes back |
| Register and Report relays, configuration, metrics, start and shutdown | none worth the name | | |

Goroutines: the *tap* goroutine (GoBGP's watch callbacks, one at a time), the
*audit* ticker, the *watch* goroutine with one *worker* per active edge, one
*send loop* per subscribed agent, and gRPC handler goroutines. The tap and the
audit share the guard; the watch goroutine changes coverage under the tap's feet;
workers push into subscriptions that their send loops and re-subscribes take
away. `PROJECT.json` lists the hazards line by line.

## Modules

| Module | Models | Extends |
|---|---|---|
| `EdgeView` | the view of one edge as a value: `fold`, `valid`, `affectedHosts`, `ReconcileHosts`, `ShouldWithdraw` as operators | |
| `RibGuard` | the guard: any event at any time from the tap, any repair from the audit, notices fired after the lock | `EdgeView` |
| `RibGuardProofs` | its theorems | `RibGuard`, `TLAPS` |
| `RibTap` | where events come from: coverage changes, GoBGP's sessions and watch, producer, guard views and audit together | `EdgeView` |
| `RibTapProofs` | its theorems | `RibTap`, `TLAPS` |
| `ReportUplink` | what becomes of events: the tap handler, the EOR and audit snapshots, reports sent or lost, and the server's book of them | `EdgeView` |
| `ReportUplinkProofs` | its theorems | `ReportUplink`, `TLAPS` |
| `Downlink` | abstract: what the downlink to one agent promises | |
| `AgentPush` | one agent's downlink as coded, over its successive subscriptions; `ImplementsDownlink` is its refinement of `Downlink` | |
| `AgentPushProofs`, `AgentPushRefines` | its invariants; the refinement | `AgentPush`, `TLAPS` |
| `WatchRelay` | Watch stream, dispatch and edge workers over successive connections | |
| `WatchRelayProofs` | its theorems | `WatchRelay`, `TLAPS` |
| `ServerLink` | the connection to the server: Watch loop, failure count, `Recreate`, Report stream, pods and DNS | |
| `ServerLinkProofs` | its theorem | `ServerLink`, `TLAPS` |
| `AgentSync` | one agent end to end: link, relay, downlink, hooks, an abstract server and agent | `ServerLink`, `Downlink` |
| `AgentSyncProofs` | its theorems, and that it is composed of the link and the downlink | `AgentSync`, `ServerLinkProofs` |
| `MC*` | model values, the sets of directives, symmetry | the module named |

The parts compose along the two directions of traffic. Upward, `RibTap` shows which
events reach the guard, `RibGuard` what it makes of them and `ReportUplink` what the
server learns; the last takes the events of an edge in any order, as a PeerUp dropped
by the producer or a path lost by the watch leaves them. Downward,
`AgentSync` joins the link, the relay and the downlink; it uses `Downlink` in place of
`AgentPush`, which `AgentPush` has been proved to implement, and a queue per Watch
connection in place of `WatchRelay`'s workers (one edge, so one worker each).

How state and actions correspond to the code:

- **EdgeView.** A view is a record of the five fields of `edgeView`. An edge that
  `g.edges` lacks is the edge whose view is `Fresh`: every query and early return
  answers alike. Prefixes are opaque; `HostPrefixes` are those of which
  `model.IsHost` holds, the only ones mirrored. `LargeCommunities` is the one bit
  the guard asks of it, "carries the canary community".
- **RibGuard.** `OnEvent` is one critical section that folds and computes both
  lists of notices, kept in `crossing[g]` and `flipped` until `FireConflict` and
  `FireView` call the handlers. The conflict notices of one critical section are
  fired in any order (the code ranges over a map on a session reset and in the
  audit), all of them before the view notices. `account` and
  `told` are the handlers' books: what a listener that counts alarms knows.
- **RibTap.** `sink` is `Ensure` in progress: edges left to add and to remove, and
  the edge between the two calls inside `AddPeer` (GoBGP, then `registerEdge`) or
  `RemovePeer` (GoBGP, then `delete(s.peers)`). `SkipEdge` is an unresolved edge or
  a failing call. `DeliverState` is `peerEvent` with its `established` map;
  `DropUnknown` is the `EdgeFor` miss of all three callbacks. `audit` is
  `ReconcileTapView` in progress: the covered edges captured once, a snapshot per
  family, each edge reconciled in a step of its own while the tap goes on folding.
  Notices are left to `RibGuard`. GoBGP is external: it is modelled from the options
  `src/` passes it (`current=true`, EOR, peer events, AddPath receive).
- **AgentPush.** One copy of `sub` per subscription; a superseded loop and pushes
  that hold the old `sub` go on beside the new one. A step is one atomic load or
  add, one channel operation or one critical section, so the window between
  `queuedBytes.Load`, the channel send and `queuedBytes.Add` is there. Both
  `pmu` sections are atomic. `hand` is the directive between `<-ch` and the debit.
  A chunk's two loads in its loop condition are two steps. The loop's select is one
  action per case: `StreamDies` (`ctx.Done`), `SelectSuperseded` (`done`),
  `SelectReceive`, `SelectWake`. FAILOVER and URGENT take the path of REHOME.
- **WatchRelay.** `sent` is the history of what the server sent, directives are
  indices of it. `dispatch` is two steps, as in the code: the append under both
  locks, then the wake token. The idle timer may fire whenever a worker is in its
  select. A worker's context is `Cancelled` once its connection dropped. A
  `Push*` call is one step that may be delayed for ever on a `Wedged` edge, as
  a chunk of `AgentPush` may be.
- **ReportUplink.** `established` is the producer's map, and the only thing that orders
  an edge's events: PeerUp and PeerDown alternate by it, while paths, withdrawals and
  End-of-RIBs come whenever they like. Neither the guard nor `TapHandler` looks whether
  a session is up, and a session whose PeerUp was dropped (its address not registered
  yet) has none on record: its paths and canary are folded and reported all the same,
  and its end is not. `tap` is the tap goroutine inside `TapHandler`: the event it has
  folded and not judged, or the reports it has still to send; the audit may repair the
  view in between, which is why the handler asks the guard again. `emitter` is an
  `emitEORSnapshot` in progress, between reading the hosts and sending the last of
  them; `EmitterSends` sends any part of what is left, which is `memberEdgeChunk` hosts
  in map order with the number abstracted. A report arrives or is lost, in one step
  (`rc.mu`). `vote` and `homed` are the book of a server that takes each report at its
  word: a report has an edge, hosts and a direction, nothing marks a snapshot, so none
  removes a host it does not name. (taphandler.go:79-83 has the server replace the set of
  the family; how it would know is outside of `src/`.) `ahead`, `told` and `flaw` are
  history. `ahead`: for each member report to be sent, which others for its edge were
  decided upon before it and still wait. `told`: the hosts a report was decided upon
  for, less those whose session ended or that the audit repaired, about whose leaving
  nothing is ever sent. `flaw`: what went wrong with an edge's reports: a vote lost, a
  session with a canary that ended unheard (`unended`), a member report lost, a change
  gated out of a frozen view, a report that overtook an earlier one about the same host.
- **Downlink.** A directive offered to a stream is queued, stashed as the newest of its
  kind, replaced by a snapshot owed, or refused by a stream that is over. The
  refinement mapping hides counters, tokens and places: `queue` is `ch`, `owed` is
  `needResync`, `over` are the streams whose `done` was closed, and a push is
  settled as soon as its directive is in the channel or set aside.
- **ServerLink.** `conn` is the pod the `ClientConn` has resolved, `dns` what the name
  resolves to and `pod` the one that runs. A connection to another pod refuses
  Watch or opens one that stays silent; `Failed` counts both and calls `Recreate` at
  the threshold. `rstream` is `reportClient.stream` with what is known of it: a dead
  stream swallows reports until keepalive breaks it.
- **AgentSync.** A relay worker pushes for the Watch connection it belongs to;
  directives are generations, a delta applying to the one right before it. Every
  subscribe and every resync is an ask of its own goroutine. `flaw` is history: an ask
  that was lost, or a delta sent ahead of the stashed snapshot before it, until the
  server sends a full snapshot again.

## Runs

Names as in `PROJECT.json`. All finish within a few minutes with two workers.

| Run | Question | Bounds, and why they do |
|---|---|---|
| `guard` | are the alarm books right under every interleaving of tap and audit? | 3 edges (0 to 3 sources), 1 host, 1 non-host prefix that may be a canary, 1 family; no bound on events: the state space is finite. The theorems cover every size |
| `tap_view` | is a trusted view current, and equal to the adj-in, through sessions, replays and coverage changes? | 2 edges, 3 sessions, 3 route changes, 2 coverage changes, 3 events in flight: a reconnect with leftovers of the previous session on one edge while the other changes |
| `tap_repair` | does the audit end all drift? | 1 edge, 2 next hops, 2 sessions, 3 changes of which 2 may be lost, stale snapshots; liveness |
| `push` | is every step one the abstract downlink allows; is a wake-up ever lost; does the byte cap hold? | 2 pushers, a snapshot, a delta and a chunk, channel of 3, cap of 3 bytes with a 2-byte chunk: either bound may be reached first, and the bound claimed is below what the channel could hold. Several kinds pending at once, and more pushers, are left to the theorems |
| `push_live` | is done closed once; does every chunk get through or hear of the end; does a dropped delta lead to a resync? | 1 pusher, 2 subscriptions (supersede, cleanup, send error), channel of 1, everything over budget; liveness under a fairness that ends no stream |
| `relay` | per-edge order, nothing dropped, the healthy edge served, no worker left behind | 2 edges, one of whose agents may take nothing, 3 directives of 3 kinds, 1 connection and its drop: a reap, a new worker, an orphan with a backlog |
| `uplink` | do the server's votes and members agree with the view? | 1 edge (edges share nothing but the report stream), 2 members, so that a snapshot may go up in two chunks, 1 canary, the tap, 1 EOR goroutine and the audit (two emitters, which run the same code); no bound on events or losses, but an edge is followed only up to its second kind of flaw (`OneFlaw`): the properties exempt by kind, and a flaw that hides another is not of interest. The theorems have neither bound |
| `link` | do Watch and Report stream come back? | threshold 5 as coded, 3 pods, 2 failures of a good connection: a second pod lost during recovery from the first, a Recreate before DNS follows |
| `sync` | does an agent have the newest state when nothing is on its way, and does it get there? | 2 generations, 2 subscriptions, 2 Watch connections (1 pod, 1 failure), every loss, race and overflow; threshold 1, as the count is `link`'s question |

`CHECK_DEADLOCK FALSE` stands where an environment budget (sessions, changes,
directives, subscriptions, pods) may be used up, after which the system rightly rests.
`guard` and `uplink` have no budget and check deadlock. Symmetry is used in safety
runs only, and the state constraint `OneFlaw` only in `uplink`.

Each passing property has a mutant (operators named `Definition_WhatIsWrong`
beside the definition) under which the same run finds it violated.

### Disagreements with the code's own comments

Three runs expect a violation; each quotes the text in `PROJECT.json`.

- `tap_multipath`: the guard keys hosts by prefix; with AddPath, withdrawing one of
  two paths makes a present route look absent until the next audit.
- `tap_recover`: an edge uncovered and covered again can keep the view of its
  earlier session, still trusted, because its PeerDown was dropped together with
  its address and its next PeerUp is swallowed.
- `uplink_frozen`: a host that changes while the canary is withdrawn is not reported,
  and nothing reports it when the canary is back; the audit sees no drift.

`TrustIsCurrent`, `MirrorFaithful` and `DriftRepaired` are therefore stated of
edges that were never uncovered (`uncovered` is history), and `MirrorFaithful`
is run with one path per prefix. Smaller ones that no run is spent on are
listed as hazards: a lost canary event is never repaired; a pending REHOME has
generation 0 and is passed over for as long as newer states keep being
stashed; without a configured canary a hard death vote is never cleared; a lost ask
for a snapshot is not repeated; a delta may overtake the stashed snapshot before it.

The last two are exempted by name from `QuietInSync` and `Converges`, as are lost,
gated and overtaken reports and sessions that ended unheard from the properties of
`ReportUplink`: without the exemption each of these properties is violated, and with it
they say that nothing *else* goes wrong. `AgentSync`'s "overtaken" is wider than the case
that harms: it exempts every delta sent while something is pending, also when the
snapshot there was pushed after the delta.

## Fairness

- `RibTap!FairSpec`: the tap goroutine takes what is queued (WF); the ticker
  fires (WF); a round that ListPath now and then fails (`AuditFails`) still gets
  its snapshot if it is tried again and again (SF), the ticker retrying for ever;
  each covered edge of a round is reconciled (WF). Nothing is assumed of the
  edges, of sessions or of the server.
- `AgentPush!FairSpec`: goroutines run (WF on a loop, on a push in progress).
  Go's `select` picks at random among ready cases and channel waiters queue, so a
  case that is ready again and again is taken (SF on receiving, on the wake case,
  on a chunk's drain and send). `stream.Send` returns, as keepalive breaks a dead
  transport. `StreamDies` is the environment's and has no fairness: an idle loop may sit
  in its select for ever, and a chunk or a dropped delta is helped only by the drain and
  wake tokens (the mutants that drop a token are caught by `ChunkUnblocked` and
  `DroppedDeltaResyncs`). No agent needs to subscribe, no worker to push.
- `WatchRelay!FairSpec`: the consumer and the workers run (WF); a push to an edge
  outside `Wedged` returns, which `ChunkUnblocked` shows for one pusher per edge.
- `ServerLink!LinkFairSpec`: the Watch loop never gives up (WF: it sleeps, opens and
  counts for ever), keepalive breaks a dead stream (WF), DNS comes to name the running
  pod and that pod feeds a Watch (WF). Pods and good connections fail a bounded
  number of times. `ReportsHeal` is conditional on reports that keep coming: nothing
  else makes `Send` find out.
- `AgentSync!FairSpec`: that of the link, and every goroutine runs (WF): asks, relay
  workers, the send loop. No agent needs to subscribe and no state to change.

## Proofs

Every invariant that a run checks is also a theorem, for every value of the
constants that satisfies the named assumptions (`PrefixAssumption`,
`TapAssumption`, `UplinkAssumption`, `PushAssumption`, `RelayAssumption`,
`LinkAssumption`, `SyncAssumption`) and, where stated, a further hypothesis that
the code or the property needs. The inductive invariants were checked by TLC
before they were proved.

- `RibGuardProofs`: `TypeCorrect`, `AlarmsBalanced`, `ViewAlarmsTrue`.
  `AlarmBalance` is inductive with the types once one knows that a goroutine
  computes notices only after it has fired its last ones (the guard `Fired` of
  the actions); the argument is that a step changes `MultiSourced` of a prefix only
  if the prefix is among the affected ones, shown per event kind (a session
  event affects the hosts of the old view, a path event its own prefix, the audit
  what it repairs). `ViewAlarmTrue` holds because `flipped` is empty when the tap
  folds and the audit changes no field that validity reads.
- `RibTapProofs`: `TypeCorrect`, `TrustCurrent`, with the invariant
  `IInv == TypeOK /\ CoverInv /\ UpInv /\ SessionInv(e)` for every edge that was
  never uncovered. `TrustIsCurrent` alone speaks of a queue without state events;
  to survive the steps that lead there one has to say what the queue may hold.
  `Ordered` says that ups and downs alternate as far as it matters: an up is
  preceded by a down if the producer believes the edge up already or another up
  comes before it, and the last word agrees with GoBGP's session. `EorTrue` says that
  an EOR after which no session changes is one of the present session. `CoverInv`
  is why no event of such an edge is dropped once one has been delivered: its
  address goes only after `DeletePeer`. `UpInv` ties the guard's `peerUp` to the
  producer's `established`; the audit changes neither. The edges exempted are those of
  the run `tap_recover`, where exactly this argument fails.
  `MirrorTrue` and its corollary `MirrorLossless` are `MirrorFaithful`, with the
  invariant `MirrorInv` on top of `IInv`: of the queued events about a prefix the last
  one says whether the adj-in has it, and with none queued the view of an edge that
  is up says it (`Told`). Three hypotheses: one next hop (with two it is false, which
  is the run `tap_multipath`), a watch that has dropped nothing so far
  (`budget.drops = MaxDrops`; after a loss only the audit repairs), and no audit (a
  snapshot that is stale when applied introduces drift until the next round; that the
  audit ends all drift is liveness, the run `tap_repair`).
- `ReportUplinkProofs`: `UplinkTyped`, `VotesFollowView`, `MembersFollowView`. The
  properties speak of moments with nothing under way; `VoteInv` says what holds in
  between: a vote that is due or half sent agrees with the view (`DueAgrees`,
  `VotingAgrees`), the guard's canary is one that `forgetCanary` will know
  (`CanaryKnown`), and with nothing due the votes say alive exactly for a view that has
  its canary (`AliveAgrees`); a view that has forgotten its canary has had its end
  told (`EndHeard`), which is what a session that ended unheard breaks. It needs that there is one canary prefix, as the configuration has
  per edge: with two, the guard remembers the last and the handler both (a hazard).
  `MemberInv` follows each host told of (`Following`): the *newest* member report about
  it that some goroutine has yet to send says what the view says, and with none the
  server does; and each host of a settled view has been told of, unless an End-of-RIB's
  or a repair's snapshot of its family is still to be read (`Reported`).
  "Newest" is what the history variable `ahead` is for; whoever sends while another
  report about the same host decided upon earlier waits is the flaw "overtaken". A chunk
  settles its own hosts and leaves the others owed (`ChunkSent`).
- `AgentPushProofs`: `TypeCorrect`, `StreamsEndOnce`, `WakesNotLost`, with the
  invariant `IInv == TypeOK /\ PusherInv /\ DoneInv /\ NoLostWake`. `PusherInv`
  (a pusher under way holds a real subscription and directive, and a chunk never
  gets onto the overflow path) is what the type of `pending` needs, into which
  neither a chunk nor a delta may come;
  `DoneInv` strengthens `DoneClosedOnce` to what each place of the loop implies
  (a stream not current and past its start has been closed, an absent one never
  has), without which a cleanup could not be shown to close exactly once.
  `QueueStaysBounded` is `QueueBounded`, for a finite set of pushers and directives
  of bounded size (`Finite`: gRPC's message limit). Its `CountInv` is the accounting:
  what a stream's queue and the loop's hand hold is `queuedBytes` plus what pushers
  past their enqueue have yet to credit, and `queuedBytes` plus what pushers past
  their check may add exceeds the cap by one directive for each pusher but one, the
  last to check having seen the counter within the cap.
- `AgentPushRefines`: `DownlinkImplemented`, that `AgentPush` implements `Downlink`
  under the mapping at the end of `AgentPush`. Initial states map to initial states,
  and under `IInv` of `AgentPushProofs` a step of the send loop or of a push is one
  step of `Downlink` or a stutter: the lemmas go by who moves (a stream that opens or
  ends, the loop, a call that goes on, a call that settles).
- `WatchRelayProofs`: `RelayTyped`, `RelayFIFO`, `RelayNoneDropped`, with
  `IInv == StreamInv /\ WorkerInv /\ MapInv /\ RelayedInv /\ PerEdgeFIFO /\ NoneDropped`.
  `MapInv` is the heart: while a connection is open, its map holds exactly its
  workers that run, one per edge, which is what the double check of the idle reap
  under both locks is for. Then what a worker has in hand and in its queue is newer
  than all that was relayed for its edge on its connection (`RelayedInv`), whoever
  relayed it. Two of the run's mutants break it at the idle reap.
- `ServerLinkProofs`: `LinkTyped`; it is inductive as it stands, and says of
  the Report stream that one taken for live reaches the pod that runs.
- `AgentSyncProofs`: `SyncTyped`, `QuietSync`, `Composed`. `ChainInv` is why a
  quiet system is in sync: unless an ask is to be made or a flaw happened, the
  backlog, the call of the connection's worker, the stream's queue, its stash and the
  agent form a chain of generations without a gap up to the newest (`Chained`), each
  link a snapshot or a delta whose predecessor is reached before it. `Composed` says
  that every behaviour of the composition is one of `ServerLink` and one of `Downlink`.

Two forms of induction are used. Most invariants need only the temporal one. The sums
of `QueueBounded` and the filtered queues of `WatchRelay` are data: there the lemmas
`Least` and `UpTo` take the place of the library's induction theorems, whose operator
parameters the provers cannot instantiate. `Least` (a set of naturals has a smallest
element) comes from the well-foundedness of strict subsets of finite sets; `UpTo` is
induction up to n for a *set* of numbers. `Bytes` and `Kept` are written
without `FoldLeft` and `SelectSeq` so that they can be reasoned about.

Model-checked only: all liveness (`DriftRepaired`, `ChunkUnblocked`,
`DroppedDeltaResyncs`, `SlowEdgeIsolated`, `OrphansEnd`, `LinkHeals`, `ReportsHeal`,
`Converges`), which the prover has no rules for, and `MirrorFaithful` is not stated
with the audit on, where it is false for the moment a stale snapshot is in.

## Not modelled

- The sequence of chunks of one snapshot in `PushDesiredRaw`: chunks are pushed one by
  one, whatever snapshot they are of.
- How the server reconciles its member sets: `ReportUplink` keeps the book a reader of
  the reports alone could keep. In it, what left a view with a session or by the audit's
  repair stays, and the properties do not speak of it (`told`).
- The server and the agent beyond what the coverer relies on: the agent's
  detection of generation gaps and the server's periodic snapshots are
  backstops outside of `src/`, and `AgentSync` is what holds without them.
- Graceful restart: `RibTap` clears an edge's paths when its session ends, which is
  the BFD path of `AddPeer`'s comment; stale-route retention is GoBGP's.
- The length of backoffs and timers: any delay is allowed everywhere.
- The Register relay is a unary call passed on verbatim; the agents' reports share
  the Report stream (`OtherReport`) and have no other state.
- BFD, TLS, configuration parsing, metrics, `Close` and shutdown: sequential or external.
- `ribevent.Event.Validate`: nothing in the coverer calls it.

## Plan

Done: the guard, the tap with the audit, the tap handler's reports, the downlink with
its abstract specification and the refinement, the watch relay, the server link, and
the end-to-end composition for one agent; a theorem for every invariant that a run
checks. What is left, in this order:

1. Refinements: the view steps of `RibTap` implement the actions of `RibGuard`;
   `WatchRelay` implements the queue that `AgentSync` has in its place.
2. The sequence of chunks of one snapshot (`PushDesiredRaw`): pushers of two
   generations interleaving, and a sequence abandoned half-way.
