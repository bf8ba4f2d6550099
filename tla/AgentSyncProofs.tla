-------------------------- MODULE AgentSyncProofs ---------------------------
(***************************************************************************)
(* One agent's desired state end to end: the types and, with nothing on its  *)
(* way to the agent any more, that it has the newest generation, for any     *)
(* number of pods, failures, subscriptions and generations.                 *)
(***************************************************************************)
EXTENDS AgentSync, ServerLinkProofs

(***************************************************************************)
(* How many Watch connections there can be: a new one needs a new pod or a   *)
(* failure of the connection to the running one.                            *)
(***************************************************************************)
WatchInv ==
    /\ dns <= pod /\ conn <= pod
    /\ watches \in Nat
    /\ watches <= pod + faults
    /\ ~Connected => watches <= pod - 1 + faults
    /\ watch = "fed" => watches >= 1

\* The current stream is served and not over.
StreamInv ==
    /\ over \in SUBSET Subs /\ serving \in SUBSET Subs
    /\ cur \in Subs \cup {NoSub}
    /\ cur # NoSub => cur \in serving \ over

(***************************************************************************)
(* What is held anywhere is of generation n at most.  A backlog holds at     *)
(* most one snapshot, the first of it, and only snapshots are stashed.       *)
(***************************************************************************)
Held(n) == {d \in Directives : d.gen <= n}
Queues(n) == {q \in Seq(Directives) : \A i \in DOMAIN q : q[i] \in Held(n)}
Backlogs(n) == {b \in Queues(n) : \A i \in DOMAIN b : i # 1 => b[i].kind = "DESIRED_DELTA"}
Stashes(n) == SUBSET {d \in Held(n) : d.kind = "DESIRED_STATE"}
Calls(n) == {NoCall} \cup [sub : Subs, dir : Held(n)]

HeldInv ==
    /\ newest \in 1 .. MaxGen /\ applied \in 0 .. newest
    /\ backlog \in [Pushers -> Backlogs(newest)]
    /\ call \in [Pushers -> Calls(newest)]
    /\ queue \in [Subs -> Queues(newest)]
    /\ pending \in [Subs -> Stashes(newest)]
    /\ owed \in [Subs -> BOOLEAN]
    /\ asks \in Nat
    /\ flaw \subseteq {"ask_lost", "overtaken"}

SInv == LinkType /\ WatchInv /\ StreamInv /\ HeldInv

(***************************************************************************)
(* What the agent will have applied when queue q and stash pend are sent to  *)
(* it: at least every generation in Reach.  a is what it has; G are places   *)
(* in q that will be applied, each for a reason of its own: a snapshot, or a *)
(* delta to a generation it has, or that is stashed, or that an earlier      *)
(* place of G brings.                                                       *)
(***************************************************************************)
Good(G, q, a, pend) ==
    /\ G \subseteq DOMAIN q
    /\ \A i \in G :
          \/ q[i].kind = "DESIRED_STATE"
          \/ a >= q[i].gen - 1
          \/ \E d \in pend : d.gen >= q[i].gen - 1
          \/ \E j \in G : j < i /\ q[j].gen >= q[i].gen - 1

Reach(G, q, a, pend) ==
    {g \in Nat : a >= g \/ (\E d \in pend : d.gen >= g) \/ (\E i \in G : q[i].gen >= g)}

\* And what the worker of the connection is offering to stream s.
Cover(c, s, R) ==
    R \cup {g \in Nat : /\ c # NoCall /\ c.sub = s
                        /\ c.dir.kind = "DESIRED_STATE" \/ c.dir.gen - 1 \in R
                        /\ g <= c.dir.gen}

\* The backlog b carries on from C without a gap, up to generation n.
Backed(b, C, n) ==
    /\ b = <<>> => n \in C
    /\ b # <<>> => /\ b[Len(b)].gen = n
                   /\ b[1].kind = "DESIRED_STATE" \/ b[1].gen - 1 \in C
                   /\ \A i \in DOMAIN b : i # 1 => b[i - 1].gen >= b[i].gen - 1

(***************************************************************************)
(* Unless an ask is still to be made or was lost, what is in the backlog of  *)
(* the connection, in the stream and with the agent leads to the newest      *)
(* generation without a gap.                                                *)
(***************************************************************************)
Chained(q, a, pend, c, s, b, n) ==
    \E G \in SUBSET DOMAIN q :
        Good(G, q, a, pend) /\ Backed(b, Cover(c, s, Reach(G, q, a, pend)), n)

Settling == Connected /\ cur # NoSub /\ asks = 0 /\ ~owed[cur] /\ flaw = {}

ChainInv ==
    Settling => Chained(queue[cur], applied, pending[cur], call[watches], cur,
                        backlog[watches], newest)

-----------------------------------------------------------------------------
(***************************************************************************)
(* Types.                                                                  *)
(***************************************************************************)
LEMMA WatchesWorkers ==
    ASSUME LinkType, WatchInv
    PROVE  /\ watches \in 0 .. MaxPods + MaxFaults
           /\ ~Connected => watches + 1 \in Pushers
           /\ Connected => watches \in Pushers
BY LinkAssumption, SyncAssumption DEF LinkType, WatchInv, Connected, Pods

LEMMA TypeFromS == SInv => TypeOK
<1> SUFFICES ASSUME SInv PROVE TypeOK
  OBVIOUS
<1> USE DEF SInv, HeldInv
<1>1. watches \in 0 .. MaxPods + MaxFaults
  BY WatchesWorkers
<1>2. /\ backlog \in [Pushers -> Seq(Directives)]
      /\ \A p \in Pushers : \A i \in 2 .. Len(backlog[p]) : backlog[p][i].kind = "DESIRED_DELTA"
  <2>1. \A p \in Pushers : backlog[p] \in Seq(Directives)
    BY DEF Backlogs, Queues
  <2>2. \A p \in Pushers : \A i \in 2 .. Len(backlog[p]) : i \in DOMAIN backlog[p] /\ i # 1
    BY <2>1
  <2>3. \A p \in Pushers : \A i \in DOMAIN backlog[p] : i # 1 => backlog[p][i].kind = "DESIRED_DELTA"
    BY DEF Backlogs
  <2> QED BY <2>1, <2>2, <2>3
<1>3. queue \in [Subs -> Seq(Directives)]
  BY DEF Queues
<1>4. pending \in [Subs -> SUBSET {d \in Directives : d.kind = "DESIRED_STATE"}]
  BY DEF Stashes, Held
<1> QED BY <1>1, <1>2, <1>3, <1>4 DEF TypeOK

LEMMA InitS == Init => SInv
<1> SUFFICES ASSUME Init PROVE SInv
  OBVIOUS
<1> USE LinkAssumption, SyncAssumption
<1>1. LinkType
  BY ServerLinkInit DEF Init
<1>2. WatchInv
  BY DEF Init, LinkInit, WatchInv, Connected
<1>3. StreamInv
  BY DEF Init, DLInit, StreamInv
<1>4. <<>> \in Backlogs(newest) /\ <<>> \in Queues(newest) /\ {} \in Stashes(newest)
      /\ NoCall \in Calls(newest)
  BY DEF Backlogs, Queues, Stashes, Calls
<1>5. HeldInv
  BY <1>4 DEF Init, DLInit, HeldInv
<1> QED BY <1>1, <1>2, <1>3, <1>5 DEF SInv

(***************************************************************************)
(* The link under this system, and the connections it can have made.         *)
(***************************************************************************)
LEMMA LinkUnder == Next => [LinkNext]_linkvars
<1> USE DEF LinkNext
<1>1. Link => LinkStep
  BY DEF Link
<1>2. Feed => Receives
  BY DEF Feed
<1>3. Ask \/ OtherReport => Reports
  BY DEF Ask, OtherReport
<1>4. Change => UNCHANGED linkvars
  BY DEF Change
<1>5. ASSUME NEW p \in Pushers, Relay(p) \/ Settles(p) PROVE UNCHANGED linkvars
  BY <1>5 DEF Relay, Settles
<1>6. ASSUME NEW s \in Subs, AgentSubscribes(s) \/ AgentGone(s) \/ SendsQueued(s) \/ SendsStashed(s) \/ Resyncs(s)
      PROVE  UNCHANGED linkvars
  BY <1>6 DEF AgentSubscribes, AgentGone, SendsQueued, SendsStashed, Resyncs
<1> QED BY <1>1, <1>2, <1>3, <1>4, <1>5, <1>6 DEF Next

\* While a Watch is fed its connection stays; it is only ever lost.
LEMMA LinkWatch ==
    ASSUME LinkType, WatchInv, LinkNext \/ UNCHANGED linkvars,
           watches' = IF Receives THEN watches + 1 ELSE watches
    PROVE  /\ WatchInv'
           /\ Connected' => Connected \/ Receives
<1> USE LinkAssumption DEF LinkType, Pods, WatchInv, Connected, Serves, MayFail, Fault, remote
<1>0. /\ pod \in Nat /\ dns \in Nat /\ conn \in Nat /\ faults \in Nat /\ watches \in Nat
      /\ fails \in Nat /\ Threshold \in Nat
  OBVIOUS
<1>1. CASE PodReplaced
  BY <1>0, <1>1 DEF PodReplaced, Receives
<1>2. CASE DnsFollows
  BY <1>0, <1>2 DEF DnsFollows, Receives
<1>3. CASE KeepaliveBreaks
  BY <1>0, <1>3 DEF KeepaliveBreaks, Receives
<1>4. Failed => conn' \in {conn, dns}
  BY DEF Failed, Recreate
<1>5. CASE OpenFails
  BY <1>0, <1>4, <1>5 DEF OpenFails, Receives
<1>6. CASE Opens
  BY <1>0, <1>6 DEF Opens, Receives
<1>7. CASE Silent
  BY <1>0, <1>4, <1>7 DEF Silent, Receives
<1>8. CASE Drops
  BY <1>0, <1>8 DEF Drops, Receives
<1>9. CASE Wakes
  BY <1>0, <1>9 DEF Wakes, Receives
<1>10. CASE Receives
  BY <1>0, <1>10 DEF Receives
<1>11. CASE Reports
  BY <1>0, <1>11 DEF Reports, Receives
<1>12. CASE UNCHANGED linkvars
  BY <1>0, <1>12 DEF linkvars, Receives
<1> QED BY <1>1, <1>2, <1>3, <1>5, <1>6, <1>7, <1>8, <1>9, <1>10, <1>11, <1>12
     DEF LinkNext, LinkStep

LEMMA WatchStep == LinkType /\ WatchInv /\ [Next]_vars => WatchInv' /\ (Connected' => Connected \/ Feed)
<1> SUFFICES ASSUME LinkType, WatchInv, [Next]_vars PROVE WatchInv' /\ (Connected' => Connected \/ Feed)
  OBVIOUS
<1>1. CASE Feed
  BY <1>1, LinkWatch DEF Feed, LinkNext
<1>2. CASE ~Feed
  <2>1. UNCHANGED watches /\ ~Receives
    <3>1. ASSUME Link \/ Ask \/ OtherReport \/ Change PROVE UNCHANGED watches /\ ~Receives
      BY <3>1 DEF Link, LinkStep, Ask, OtherReport, Change, linkvars, Receives, PodReplaced, DnsFollows,
         KeepaliveBreaks, OpenFails, Opens, Silent, Drops, Wakes, Reports
    <3>2. ASSUME NEW p \in Pushers, Relay(p) \/ Settles(p) PROVE UNCHANGED watches /\ ~Receives
      BY <3>2 DEF Relay, Settles, linkvars, Receives
    <3>3. ASSUME NEW s \in Subs, AgentSubscribes(s) \/ AgentGone(s) \/ SendsQueued(s) \/ SendsStashed(s) \/ Resyncs(s)
          PROVE  UNCHANGED watches /\ ~Receives
      BY <3>3 DEF AgentSubscribes, AgentGone, SendsQueued, SendsStashed, Resyncs, linkvars, Receives
    <3>4. UNCHANGED vars => UNCHANGED watches /\ ~Receives
      BY DEF vars, linkvars, Receives
    <3> QED BY <1>2, <3>1, <3>2, <3>3, <3>4 DEF Next
  <2>2. LinkNext \/ UNCHANGED linkvars
    BY LinkUnder DEF vars
  <2> QED BY <2>1, <2>2, LinkWatch
<1> QED BY <1>1, <1>2

-----------------------------------------------------------------------------
(***************************************************************************)
(* Who holds what.                                                         *)
(***************************************************************************)
LEMMA DirectiveTypes ==
    ASSUME NEW d \in Directives
    PROVE  d.kind \in {"DESIRED_STATE", "DESIRED_DELTA"} /\ d.gen \in Nat \ {0}
BY SyncAssumption

LEMMA MadeTypes ==
    ASSUME NEW g \in 1 .. MaxGen
    PROVE  /\ State(g) \in Directives /\ State(g).kind = "DESIRED_STATE" /\ State(g).gen = g
           /\ Delta(g) \in Directives /\ Delta(g).kind = "DESIRED_DELTA" /\ Delta(g).gen = g
BY SyncAssumption DEF State, Delta

LEMMA AppendSeq ==
    ASSUME NEW q \in Seq(Directives), NEW d \in Directives
    PROVE  /\ Append(q, d) \in Seq(Directives) /\ Len(q) \in Nat
           /\ DOMAIN q = 1 .. Len(q)
           /\ DOMAIN Append(q, d) = 1 .. Len(q) + 1
           /\ Len(Append(q, d)) = Len(q) + 1
           /\ \A i \in DOMAIN q : Append(q, d)[i] = q[i]
           /\ Append(q, d)[Len(q) + 1] = d
OBVIOUS

LEMMA TailSeq ==
    ASSUME NEW q \in Seq(Directives), q # <<>>
    PROVE  /\ Tail(q) \in Seq(Directives) /\ Len(q) \in Nat \ {0}
           /\ DOMAIN q = 1 .. Len(q)
           /\ DOMAIN Tail(q) = 1 .. Len(q) - 1
           /\ Len(Tail(q)) = Len(q) - 1
           /\ \A i \in DOMAIN Tail(q) : Tail(q)[i] = q[i + 1]
           /\ Head(q) = q[1] /\ 1 \in DOMAIN q
OBVIOUS

LEMMA QueueHeld ==
    ASSUME NEW n, NEW q \in Queues(n)
    PROVE  /\ \A d \in Held(n) : Append(q, d) \in Queues(n)
           /\ q # <<>> => Head(q) \in Held(n) /\ Tail(q) \in Queues(n)
<1>1. q \in Seq(Directives) /\ \A i \in DOMAIN q : q[i] \in Held(n)
  BY DEF Queues
<1>2. ASSUME NEW d \in Held(n) PROVE Append(q, d) \in Queues(n)
  <2> DEFINE r == Append(q, d)
  <2>1. d \in Directives
    BY DEF Held
  <2>2. /\ r \in Seq(Directives)
        /\ \A i \in DOMAIN r : r[i] = d \/ (i \in DOMAIN q /\ r[i] = q[i])
    BY <1>1, <2>1, AppendSeq
  <2> HIDE DEF r
  <2>3. r \in Queues(n)
    BY <1>1, <1>2, <2>2 DEF Queues
  <2> QED BY <2>3 DEF r
<1>3. ASSUME q # <<>> PROVE Head(q) \in Held(n) /\ Tail(q) \in Queues(n)
  <2> DEFINE r == Tail(q)
  <2>1. /\ r \in Seq(Directives) /\ Head(q) = q[1] /\ 1 \in DOMAIN q
        /\ \A i \in DOMAIN r : i + 1 \in DOMAIN q /\ r[i] = q[i + 1]
    BY <1>1, <1>3, TailSeq
  <2> HIDE DEF r
  <2>2. r \in Queues(n)
    BY <1>1, <2>1 DEF Queues
  <2> QED BY <1>1, <2>1, <2>2 DEF r
<1> QED BY <1>2, <1>3

LEMMA BacklogHeld ==
    ASSUME NEW n, NEW b \in Backlogs(n)
    PROVE  /\ \A d \in Held(n) : d.kind = "DESIRED_DELTA" => Append(b, d) \in Backlogs(n)
           /\ b # <<>> => Head(b) \in Held(n) /\ Tail(b) \in Backlogs(n)
           /\ \A d \in Held(n) : <<d>> \in Backlogs(n)
<1>1. b \in Queues(n) /\ b \in Seq(Directives) /\ \A i \in DOMAIN b : i # 1 => b[i].kind = "DESIRED_DELTA"
  BY DEF Backlogs, Queues
<1>2. ASSUME NEW d \in Held(n), d.kind = "DESIRED_DELTA" PROVE Append(b, d) \in Backlogs(n)
  <2> DEFINE r == Append(b, d)
  <2>1. \A i \in DOMAIN r : r[i] = d \/ (i \in DOMAIN b /\ r[i] = b[i])
    BY <1>1, AppendSeq DEF Held
  <2>2. r \in Queues(n)
    BY <1>1, <1>2, QueueHeld
  <2> HIDE DEF r
  <2>3. r \in Backlogs(n)
    BY <1>1, <1>2, <2>1, <2>2 DEF Backlogs
  <2> QED BY <2>3 DEF r
<1>3. ASSUME b # <<>> PROVE Head(b) \in Held(n) /\ Tail(b) \in Backlogs(n)
  <2> DEFINE r == Tail(b)
  <2>1. \A i \in DOMAIN r : i + 1 \in DOMAIN b /\ i + 1 # 1 /\ r[i] = b[i + 1]
    BY <1>1, <1>3, TailSeq
  <2>2. Head(b) \in Held(n) /\ r \in Queues(n)
    BY <1>1, <1>3, QueueHeld
  <2> HIDE DEF r
  <2>3. r \in Backlogs(n)
    BY <1>1, <2>1, <2>2 DEF Backlogs
  <2> QED BY <2>2, <2>3 DEF r
<1>4. ASSUME NEW d \in Held(n) PROVE <<d>> \in Backlogs(n)
  BY <1>4 DEF Backlogs, Queues, Held
<1> QED BY <1>2, <1>3, <1>4

\* What was held before a change is held after it.
LEMMA HeldGrows ==
    ASSUME NEW n \in Nat, NEW m \in Nat, n <= m
    PROVE  /\ Held(n) \subseteq Held(m) /\ Queues(n) \subseteq Queues(m)
           /\ Backlogs(n) \subseteq Backlogs(m) /\ Stashes(n) \subseteq Stashes(m)
           /\ Calls(n) \subseteq Calls(m)
<1>1. Held(n) \subseteq Held(m)
  BY DirectiveTypes DEF Held
<1>2. Queues(n) \subseteq Queues(m)
  BY <1>1 DEF Queues
<1> QED BY <1>1, <1>2 DEF Backlogs, Stashes, Calls

LEMMA SentHeld ==
    ASSUME LinkType, WatchInv, NEW n, backlog \in [Pushers -> Backlogs(n)],
           NEW d \in Held(n), Sent(d)
    PROVE  backlog' \in [Pushers -> Backlogs(n)]
<1>1. CASE Connected
  <2>1. watches \in Pushers /\ backlog[watches] \in Backlogs(n)
    BY <1>1, WatchesWorkers
  <2>2. d.kind \in {"DESIRED_STATE", "DESIRED_DELTA"}
    BY DirectiveTypes DEF Held
  <2>3. PICK b : /\ b = IF d.kind = "DESIRED_STATE" THEN <<d>> ELSE Append(backlog[watches], d)
                 /\ backlog' = [backlog EXCEPT ![watches] = b]
    BY <1>1 DEF Sent
  <2>4. b \in Backlogs(n)
    BY <2>1, <2>2, <2>3, BacklogHeld
  <2> QED BY <2>1, <2>3, <2>4
<1>2. CASE ~Connected
  BY <1>2 DEF Sent
<1> QED BY <1>1, <1>2

LEMMA HeldStep == SInv /\ [Next]_vars => HeldInv' /\ StreamInv'
<1> SUFFICES ASSUME SInv, [Next]_vars PROVE HeldInv' /\ StreamInv'
  OBVIOUS
<1>0. LinkType /\ WatchInv /\ StreamInv /\ HeldInv /\ newest \in Nat /\ MaxGen \in Nat
  BY SyncAssumption DEF SInv, HeldInv
<1> USE DEF HeldInv, StreamInv, dlvars
<1>1. CASE Link \/ OtherReport \/ UNCHANGED vars
  BY <1>0, <1>1 DEF Link, OtherReport, vars
<1>2. CASE Feed
  <2>1. State(newest) \in Held(newest)
    BY <1>0, MadeTypes DEF Held
  <2>2. <<State(newest)>> \in Backlogs(newest)
    BY <2>1 DEF Backlogs, Queues, Held
  <2> HIDE DEF dlvars
  <2>3. backlog' \in [Pushers -> Backlogs(newest)]
    BY <1>0, <1>2, <2>2 DEF Feed
  <2> QED BY <1>0, <1>2, <2>3 DEF Feed, dlvars
<1>3. CASE Change
  <2>1. newest' = newest + 1 /\ newest' \in 1 .. MaxGen /\ newest' \in Nat
    BY <1>0, <1>3 DEF Change
  <2>2. PICK d \in {State(newest + 1), Delta(newest + 1)} : Sent(d)
    BY <1>3 DEF Change
  <2>3. d \in Held(newest')
    BY <2>1, <2>2, MadeTypes DEF Held
  <2>4. /\ Queues(newest) \subseteq Queues(newest') /\ Backlogs(newest) \subseteq Backlogs(newest')
        /\ Stashes(newest) \subseteq Stashes(newest') /\ Calls(newest) \subseteq Calls(newest')
    BY <1>0, <2>1, HeldGrows
  <2>5. backlog' \in [Pushers -> Backlogs(newest')]
    BY <1>0, <2>2, <2>3, <2>4, SentHeld
  <2>6. applied \in 0 .. newest'
    BY <1>0, <2>1
  <2> QED BY <1>0, <1>3, <2>1, <2>4, <2>5, <2>6 DEF Change
<1>4. CASE Ask
  <2>1. State(newest) \in Held(newest)
    BY <1>0, MadeTypes DEF Held
  <2>2. backlog' \in [Pushers -> Backlogs(newest)]
    BY <1>0, <1>4, <2>1, SentHeld DEF Ask
  <2>3. asks' \in Nat /\ flaw' \subseteq {"ask_lost", "overtaken"}
    <3>1. asks \in Nat /\ asks > 0 /\ asks' = asks - 1
      BY <1>0, <1>4 DEF Ask
    <3>2. flaw' = {} \/ flaw' = flaw \cup {"ask_lost"}
      BY <1>4 DEF Ask
    <3>3. flaw \subseteq {"ask_lost", "overtaken"}
      BY <1>0
    <3> HIDE DEF HeldInv, StreamInv
    <3>4. asks' \in Nat
      BY <3>1
    <3>5. flaw' \subseteq {"ask_lost", "overtaken"}
      BY <3>2, <3>3
    <3> QED BY <3>4, <3>5
  <2>4. UNCHANGED <<dlvars, newest, applied>>
    BY <1>4 DEF Ask
  <2> QED BY <1>0, <2>2, <2>3, <2>4
<1>5. ASSUME NEW p \in Pushers, Relay(p) PROVE HeldInv' /\ StreamInv'
  <2>1. Head(backlog[p]) \in Held(newest) /\ Tail(backlog[p]) \in Backlogs(newest)
    BY <1>0, <1>5, BacklogHeld DEF Relay
  <2>2. CASE cur # NoSub
    <3>1. [sub |-> cur, dir |-> Head(backlog[p])] \in Calls(newest)
      BY <1>0, <2>1, <2>2 DEF Calls
    <3> QED BY <1>0, <1>5, <2>1, <2>2, <3>1 DEF Relay, Offer
  <2>3. CASE cur = NoSub
    BY <1>0, <1>5, <2>1, <2>3 DEF Relay
  <2> QED BY <2>2, <2>3
<1>6. ASSUME NEW p \in Pushers, Settles(p) PROVE HeldInv' /\ StreamInv'
  <2>1. call[p] # NoCall /\ call' = [call EXCEPT ![p] = NoCall]
    BY <1>6 DEF Settles, Accept, Stash, Drop, Refuse, Settle
  <2>2. /\ call[p].sub \in Subs /\ call[p].dir \in Held(newest) /\ NoCall \in Calls(newest)
        /\ queue[call[p].sub] \in Queues(newest) /\ pending[call[p].sub] \in Stashes(newest)
    BY <1>0, <2>1 DEF Calls
  <2>3. Append(queue[call[p].sub], call[p].dir) \in Queues(newest)
    BY <2>2, QueueHeld
  <2>4. call[p].dir.kind \notin {"CHUNK", "DESIRED_DELTA"} => NewerWins(pending[call[p].sub], call[p].dir) \in Stashes(newest)
    BY <2>2, DirectiveTypes DEF NewerWins, Stashes, Held
  <2>5. CASE Accept(p)
    BY <1>0, <1>6, <2>1, <2>2, <2>3, <2>5 DEF Accept, Settles
  <2>6. CASE Stash(p)
    BY <1>0, <1>6, <2>1, <2>2, <2>4, <2>6 DEF Stash, Settles
  <2>7. CASE Drop(p) \/ Refuse(p)
    BY <1>0, <1>6, <2>1, <2>2, <2>7 DEF Drop, Refuse, Settles
  <2> QED BY <1>6, <2>5, <2>6, <2>7 DEF Settles
<1>7. ASSUME NEW s \in Subs, AgentSubscribes(s) \/ AgentGone(s) PROVE HeldInv' /\ StreamInv'
  <2>1. CASE AgentSubscribes(s)
    <3>1. applied' \in 0 .. newest /\ asks' \in Nat
      BY <1>0, <2>1 DEF AgentSubscribes
    <3>2. /\ over' \in SUBSET Subs /\ serving' \in SUBSET Subs /\ cur' = s
          /\ s \in serving' \ over' /\ UNCHANGED <<queue, pending, owed, call>>
      BY <1>0, <2>1 DEF AgentSubscribes, Open
    <3> QED BY <1>0, <2>1, <3>1, <3>2 DEF AgentSubscribes
  <2>2. CASE AgentGone(s)
    <3>1. /\ over' \in SUBSET Subs /\ serving' \in SUBSET Subs
          /\ cur' \in Subs \cup {NoSub} /\ (cur' # NoSub => cur' \in serving' \ over')
          /\ UNCHANGED <<queue, pending, owed, call>>
      BY <1>0, <2>2 DEF AgentGone, End
    <3> QED BY <1>0, <2>2, <3>1 DEF AgentGone
  <2> QED BY <1>7, <2>1, <2>2
<1>8. ASSUME NEW s \in Subs, SendsQueued(s) PROVE HeldInv' /\ StreamInv'
  <2>1. Head(queue[s]) \in Held(newest) /\ Tail(queue[s]) \in Queues(newest)
    BY <1>0, <1>8, QueueHeld DEF SendsQueued, TakeQueued
  <2>2. applied' \in 0 .. newest
    BY <1>0, <1>8, <2>1, DirectiveTypes DEF SendsQueued, Apply, Held
  <2> QED BY <1>0, <1>8, <2>1, <2>2 DEF SendsQueued, TakeQueued
<1>9. ASSUME NEW s \in Subs, SendsStashed(s) PROVE HeldInv' /\ StreamInv'
  <2>1. PICK d \in pending[s] : TakeStashed(s, d) /\ Apply(s, d)
    BY <1>9 DEF SendsStashed
  <2>2. d \in Held(newest) /\ pending[s] \ {d} \in Stashes(newest)
    BY <1>0 DEF Stashes
  <2>3. applied' \in 0 .. newest
    BY <1>0, <2>1, <2>2, DirectiveTypes DEF Apply, Held
  <2> QED BY <1>0, <1>9, <2>1, <2>2, <2>3 DEF SendsStashed, TakeStashed
<1>10. ASSUME NEW s \in Subs, Resyncs(s) PROVE HeldInv' /\ StreamInv'
  BY <1>0, <1>10 DEF Resyncs, TakeOwed
<1> QED BY <1>1, <1>2, <1>3, <1>4, <1>5, <1>6, <1>7, <1>8, <1>9, <1>10 DEF Next

LEMMA SStep == SInv /\ [Next]_vars => SInv'
BY LinkTypeStep, LinkUnder, WatchStep, HeldStep DEF SInv, vars

(***************************************************************************)
(* The types of the whole path from the server to the agent, among them that *)
(* a backlog holds at most one full snapshot and that first, that only full  *)
(* snapshots are stashed, that the agent never applies a generation that is  *)
(* yet to come, and that there are no more Watch connections than pods and   *)
(* failures account for.                                                    *)
(***************************************************************************)
THEOREM SyncTyped == Spec => []TypeOK
BY InitS, SStep, TypeFromS, PTL DEF Spec

-----------------------------------------------------------------------------
(***************************************************************************)
(* What a chain survives.                                                   *)
(***************************************************************************)
LEMMA CoverMore ==
    ASSUME NEW c, NEW s, NEW R, NEW R2, R \subseteq R2
    PROVE  Cover(c, s, R) \subseteq Cover(c, s, R2) /\ R \subseteq Cover(c, s, R)
BY DEF Cover

LEMMA BackedMore ==
    ASSUME NEW b, NEW n, NEW C, NEW C2, C \subseteq C2, Backed(b, C, n)
    PROVE  Backed(b, C2, n)
BY DEF Backed

\* A full snapshot leads anywhere.
LEMMA ChainedFresh ==
    ASSUME NEW q, NEW a, NEW pend, NEW c, NEW s, NEW n, NEW d,
           d.kind = "DESIRED_STATE", d.gen = n
    PROVE  Chained(q, a, pend, c, s, <<d>>, n)
<1> DEFINE b == <<d>>
<1>1. Good({}, q, a, pend)
  BY DEF Good
<1>2. b # <<>> /\ Len(b) = 1 /\ b[1] = d /\ DOMAIN b = {1}
  OBVIOUS
<1>3. Backed(b, Cover(c, s, Reach({}, q, a, pend)), n)
  <2> HIDE DEF b
  <2> QED BY <1>2 DEF Backed
<1> QED BY <1>1, <1>3 DEF Chained

LEMMA GoodMore ==
    ASSUME NEW q \in Seq(Directives), NEW a \in Nat, NEW a2 \in Nat, a <= a2,
           NEW pend \in SUBSET Directives, NEW pend2 \in SUBSET Directives,
           \A d \in pend : a2 >= d.gen \/ \E d2 \in pend2 : d2.gen >= d.gen,
           NEW G, Good(G, q, a, pend)
    PROVE  /\ Good(G, q, a2, pend2)
           /\ Reach(G, q, a, pend) \subseteq Reach(G, q, a2, pend2)
<1>1. \A d \in Directives : d.gen \in Nat /\ d.gen - 1 \in Nat
  BY DirectiveTypes
<1>2. \A g \in Nat : (\E d \in pend : d.gen >= g) => a2 >= g \/ \E d2 \in pend2 : d2.gen >= g
  BY <1>1
<1>3. \A i \in DOMAIN q : q[i] \in Directives
  OBVIOUS
<1>4. \A g \in Nat : a >= g => a2 >= g
  OBVIOUS
<1>5. Good(G, q, a2, pend2)
  <2> SUFFICES ASSUME NEW i \in G, q[i].kind # "DESIRED_STATE",
                      ~(\E j \in G : j < i /\ q[j].gen >= q[i].gen - 1)
               PROVE  a2 >= q[i].gen - 1 \/ \E d \in pend2 : d.gen >= q[i].gen - 1
    BY DEF Good
  <2>1. q[i].gen - 1 \in Nat
    BY <1>1, <1>3 DEF Good
  <2>2. a >= q[i].gen - 1 \/ \E d \in pend : d.gen >= q[i].gen - 1
    BY DEF Good
  <2> QED BY <1>2, <1>4, <2>1, <2>2
<1>6. Reach(G, q, a, pend) \subseteq Reach(G, q, a2, pend2)
  BY <1>2, <1>4 DEF Reach
<1> QED BY <1>5, <1>6

LEMMA ChainedMore ==
    ASSUME NEW q \in Seq(Directives), NEW a \in Nat, NEW a2 \in Nat, a <= a2,
           NEW pend \in SUBSET Directives, NEW pend2 \in SUBSET Directives,
           \A d \in pend : a2 >= d.gen \/ \E d2 \in pend2 : d2.gen >= d.gen,
           NEW c, NEW s, NEW b, NEW n, Chained(q, a, pend, c, s, b, n)
    PROVE  Chained(q, a2, pend2, c, s, b, n)
<1>1. PICK G \in SUBSET DOMAIN q :
          Good(G, q, a, pend) /\ Backed(b, Cover(c, s, Reach(G, q, a, pend)), n)
  BY DEF Chained
<1>2. Good(G, q, a2, pend2) /\ Reach(G, q, a, pend) \subseteq Reach(G, q, a2, pend2)
  BY <1>1, GoodMore
<1>3. Backed(b, Cover(c, s, Reach(G, q, a2, pend2)), n)
  BY <1>1, <1>2, CoverMore, BackedMore
<1> QED BY <1>2, <1>3 DEF Chained

\* A worker that offers nothing to stream s may offer anything next.
LEMMA ChainedCall ==
    ASSUME NEW q, NEW a, NEW pend, NEW c, NEW s, NEW b, NEW n,
           Chained(q, a, pend, c, s, b, n), c = NoCall \/ c.sub # s, NEW c2
    PROVE  Chained(q, a, pend, c2, s, b, n)
<1>1. PICK G \in SUBSET DOMAIN q :
          Good(G, q, a, pend) /\ Backed(b, Cover(c, s, Reach(G, q, a, pend)), n)
  BY DEF Chained
<1> DEFINE R == Reach(G, q, a, pend)
<1>2. Cover(c, s, R) \subseteq Cover(c2, s, R)
  BY DEF Cover
<1>3. Backed(b, Cover(c2, s, R), n)
  BY <1>1, <1>2, BackedMore
<1> QED BY <1>1, <1>3 DEF Chained

LEMMA GoodAppend ==
    ASSUME NEW q \in Seq(Directives), NEW d \in Directives, NEW a, NEW pend,
           NEW G, Good(G, q, a, pend)
    PROVE  /\ Good(G, Append(q, d), a, pend)
           /\ Reach(G, Append(q, d), a, pend) = Reach(G, q, a, pend)
<1> DEFINE r == Append(q, d)
           n == Len(q) + 1
<1>1. /\ G \subseteq DOMAIN q /\ DOMAIN q \subseteq DOMAIN r /\ n \in DOMAIN r /\ r[n] = d
      /\ \A i \in G : r[i] = q[i] /\ i < n
  BY AppendSeq DEF Good
<1> HIDE DEF r, n
<1>2. Good(G, r, a, pend) /\ Reach(G, r, a, pend) = Reach(G, q, a, pend)
  BY <1>1 DEF Good, Reach
<1> QED BY <1>2 DEF r

LEMMA GoodAccepted ==
    ASSUME NEW q \in Seq(Directives), NEW d \in Directives, NEW a, NEW pend,
           NEW G, Good(G, q, a, pend),
           d.kind = "DESIRED_STATE" \/ d.gen - 1 \in Reach(G, q, a, pend)
    PROVE  /\ Good(G \cup {Len(q) + 1}, Append(q, d), a, pend)
           /\ Reach(G, q, a, pend) \cup {g \in Nat : g <= d.gen}
                 \subseteq Reach(G \cup {Len(q) + 1}, Append(q, d), a, pend)
<1> DEFINE r == Append(q, d)
           n == Len(q) + 1
           H == G \cup {n}
<1>1. /\ G \subseteq DOMAIN q /\ DOMAIN q \subseteq DOMAIN r /\ n \in DOMAIN r /\ r[n] = d
      /\ \A i \in G : r[i] = q[i] /\ i < n
  BY AppendSeq DEF Good
<1> HIDE DEF r, n
<1>0. \/ d.kind = "DESIRED_STATE" \/ a >= d.gen - 1
      \/ \E x \in pend : x.gen >= d.gen - 1
      \/ \E j \in G : q[j].gen >= d.gen - 1
  BY DEF Reach
<1>2. Good(H, r, a, pend)
  BY <1>0, <1>1 DEF Good
<1>3. {g \in Nat : g <= d.gen} \subseteq Reach(H, r, a, pend)
  <2> SUFFICES ASSUME NEW g \in Nat, g <= d.gen PROVE r[n].gen >= g
    BY DEF Reach
  <2> QED BY <1>1, DirectiveTypes
<1>4. Reach(G, q, a, pend) \subseteq Reach(H, r, a, pend)
  BY <1>1 DEF Reach
<1> QED BY <1>2, <1>3, <1>4 DEF r, n

LEMMA ChainedAppend ==
    ASSUME NEW q \in Seq(Directives), NEW d \in Directives, NEW a, NEW pend,
           NEW c, NEW s, NEW b, NEW n, Chained(q, a, pend, c, s, b, n)
    PROVE  /\ Chained(Append(q, d), a, pend, c, s, b, n)
           /\ c # NoCall /\ c.sub = s /\ c.dir = d
                 => Chained(Append(q, d), a, pend, NoCall, s, b, n)
<1>1. PICK G \in SUBSET DOMAIN q :
          Good(G, q, a, pend) /\ Backed(b, Cover(c, s, Reach(G, q, a, pend)), n)
  BY DEF Chained
<1> DEFINE r == Append(q, d)
           R == Reach(G, q, a, pend)
           H == G \cup {Len(q) + 1}
<1>2. Chained(r, a, pend, c, s, b, n)
  <2>1. Good(G, r, a, pend) /\ Reach(G, q, a, pend) = Reach(G, r, a, pend)
    BY <1>1, GoodAppend
  <2>2. G \in SUBSET DOMAIN r
    BY <2>1 DEF Good
  <2> HIDE DEF r
  <2> QED BY <1>1, <2>1, <2>2 DEF Chained
<1>3. ASSUME c # NoCall, c.sub = s, c.dir = d PROVE Chained(r, a, pend, NoCall, s, b, n)
  <2>1. CASE d.kind = "DESIRED_STATE" \/ d.gen - 1 \in R
    <3>1. Good(H, r, a, pend) /\ R \cup {g \in Nat : g <= d.gen} \subseteq Reach(H, r, a, pend)
      BY <1>1, <2>1, GoodAccepted
    <3> HIDE DEF r, H, R
    <3>2. Cover(c, s, R) \subseteq Cover(NoCall, s, Reach(H, r, a, pend))
      BY <1>3, <3>1 DEF Cover
    <3>3. Backed(b, Cover(NoCall, s, Reach(H, r, a, pend)), n)
      BY <1>1, <3>2, BackedMore DEF R
    <3>4. H \in SUBSET DOMAIN r
      BY <3>1 DEF Good
    <3> QED BY <3>1, <3>3, <3>4 DEF Chained
  <2>2. CASE ~(d.kind = "DESIRED_STATE" \/ d.gen - 1 \in R)
    <3>1. Good(G, r, a, pend) /\ R = Reach(G, r, a, pend)
      BY <1>1, GoodAppend
    <3> HIDE DEF r, R
    <3>2. Cover(c, s, R) \subseteq Cover(NoCall, s, R)
      BY <1>3, <2>2 DEF Cover
    <3>3. Backed(b, Cover(NoCall, s, Reach(G, r, a, pend)), n)
      BY <1>1, <3>1, <3>2, BackedMore DEF R
    <3>4. G \in SUBSET DOMAIN r
      BY <3>1 DEF Good
    <3> QED BY <3>1, <3>3, <3>4 DEF Chained
  <2> QED BY <2>1, <2>2
<1> QED BY <1>2, <1>3

LEMMA NewerCovers ==
    ASSUME NEW d \in Directives, d.kind = "DESIRED_STATE",
           NEW pend \in SUBSET {x \in Directives : x.kind = "DESIRED_STATE"}
    PROVE  /\ NewerWins(pend, d) \in SUBSET Directives
           /\ \A x \in pend \cup {d} : \E y \in NewerWins(pend, d) : y.gen >= x.gen
<1>1. \A x \in Directives : x.gen \in Nat
  BY DirectiveTypes
<1>2. CASE \A x \in pend : d.gen >= x.gen
  BY <1>1, <1>2 DEF NewerWins
<1>3. CASE ~(\A x \in pend : d.gen >= x.gen)
  BY <1>1, <1>3 DEF NewerWins
<1> QED BY <1>2, <1>3

LEMMA ChainedStash ==
    ASSUME NEW q \in Seq(Directives), NEW a \in Nat,
           NEW pend \in SUBSET {x \in Directives : x.kind = "DESIRED_STATE"},
           NEW d \in Directives, d.kind = "DESIRED_STATE",
           NEW c, NEW s, NEW b, NEW n, Chained(q, a, pend, c, s, b, n)
    PROVE  /\ Chained(q, a, NewerWins(pend, d), c, s, b, n)
           /\ c # NoCall /\ c.sub = s /\ c.dir = d
                 => Chained(q, a, NewerWins(pend, d), NoCall, s, b, n)
<1>0. pend \in SUBSET Directives
  OBVIOUS
<1>1. Chained(q, a, NewerWins(pend, d), c, s, b, n)
  BY <1>0, NewerCovers, ChainedMore
<1>2. ASSUME c # NoCall, c.sub = s, c.dir = d PROVE Chained(q, a, NewerWins(pend, d), NoCall, s, b, n)
  <2> DEFINE p2 == NewerWins(pend, d)
  <2>1. PICK G \in SUBSET DOMAIN q :
            Good(G, q, a, p2) /\ Backed(b, Cover(c, s, Reach(G, q, a, p2)), n)
    BY <1>1 DEF Chained
  <2>2. p2 \in SUBSET Directives /\ \E y \in p2 : y.gen >= d.gen
    BY NewerCovers
  <2> HIDE DEF p2
  <2>3. {g \in Nat : g <= d.gen} \subseteq Reach(G, q, a, p2)
    <3>1. \A y \in p2 : y.gen \in Nat /\ d.gen \in Nat
      BY <2>2, DirectiveTypes
    <3> QED BY <2>2, <3>1 DEF Reach
  <2>4. Cover(c, s, Reach(G, q, a, p2)) \subseteq Cover(NoCall, s, Reach(G, q, a, p2))
    BY <1>2, <2>3 DEF Cover
  <2> QED BY <2>1, <2>4, BackedMore DEF Chained, p2
<1> QED BY <1>1, <1>2

\* The send loop sends the head of the queue, no delta ahead of what is stashed.
LEMMA ChainedTail ==
    ASSUME NEW q \in Seq(Directives), q # <<>>, NEW a \in Nat, NEW a2 \in Nat, a <= a2,
           NEW pend \in SUBSET Directives,
           Head(q).kind = "DESIRED_STATE" => a2 >= Head(q).gen,
           Head(q).kind = "DESIRED_DELTA" =>
              pend = {} /\ (a >= Head(q).gen - 1 => a2 >= Head(q).gen),
           NEW c, NEW s, NEW b, NEW n, Chained(q, a, pend, c, s, b, n)
    PROVE  Chained(Tail(q), a2, pend, c, s, b, n)
<1>1. PICK G \in SUBSET DOMAIN q :
          Good(G, q, a, pend) /\ Backed(b, Cover(c, s, Reach(G, q, a, pend)), n)
  BY DEF Chained
<1> DEFINE r == Tail(q)
           H == {i \in DOMAIN r : i + 1 \in G}
<1>2. /\ Head(q) = q[1] /\ q[1] \in Directives
      /\ \A i \in DOMAIN r : i \in Nat /\ i + 1 \in DOMAIN q /\ r[i] = q[i + 1]
      /\ \A i \in DOMAIN q : i \in Nat /\ i >= 1 /\ (i # 1 => i - 1 \in DOMAIN r /\ r[i - 1] = q[i])
  BY TailSeq
<1>3. \A i \in G : i # 1 => i - 1 \in H /\ r[i - 1] = q[i]
  BY <1>2
<1>4. \A d \in Directives : d.kind \in {"DESIRED_STATE", "DESIRED_DELTA"} /\ d.gen \in Nat /\ d.gen - 1 \in Nat
  BY DirectiveTypes
<1>5. \A i \in DOMAIN q : q[i] \in Directives
  OBVIOUS
<1> HIDE DEF r
<1>6. 1 \in G => a2 >= q[1].gen
  <2> HAVE 1 \in G
  <2>1. \/ q[1].kind = "DESIRED_STATE" \/ a >= q[1].gen - 1
        \/ \E x \in pend : x.gen >= q[1].gen - 1
        \/ \E j \in G : j < 1
    BY <1>1 DEF Good
  <2>2. ~(\E j \in G : j < 1)
    BY <1>2
  <2> QED BY <1>2, <1>4, <2>1, <2>2
<1>7. Good(H, r, a2, pend)
  <2> SUFFICES ASSUME NEW i \in H, r[i].kind # "DESIRED_STATE"
               PROVE  \/ a2 >= r[i].gen - 1
                      \/ \E d \in pend : d.gen >= r[i].gen - 1
                      \/ \E j \in H : j < i /\ r[j].gen >= r[i].gen - 1
    BY DEF Good
  <2>0. i \in Nat /\ r[i] = q[i + 1] /\ i + 1 \in G /\ r[i] \in Directives /\ r[i].gen - 1 \in Nat
    BY <1>2, <1>4, <1>5
  <2>1. \/ a >= r[i].gen - 1
        \/ \E d \in pend : d.gen >= r[i].gen - 1
        \/ \E j \in G : j < i + 1 /\ q[j].gen >= r[i].gen - 1
    BY <1>1, <2>0 DEF Good
  <2>2. CASE a >= r[i].gen - 1
    BY <2>0, <2>2
  <2>3. CASE \E j \in G : j < i + 1 /\ q[j].gen >= r[i].gen - 1
    <3>1. PICK j \in G : j < i + 1 /\ q[j].gen >= r[i].gen - 1
      BY <2>3
    <3>2. CASE j = 1
      <4>1. a2 >= q[1].gen /\ q[1].gen \in Nat
        BY <1>2, <1>4, <1>6, <3>2
      <4> QED BY <2>0, <3>1, <3>2, <4>1
    <3>3. CASE j # 1
      <4>1. j - 1 \in H /\ r[j - 1] = q[j] /\ j - 1 < i
        BY <1>2, <1>3, <2>0, <3>1, <3>3
      <4> QED BY <3>1, <4>1
    <3> QED BY <3>2, <3>3
  <2> QED BY <2>1, <2>2, <2>3
<1>8. Reach(G, q, a, pend) \subseteq Reach(H, r, a2, pend)
  <2> SUFFICES ASSUME NEW g \in Nat,
                      a >= g \/ (\E d \in pend : d.gen >= g) \/ (\E i \in G : q[i].gen >= g)
               PROVE  a2 >= g \/ (\E d \in pend : d.gen >= g) \/ (\E i \in H : r[i].gen >= g)
    BY DEF Reach
  <2>1. CASE a >= g
    BY <2>1
  <2>2. CASE \E i \in G : q[i].gen >= g
    <3>1. PICK i \in G : q[i].gen >= g
      BY <2>2
    <3>2. CASE i = 1
      <4>1. a2 >= q[1].gen /\ q[1].gen \in Nat
        BY <1>2, <1>4, <1>6, <3>2
      <4> QED BY <3>1, <3>2, <4>1
    <3>3. CASE i # 1
      BY <1>3, <3>1, <3>3
    <3> QED BY <3>2, <3>3
  <2> QED BY <2>1, <2>2
<1>9. Backed(b, Cover(c, s, Reach(H, r, a2, pend)), n)
  BY <1>1, <1>8, CoverMore, BackedMore
<1> QED BY <1>7, <1>9 DEF Chained, r

\* The worker takes the next of the backlog and offers it.
LEMMA ChainedRelay ==
    ASSUME NEW n, NEW m, NEW b \in Backlogs(m), b # <<>>,
           NEW q, NEW a, NEW pend, NEW s, Chained(q, a, pend, NoCall, s, b, n)
    PROVE  Chained(q, a, pend, [sub |-> s, dir |-> Head(b)], s, Tail(b), n)
<1>1. PICK G \in SUBSET DOMAIN q :
          Good(G, q, a, pend) /\ Backed(b, Cover(NoCall, s, Reach(G, q, a, pend)), n)
  BY DEF Chained
<1> DEFINE R == Reach(G, q, a, pend)
           r == Tail(b)
           c == [sub |-> s, dir |-> Head(b)]
           d == Head(b)
<1>2. b \in Seq(Directives)
  BY DEF Backlogs, Queues
<1>3. /\ d = b[1] /\ d \in Directives /\ Len(b) \in Nat \ {0}
      /\ Len(r) = Len(b) - 1 /\ DOMAIN r = 1 .. Len(r) /\ r \in Seq(Directives)
      /\ \A i \in DOMAIN r : i \in Nat \ {0} /\ i + 1 \in DOMAIN b /\ r[i] = b[i + 1]
      /\ \A i \in DOMAIN b : b[i].gen \in Nat \ {0}
  BY <1>2, TailSeq, DirectiveTypes
<1>4. c.sub = s /\ c.dir = d /\ c # NoCall
  BY DEF NoCall
<1> HIDE DEF r, c, d, R
<1>5. d.kind = "DESIRED_STATE" \/ d.gen - 1 \in R
  <2>1. Cover(NoCall, s, R) = R
    BY DEF Cover
  <2> QED BY <1>1, <1>3, <2>1 DEF Backed, R
<1>6. {g \in Nat : g <= d.gen} \subseteq Cover(c, s, R)
  BY <1>4, <1>5 DEF Cover
<1>7. Backed(r, Cover(c, s, R), n)
  <2>1. CASE r = <<>>
    <3>1. Len(b) = 1
      BY <1>3, <2>1
    <3>2. d.gen = n /\ d.gen \in Nat
      BY <1>1, <1>3, <3>1, DirectiveTypes DEF Backed
    <3> QED BY <1>6, <2>1, <3>2 DEF Backed
  <2>2. CASE r # <<>>
    <3>0. Len(r) \in DOMAIN r /\ 1 \in DOMAIN r /\ Len(r) + 1 = Len(b)
      BY <1>3, <2>2
    <3>1. r[Len(r)] = b[Len(b)] /\ r[1] = b[2] /\ 2 \in DOMAIN b
      BY <1>3, <3>0
    <3>2. b[Len(b)].gen = n /\ \A i \in DOMAIN b : i # 1 => b[i - 1].gen >= b[i].gen - 1
      BY <1>1, <1>3 DEF Backed
    <3>3. r[1].gen - 1 \in Cover(c, s, R)
      <4>1. b[2 - 1].gen >= b[2].gen - 1
        BY <3>1, <3>2
      <4>2. d.gen >= r[1].gen - 1 /\ r[1].gen - 1 \in Nat
        BY <1>3, <3>1, <4>1
      <4> QED BY <1>6, <4>2
    <3>4. ASSUME NEW i \in DOMAIN r, i # 1 PROVE r[i - 1].gen >= r[i].gen - 1
      <4>1. i - 1 \in DOMAIN r /\ r[i - 1] = b[i] /\ r[i] = b[i + 1] /\ i + 1 \in DOMAIN b /\ i + 1 # 1
            /\ (i + 1) - 1 = i
        BY <1>3, <3>4
      <4> QED BY <3>2, <4>1
    <3> QED BY <2>2, <3>1, <3>2, <3>3, <3>4 DEF Backed
  <2> QED BY <2>1, <2>2
<1> QED BY <1>1, <1>7 DEF Chained, R, r, c, d

\* The server sends the delta after the newest generation.
LEMMA ChainedDelta ==
    ASSUME NEW b \in Seq(Directives), NEW n \in Nat, NEW d \in Directives, d.gen = n + 1,
           NEW q, NEW a, NEW pend, NEW c, NEW s, Chained(q, a, pend, c, s, b, n)
    PROVE  Chained(q, a, pend, c, s, Append(b, d), n + 1)
<1>1. PICK G \in SUBSET DOMAIN q :
          Good(G, q, a, pend) /\ Backed(b, Cover(c, s, Reach(G, q, a, pend)), n)
  BY DEF Chained
<1> DEFINE C == Cover(c, s, Reach(G, q, a, pend))
           r == Append(b, d)
           k == Len(b)
<1>2. /\ k \in Nat /\ DOMAIN b = 1 .. k /\ DOMAIN r = 1 .. k + 1 /\ Len(r) = k + 1
      /\ \A i \in DOMAIN b : r[i] = b[i]
      /\ r[k + 1] = d
      /\ b = <<>> <=> k = 0
      /\ r # <<>>
  BY AppendSeq
<1>3. d.gen - 1 = n
  OBVIOUS
<1> HIDE DEF C, r, k
<1>4. Backed(b, C, n)
  BY <1>1 DEF C
<1>5. Backed(r, C, n + 1)
  <2>1. CASE k = 0
    BY <1>2, <1>3, <1>4, <2>1 DEF Backed
  <2>2. CASE k # 0
    <3>1. 1 \in DOMAIN b /\ k \in DOMAIN b /\ r[1] = b[1] /\ r[k] = b[k] /\ b[k].gen = n
      BY <1>2, <1>4, <2>2 DEF Backed, k
    <3>2. ASSUME NEW i \in DOMAIN r, i # 1 PROVE r[i - 1].gen >= r[i].gen - 1
      <4>1. CASE i = k + 1
        <5>1. i - 1 = k /\ r[i - 1].gen = n /\ r[i].gen - 1 = n
          BY <1>2, <1>3, <3>1, <4>1
        <5> QED BY <5>1
      <4>2. CASE i # k + 1
        <5>1. i \in DOMAIN b /\ i - 1 \in DOMAIN b /\ r[i] = b[i] /\ r[i - 1] = b[i - 1]
          BY <1>2, <3>2, <4>2
        <5> QED BY <1>2, <1>4, <2>2, <3>2, <5>1 DEF Backed
      <4> QED BY <4>1, <4>2
    <3> QED BY <1>2, <1>4, <2>2, <3>1, <3>2 DEF Backed
  <2> QED BY <2>1, <2>2
<1> QED BY <1>1, <1>5 DEF Chained, C, r

-----------------------------------------------------------------------------
(***************************************************************************)
(* One step.                                                                *)
(***************************************************************************)
LEMMA HeldFacts ==
    ASSUME HeldInv
    PROVE  /\ newest \in Nat /\ applied \in Nat
           /\ \A p \in Pushers : backlog[p] \in Backlogs(newest) /\ backlog[p] \in Seq(Directives)
           /\ \A p \in Pushers : call[p] # NoCall => call[p].sub \in Subs /\ call[p].dir \in Directives
           /\ \A s \in Subs : /\ queue[s] \in Seq(Directives)
                              /\ pending[s] \in SUBSET Directives
                              /\ pending[s] \in SUBSET {d \in Directives : d.kind = "DESIRED_STATE"}
           /\ DOMAIN backlog = Pushers /\ DOMAIN call = Pushers
           /\ DOMAIN queue = Subs /\ DOMAIN pending = Subs /\ DOMAIN owed = Subs
<1> USE DEF HeldInv
<1>1. newest \in Nat /\ applied \in Nat
  BY SyncAssumption
<1>2. \A p \in Pushers : backlog[p] \in Backlogs(newest) /\ backlog[p] \in Seq(Directives)
  BY DEF Backlogs, Queues
<1>3. \A p \in Pushers : call[p] # NoCall => call[p].sub \in Subs /\ call[p].dir \in Directives
  BY DEF Calls, Held
<1>4. \A s \in Subs : queue[s] \in Seq(Directives)
  BY DEF Queues
<1>5. \A s \in Subs : /\ pending[s] \in SUBSET Directives
                      /\ pending[s] \in SUBSET {d \in Directives : d.kind = "DESIRED_STATE"}
  BY DEF Stashes, Held
<1>6. /\ DOMAIN backlog = Pushers /\ DOMAIN call = Pushers
      /\ DOMAIN queue = Subs /\ DOMAIN pending = Subs /\ DOMAIN owed = Subs
  OBVIOUS
<1> QED BY <1>1, <1>2, <1>3, <1>4, <1>5, <1>6

LEMMA LinkChain ==
    ASSUME SInv, ChainInv, Link \/ OtherReport \/ UNCHANGED vars, Connected' => Connected
    PROVE  ChainInv'
<1>1. UNCHANGED <<dlvars, newest, watches, backlog, asks, applied, flaw>>
  BY DEF Link, OtherReport, vars
<1> QED BY <1>1 DEF ChainInv, Settling, dlvars

LEMMA SentChain ==
    ASSUME SInv, Connected, NEW d, Sent(d), d.kind = "DESIRED_STATE", d.gen = newest',
           UNCHANGED watches
    PROVE  ChainInv'
<1>1. watches \in Pushers /\ DOMAIN backlog = Pushers
  BY WatchesWorkers, HeldFacts DEF SInv
<1>2. backlog'[watches'] = <<d>>
  BY <1>1 DEF Sent
<1> QED BY <1>2, ChainedFresh DEF ChainInv

LEMMA ServerChain ==
    ASSUME SInv, ChainInv, Feed \/ Change \/ Ask, Connected' => Connected \/ Feed
    PROVE  ChainInv'
<1>0. LinkType /\ WatchInv /\ HeldInv
  BY DEF SInv
<1>1. CASE Feed
  <2>1. watches + 1 \in Pushers
    <3>1. ~Connected
      BY <1>1 DEF Feed, Receives, Connected
    <3> QED BY <1>0, <3>1, WatchesWorkers
  <2>2. backlog'[watches'] = <<State(newest')>>
    BY <1>0, <1>1, <2>1, HeldFacts DEF Feed
  <2> QED BY <2>2, ChainedFresh DEF ChainInv, State
<1>2. CASE Change
  <2>1. SUFFICES ASSUME Settling' PROVE Chained(queue[cur], applied, pending[cur], call[watches], cur, backlog'[watches], newest')
    BY <1>2 DEF ChainInv, Change, dlvars
  <2>2. Settling /\ Connected
    BY <1>2, <2>1 DEF Settling, Change, dlvars, linkvars, Connected, Serves
  <2>3. PICK d \in {State(newest + 1), Delta(newest + 1)} : Sent(d)
    BY <1>2 DEF Change
  <2>4. newest' = newest + 1 /\ newest + 1 \in 1 .. MaxGen /\ watches \in Pushers
    BY <1>0, <1>2, <2>2, WatchesWorkers, SyncAssumption DEF Change, HeldInv
  <2>5. CASE d = State(newest + 1)
    <3>1. backlog'[watches] = <<d>> /\ d.kind = "DESIRED_STATE" /\ d.gen = newest'
      BY <1>0, <2>2, <2>3, <2>4, <2>5, HeldFacts DEF Sent, State
    <3> QED BY <3>1, ChainedFresh
  <2>6. CASE d = Delta(newest + 1)
    <3>1. d \in Directives /\ d.kind = "DESIRED_DELTA" /\ d.gen = newest + 1
      BY <2>4, <2>6, MadeTypes
    <3>2. backlog'[watches] = Append(backlog[watches], d)
      BY <1>0, <2>2, <2>3, <2>4, <3>1, HeldFacts DEF Sent
    <3>3. backlog[watches] \in Seq(Directives) /\ newest \in Nat
      BY <1>0, <2>4, HeldFacts
    <3>4. Chained(queue[cur], applied, pending[cur], call[watches], cur, backlog[watches], newest)
      BY <2>2 DEF ChainInv
    <3> QED BY <2>4, <3>1, <3>2, <3>3, <3>4, ChainedDelta
  <2> QED BY <2>5, <2>6
<1>3. CASE Ask
  <2>1. SUFFICES ASSUME Settling' PROVE ChainInv'
    BY DEF ChainInv
  <2>2. Connected
    BY <1>3, <2>1 DEF Settling, Feed, Receives, Ask, Reports
  <2>3. Sent(State(newest))
    BY <1>3, <2>1 DEF Ask, Settling
  <2> QED BY <1>3, <2>2, <2>3, SentChain DEF Ask, State
<1> QED BY <1>1, <1>2, <1>3

LEMMA RelayChain ==
    ASSUME SInv, ChainInv, NEW p \in Pushers, Relay(p) \/ Settles(p)
    PROVE  ChainInv'
<1>0. LinkType /\ WatchInv /\ HeldInv /\ StreamInv
  BY DEF SInv
<1> SUFFICES ASSUME Settling' PROVE ChainInv'
  BY DEF ChainInv
<1>1. UNCHANGED <<linkvars, newest, watches, asks, applied, flaw, cur, over>>
  BY DEF Relay, Settles, Offer, Accept, Stash, Drop, Refuse, dlvars
<1>2. cur \in Subs \ over
  BY <1>0, <1>1 DEF Settling, StreamInv
<1>3. Settling
  BY <1>0, <1>1, <1>2, HeldFacts DEF Settling, linkvars, Connected, Serves, Relay, Settles, Offer, Accept, Stash, Drop, Refuse, dlvars
<1>4. watches \in Pushers
  BY <1>0, <1>3, WatchesWorkers DEF Settling
<1> DEFINE q == queue[cur]
           pend == pending[cur]
           c == call[watches]
           b == backlog[watches]
<1>5. Chained(q, applied, pend, c, cur, b, newest)
  BY <1>3 DEF ChainInv
<1>6. SUFFICES Chained(queue'[cur], applied, pending'[cur], call'[watches], cur, backlog'[watches], newest)
  BY <1>1 DEF ChainInv
<1>7. CASE Relay(p)
  <2>1. backlog' = [backlog EXCEPT ![p] = Tail(@)] /\ b \in Backlogs(newest)
    BY <1>0, <1>4, <1>7, HeldFacts DEF Relay
  <2>2. /\ queue' = queue /\ pending' = pending
        /\ call' = [call EXCEPT ![p] = [sub |-> cur, dir |-> Head(backlog[p])]]
    BY <1>2, <1>7 DEF Relay, Offer, Subs, NoSub
  <2>3. CASE p = watches
    <3>1. c = NoCall /\ b # <<>> /\ backlog'[watches] = Tail(b) /\ call'[watches] = [sub |-> cur, dir |-> Head(b)]
      BY <1>0, <1>7, <2>1, <2>2, <2>3, HeldFacts DEF Relay
    <3>2. Chained(q, applied, pend, [sub |-> cur, dir |-> Head(b)], cur, Tail(b), newest)
      BY <1>5, <2>1, <3>1, ChainedRelay
    <3> QED BY <2>2, <3>1, <3>2
  <2>4. CASE p # watches
    BY <1>0, <1>4, <1>5, <2>1, <2>2, <2>4, HeldFacts
  <2> QED BY <2>3, <2>4
<1>8. CASE Settles(p)
  <2>1. call[p] # NoCall /\ call' = [call EXCEPT ![p] = NoCall] /\ backlog' = backlog
    BY <1>8 DEF Settles, Accept, Stash, Drop, Refuse, Settle
  <2> DEFINE s == call[p].sub
             d == call[p].dir
  <2>2. s \in Subs /\ d \in Directives
    BY <1>0, <2>1, HeldFacts
  <2>3. q \in Seq(Directives) /\ applied \in Nat /\ pend \in SUBSET {x \in Directives : x.kind = "DESIRED_STATE"}
    BY <1>0, <1>2, HeldFacts
  <2>4. p # watches => call'[watches] = c
    BY <2>1
  <2>5. p = watches => call'[watches] = NoCall /\ c = call[p]
    BY <1>0, <2>1, HeldFacts
  <2>6. CASE s # cur
    <3>1. queue'[cur] = q /\ pending'[cur] = pend
      <4>1. CASE Accept(p)
        BY <2>6, <4>1 DEF Accept
      <4>2. CASE Stash(p)
        BY <2>6, <4>2 DEF Stash
      <4>3. CASE Drop(p) \/ Refuse(p)
        BY <4>3 DEF Drop, Refuse
      <4> QED BY <1>8, <4>1, <4>2, <4>3 DEF Settles
    <3>2. p = watches => Chained(q, applied, pend, NoCall, cur, b, newest)
      BY <1>5, <2>5, <2>6, ChainedCall
    <3> HIDE DEF c, s, q, pend
    <3> QED BY <1>5, <2>1, <2>4, <2>5, <3>1, <3>2
  <2>7. CASE s = cur /\ Accept(p)
    <3>1. queue'[cur] = Append(q, d) /\ pending'[cur] = pend
      BY <1>0, <1>2, <2>7, HeldFacts DEF Accept
    <3>2. Chained(Append(q, d), applied, pend, c, cur, b, newest)
      BY <1>5, <2>2, <2>3, ChainedAppend
    <3>3. p = watches => Chained(Append(q, d), applied, pend, NoCall, cur, b, newest)
      BY <1>5, <2>1, <2>2, <2>3, <2>5, <2>7, ChainedAppend
    <3> HIDE DEF c, s, q, pend, d
    <3> QED BY <2>1, <2>4, <2>5, <3>1, <3>2, <3>3
  <2>8. CASE s = cur /\ Stash(p)
    <3>1. /\ queue'[cur] = q /\ pending'[cur] = NewerWins(pend, d)
          /\ d.kind = "DESIRED_STATE"
      BY <1>0, <1>2, <2>2, <2>8, HeldFacts, DirectiveTypes DEF Stash
    <3>2. Chained(q, applied, NewerWins(pend, d), c, cur, b, newest)
      BY <1>5, <2>2, <2>3, <3>1, ChainedStash
    <3>3. p = watches => Chained(q, applied, NewerWins(pend, d), NoCall, cur, b, newest)
      BY <1>5, <2>1, <2>2, <2>3, <2>5, <2>8, <3>1, ChainedStash
    <3> HIDE DEF c, s, q, pend, d
    <3> QED BY <2>1, <2>4, <2>5, <3>1, <3>2, <3>3
  <2>9. CASE s = cur /\ Drop(p)
    <3>1. owed'[cur]
      BY <1>0, <1>2, <2>9, HeldFacts DEF Drop
    <3> QED BY <1>1, <3>1 DEF Settling
  <2>10. CASE s = cur /\ Refuse(p)
    BY <1>2, <2>10 DEF Refuse
  <2> QED BY <1>8, <2>6, <2>7, <2>8, <2>9, <2>10 DEF Settles
<1> QED BY <1>7, <1>8

LEMMA AgentChain ==
    ASSUME SInv, ChainInv, NEW s \in Subs,
           AgentSubscribes(s) \/ AgentGone(s) \/ SendsQueued(s) \/ SendsStashed(s) \/ Resyncs(s)
    PROVE  ChainInv'
<1>0. HeldInv /\ StreamInv /\ asks \in Nat
  BY DEF SInv, HeldInv
<1> SUFFICES ASSUME Settling' PROVE ChainInv'
  BY DEF ChainInv
<1>1. ~AgentSubscribes(s) /\ ~Resyncs(s)
  <2>1. asks' = 0
    BY DEF Settling
  <2> QED BY <1>0, <2>1 DEF AgentSubscribes, Resyncs
<1>2. /\ UNCHANGED <<linkvars, newest, watches, backlog, asks, call, owed, cur>>
      /\ cur \in Subs
  BY <1>0, <1>1 DEF AgentGone, End, SendsQueued, TakeQueued, SendsStashed, TakeStashed, Settling,
                    StreamInv
<1>3. Settling
  BY <1>1, <1>2 DEF Settling, linkvars, Connected, Serves, AgentGone, SendsQueued, SendsStashed
<1> DEFINE q == queue[cur]
           pend == pending[cur]
           c == call[watches]
           b == backlog[watches]
<1>4. Chained(q, applied, pend, c, cur, b, newest)
  BY <1>3 DEF ChainInv
<1>5. SUFFICES Chained(queue'[cur], applied', pending'[cur], c, cur, b, newest)
  BY <1>2 DEF ChainInv
<1>6. q \in Seq(Directives) /\ applied \in Nat /\ pend \in SUBSET Directives
  BY <1>0, <1>2, HeldFacts
<1>7. CASE AgentGone(s)
  BY <1>4, <1>7 DEF AgentGone, End
<1>8. CASE SendsQueued(s)
  <2> DEFINE d == Head(queue[s])
  <2>0. queue[s] # <<>> /\ d \in Directives /\ pending' = pending /\ queue' = [queue EXCEPT ![s] = Tail(@)]
    BY <1>0, <1>8, HeldFacts, TailSeq DEF SendsQueued, TakeQueued
  <2>1. Apply(s, d)
    BY <1>8 DEF SendsQueued
  <2>2. CASE s # cur
    BY <1>4, <2>0, <2>1, <2>2 DEF Apply
  <2>3. CASE s = cur
    <3>1. queue'[cur] = Tail(q) /\ q # <<>> /\ d = Head(q)
      BY <1>0, <2>0, <2>3, HeldFacts
    <3>2. d.gen \in Nat \ {0} /\ d.kind \in {"DESIRED_STATE", "DESIRED_DELTA"}
      BY <2>0, DirectiveTypes
    <3>3. /\ applied' \in Nat /\ applied <= applied'
          /\ d.kind = "DESIRED_STATE" => applied' >= d.gen
          /\ d.kind = "DESIRED_DELTA" /\ applied >= d.gen - 1 => applied' >= d.gen
      <4> HIDE DEF d
      <4> QED BY <1>6, <2>1, <2>3, <3>2 DEF Apply
    <3>4. d.kind = "DESIRED_DELTA" => pend = {}
      BY <1>8, <2>3 DEF SendsQueued, Settling
    <3> QED BY <1>4, <1>6, <2>0, <3>1, <3>3, <3>4, ChainedTail
  <2> QED BY <2>2, <2>3
<1>9. CASE SendsStashed(s)
  <2>1. PICK d \in pending[s] : TakeStashed(s, d) /\ Apply(s, d)
    BY <1>9 DEF SendsStashed
  <2>2. queue' = queue /\ pending' = [pending EXCEPT ![s] = @ \ {d}] /\ \A x \in pending[s] : x.gen <= d.gen
    BY <2>1 DEF TakeStashed
  <2>3. CASE s # cur
    BY <1>4, <2>1, <2>2, <2>3 DEF Apply
  <2>4. CASE s = cur
    <3>1. pending'[cur] = pend \ {d} /\ d \in Directives /\ d.kind = "DESIRED_STATE"
      BY <1>0, <2>1, <2>2, <2>4, HeldFacts
    <3>2. d.gen \in Nat /\ \A x \in pend : x.gen \in Nat
      BY <1>6, <3>1, DirectiveTypes
    <3>3. applied' \in Nat /\ applied <= applied' /\ d.gen <= applied'
      BY <1>6, <2>1, <2>4, <3>1, <3>2 DEF Apply
    <3>4. \A x \in pend : applied' >= x.gen
      BY <2>2, <2>4, <3>2, <3>3
    <3>5. Chained(q, applied', pend \ {d}, c, cur, b, newest)
      BY <1>4, <1>6, <3>3, <3>4, ChainedMore
    <3> QED BY <2>2, <3>1, <3>5
  <2> QED BY <2>3, <2>4
<1> QED BY <1>1, <1>7, <1>8, <1>9

LEMMA ChainStep == SInv /\ ChainInv /\ [Next]_vars => ChainInv'
<1> SUFFICES ASSUME SInv, ChainInv, [Next]_vars PROVE ChainInv'
  OBVIOUS
<1>1. Connected' => Connected \/ Feed
  BY WatchStep DEF SInv
<1> QED BY <1>1, LinkChain, ServerChain, RelayChain, AgentChain DEF Next

LEMMA QuietFromChain == SInv /\ ChainInv => QuietInSync
<1> SUFFICES ASSUME SInv, ChainInv, Connected, cur # NoSub, ~OnItsWay, flaw = {}
             PROVE  applied = newest
  BY DEF QuietInSync
<1>1. LinkType /\ WatchInv /\ HeldInv /\ StreamInv
  BY DEF SInv
<1>2. cur \in Subs /\ asks = 0 /\ ~owed[cur] /\ queue[cur] = <<>> /\ pending[cur] = {}
  BY <1>1 DEF OnItsWay, HeldInv, StreamInv
<1>3. watches \in Pushers /\ backlog[watches] = <<>> /\ call[watches] = NoCall
  BY <1>1, WatchesWorkers DEF OnItsWay
<1>4. Chained(<<>>, applied, {}, NoCall, cur, <<>>, newest)
  BY <1>2, <1>3 DEF ChainInv, Settling
<1>5. PICK G \in SUBSET DOMAIN <<>> :
          Backed(<<>>, Cover(NoCall, cur, Reach(G, <<>>, applied, {})), newest)
  BY <1>4 DEF Chained
<1>6. G = {}
  OBVIOUS
<1>7. newest \in Reach({}, <<>>, applied, {})
  BY <1>5, <1>6 DEF Backed, Cover
<1>8. applied >= newest
  BY <1>7 DEF Reach
<1> QED BY <1>1, <1>8 DEF HeldInv

(***************************************************************************)
(* With the Watch fed, an agent on a stream and nothing on its way to it any *)
(* more, the agent has the newest generation, however often pods, Watches,   *)
(* streams and agents came and went, whatever was superseded, coalesced or   *)
(* dropped in between: unless an ask was lost, or a delta was sent ahead of   *)
(* the stashed snapshot before it, and no full snapshot was sent since.      *)
(***************************************************************************)
THEOREM QuietSync == Spec => []QuietInSync
<1>1. Init => ChainInv
  BY DEF Init, DLInit, ChainInv, Settling
<1> QED BY <1>1, InitS, SStep, ChainStep, QuietFromChain, PTL DEF Spec

-----------------------------------------------------------------------------
\* A step is one of the downlink's, or leaves the downlink alone.
LEMMA DownlinkUnder == SInv /\ Next => [DLNext]_dlvars
<1> SUFFICES ASSUME SInv, Next PROVE [DLNext]_dlvars
  OBVIOUS
<1>1. CASE Link \/ Feed \/ Change \/ Ask \/ OtherReport
  BY <1>1 DEF Link, Feed, Change, Ask, OtherReport
<1>2. ASSUME NEW p \in Pushers, Relay(p) PROVE [DLNext]_dlvars
  <2>1. Head(backlog[p]) \in Directives
    BY <1>2, HeldFacts, TailSeq DEF SInv, Relay
  <2> QED BY <1>2, <2>1 DEF Relay, DLNext
<1>3. ASSUME NEW p \in Pushers, Settles(p) PROVE [DLNext]_dlvars
  BY <1>3 DEF Settles, DLNext
<1>4. ASSUME NEW s \in Subs, AgentSubscribes(s) \/ AgentGone(s) PROVE [DLNext]_dlvars
  BY <1>4 DEF AgentSubscribes, AgentGone, DLNext
<1>5. ASSUME NEW s \in Subs, SendsQueued(s) \/ SendsStashed(s) \/ Resyncs(s) PROVE [DLNext]_dlvars
  BY <1>5 DEF SendsQueued, SendsStashed, Resyncs, DLNext
<1> QED BY <1>1, <1>2, <1>3, <1>4, <1>5 DEF Next

(***************************************************************************)
(* The parts this system is composed of keep their own specifications: every *)
(* step is one of the link's or leaves the link alone, and one of the        *)
(* downlink's or leaves the downlink alone.  So whatever implements Downlink, *)
(* as AgentPush does, may stand in its place.                               *)
(***************************************************************************)
THEOREM Composed == Spec => LinkSpec /\ DLSpec
<1>1. Init => LinkInit /\ DLInit
  BY DEF Init
<1>2. SInv /\ [Next]_vars => [LinkNext]_linkvars /\ [DLNext]_dlvars
  BY LinkUnder, DownlinkUnder DEF vars
<1> QED BY <1>1, <1>2, InitS, SStep, PTL DEF Spec, LinkSpec, DLSpec
=============================================================================
