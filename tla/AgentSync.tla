----------------------------- MODULE AgentSync ------------------------------
(***************************************************************************)
(* One agent's desired state, end to end: the server's newest generation,   *)
(* the link (ServerLink), the relay workers of the Watch connections, the    *)
(* downlink (Downlink, which AgentPush implements), and what the coverer     *)
(* asks for: onSubscribe and onResync send AGENT_SUBSCRIBE, each on a        *)
(* goroutine of its own, and the server answers with a full snapshot.        *)
(*                                                                          *)
(* The server and the agent are external.  The server renders a full         *)
(* snapshot for every new Watch and every ask, and a snapshot or a delta for *)
(* every change; the agent applies a newer snapshot, and a delta to the      *)
(* generation right before it.  The backstops outside of src/, the agent's   *)
(* gap detection and the server's periodic snapshot, are left out: this is   *)
(* what the coverer achieves without them.                                  *)
(***************************************************************************)
EXTENDS ServerLink, Downlink

CONSTANT
    MaxGen        \* desired states of the edge, one after the other (bound)

\* A relay worker pushes for the Watch connection it belongs to.
ASSUME SyncAssumption ==
    /\ MaxGen \in Nat \ {0}
    /\ Pushers = 1 .. MaxPods + MaxFaults
    /\ Directives = [kind : {"DESIRED_STATE", "DESIRED_DELTA"}, gen : 1 .. MaxGen]

VARIABLES
    newest,       \* generation of the desired state in the server's store
    watches,      \* Watch connections that delivered so far
    backlog,      \* per connection: received and not yet pushed
    asks,         \* goroutines about to send AGENT_SUBSCRIBE
    applied,      \* generation the agent has applied
    flaw          \* history: what the last full snapshot asked for has not made good

vars == <<linkvars, dlvars, newest, watches, backlog, asks, applied, flaw>>

State(g) == [kind |-> "DESIRED_STATE", gen |-> g]
Delta(g) == [kind |-> "DESIRED_DELTA", gen |-> g]

Init ==
    /\ LinkInit /\ DLInit
    /\ newest = 1
    /\ watches = 0
    /\ backlog = [p \in Pushers |-> <<>>]
    /\ asks = 0
    /\ applied = 0
    /\ flaw = {}

-----------------------------------------------------------------------------
(***************************************************************************)
(* The server.  What it sends arrives while the Watch is up; a new Watch     *)
(* gets a full snapshot whatever was lost before.                           *)
(***************************************************************************)
Connected == watch = "fed" /\ Serves

Sent_Appends(d) ==      \* mutant: a snapshot supersedes nothing
    backlog' = IF Connected THEN [backlog EXCEPT ![watches] = Append(@, d)] ELSE backlog

\* edgeWorker.enqueue: a full snapshot supersedes the desired state before it.
Sent(d) ==
    backlog' = IF Connected
               THEN [backlog EXCEPT ![watches] =
                       IF d.kind = "DESIRED_STATE" THEN <<d>> ELSE Append(@, d)]
               ELSE backlog

Feed ==
    /\ Receives
    /\ watches' = watches + 1
    /\ backlog' = [backlog EXCEPT ![watches + 1] = <<State(newest)>>]
    /\ flaw' = {}
    /\ UNCHANGED <<dlvars, newest, asks, applied>>

Change ==
    /\ newest < MaxGen
    /\ newest' = newest + 1
    /\ \E d \in {State(newest + 1), Delta(newest + 1)} : Sent(d)
    /\ UNCHANGED <<linkvars, dlvars, watches, asks, applied, flaw>>

(***************************************************************************)
(* The coverer asks, or reports something else on the same stream.          *)
(***************************************************************************)
Ask ==
    /\ asks > 0 /\ asks' = asks - 1
    /\ Reports
    /\ \/ Arrives /\ Sent(State(newest)) /\ flaw' = {}
       \/ Lost /\ flaw' = flaw \cup {"ask_lost"} /\ UNCHANGED backlog
    /\ UNCHANGED <<dlvars, newest, watches, applied>>

OtherReport ==
    /\ Reports
    /\ UNCHANGED <<dlvars, newest, watches, backlog, asks, applied, flaw>>

(***************************************************************************)
(* The relay worker of connection p: relayDirective pushes what is next; the *)
(* push is dropped if the agent has no stream (ErrNotSubscribed).            *)
(***************************************************************************)
Relay(p) ==
    /\ backlog[p] # <<>> /\ call[p] = NoCall
    /\ backlog' = [backlog EXCEPT ![p] = Tail(@)]
    /\ IF cur # NoSub THEN Offer(p, Head(backlog[p])) ELSE UNCHANGED dlvars
    /\ UNCHANGED <<linkvars, newest, watches, asks, applied, flaw>>

Settles(p) ==
    /\ Accept(p) \/ Stash(p) \/ Drop(p) \/ Refuse(p)
    /\ UNCHANGED <<linkvars, newest, watches, backlog, asks, applied, flaw>>

-----------------------------------------------------------------------------
(***************************************************************************)
(* The agent: subscribes, with what it had applied or restarted empty.      *)
(***************************************************************************)
AgentSubscribes_NoHook(s) ==    \* mutant: nobody asks for the first snapshot
    /\ Open(s)
    /\ applied' \in {0, applied}
    /\ UNCHANGED <<linkvars, newest, watches, backlog, asks, flaw>>

AgentSubscribes(s) ==
    /\ Open(s)
    /\ asks' = asks + 1             \* go s.onSubscribe(edge)
    /\ applied' \in {0, applied}
    /\ UNCHANGED <<linkvars, newest, watches, backlog, flaw>>

AgentGone(s) ==
    /\ End(s)
    /\ UNCHANGED <<linkvars, newest, watches, backlog, asks, applied, flaw>>

Apply(s, d) ==
    applied' = IF s # cur THEN applied      \* nobody reads a superseded stream
               ELSE IF d.kind = "DESIRED_STATE" /\ d.gen > applied THEN d.gen
               ELSE IF d.kind = "DESIRED_DELTA" /\ d.gen = applied + 1 THEN d.gen
               ELSE applied

\* History: a delta that is sent while a snapshot pushed before it is pending.
SendsQueued(s) ==
    /\ TakeQueued(s) /\ Apply(s, Head(queue[s]))
    /\ flaw' = IF Head(queue[s]).kind = "DESIRED_DELTA" /\ pending[s] # {}
               THEN flaw \cup {"overtaken"} ELSE flaw
    /\ UNCHANGED <<linkvars, newest, watches, backlog, asks>>

SendsStashed(s) ==
    /\ \E d \in pending[s] : TakeStashed(s, d) /\ Apply(s, d)
    /\ UNCHANGED <<linkvars, newest, watches, backlog, asks, flaw>>

Resyncs(s) ==
    /\ TakeOwed(s)
    /\ asks' = asks + 1             \* go resync(edge)
    /\ UNCHANGED <<linkvars, newest, watches, backlog, applied, flaw>>

-----------------------------------------------------------------------------
Link == LinkStep /\ UNCHANGED <<dlvars, newest, watches, backlog, asks, applied, flaw>>

Next ==
    \/ Link
    \/ Feed \/ Change \/ Ask \/ OtherReport
    \/ \E p \in Pushers : Relay(p) \/ Settles(p)
    \/ \E s \in Subs :
          \/ AgentSubscribes(s) \/ AgentGone(s)
          \/ SendsQueued(s) \/ SendsStashed(s) \/ Resyncs(s)

Spec == Init /\ [][Next]_vars

(***************************************************************************)
(* The fairness of the link, and goroutines run.  The finite backlogs of     *)
(* this model spare the send loop more: nothing keeps its select busy.       *)
(* Nothing makes an agent subscribe or leave, or a generation change.       *)
(***************************************************************************)
FairSpec ==
    /\ Spec
    /\ WF_vars(Link /\ (DnsFollows \/ KeepaliveBreaks))
    /\ WF_vars(Link /\ WatchLoop)
    /\ WF_vars(Feed)
    /\ WF_vars(Ask)
    /\ \A p \in Pushers : WF_vars(Relay(p) \/ Settles(p))
    /\ \A s \in Subs : WF_vars(SendsQueued(s) \/ SendsStashed(s) \/ Resyncs(s))

-----------------------------------------------------------------------------
(***************************************************************************)
(* The types; a backlog holds at most one snapshot, the first of it, and     *)
(* only snapshots are stashed.                                              *)
(***************************************************************************)
TypeOK ==
    /\ LinkType
    /\ newest \in 1 .. MaxGen /\ applied \in 0 .. newest
    /\ watches \in 0 .. MaxPods + MaxFaults
    /\ backlog \in [Pushers -> Seq(Directives)]
    /\ \A p \in Pushers : \A i \in 2 .. Len(backlog[p]) : backlog[p][i].kind = "DESIRED_DELTA"
    /\ queue \in [Subs -> Seq(Directives)]
    /\ pending \in [Subs -> SUBSET {d \in Directives : d.kind = "DESIRED_STATE"}]
    /\ asks \in Nat
    /\ flaw \subseteq {"ask_lost", "overtaken"}

(***************************************************************************)
(* With nothing on its way to an agent on a stream, it has the newest        *)
(* generation, unless an ask was lost, or a delta went out ahead of the      *)
(* stashed snapshot before it, and no full snapshot was sent since.          *)
(***************************************************************************)
OnItsWay ==
    \/ asks > 0 \/ owed[cur] \/ queue[cur] # <<>> \/ pending[cur] # {}
    \/ \E p \in Pushers : backlog[p] # <<>> \/ call[p] # NoCall

QuietInSync == Connected /\ cur # NoSub => OnItsWay \/ applied = newest \/ flaw # {}

(***************************************************************************)
(* "converging the agent to the latest desired state" (server.go:130-131):   *)
(* an agent on a stream ends up with the newest generation, unless an ask    *)
(* was lost, or a delta went out ahead of the stashed snapshot before it,    *)
(* and no full snapshot was sent since.                                     *)
(***************************************************************************)
Converges == <>[](cur = NoSub \/ applied = newest \/ flaw # {})
=============================================================================
