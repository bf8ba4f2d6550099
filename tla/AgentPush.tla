----------------------------- MODULE AgentPush ------------------------------
(***************************************************************************)
(* The downlink to one agent (internal/grpcsrv/server.go): push() by the    *)
(* relay workers on one side, the send loop of Subscribe on the other, and  *)
(* between them a bounded channel, a byte count, a latest-wins pending area *)
(* and two depth-1 wake-up channels.  A re-subscribe supersedes a stream    *)
(* while its loop and pushes into it are still running, so there is one     *)
(* copy of everything per subscription.                                     *)
(*                                                                          *)
(* Each step is one access to shared state: an atomic load or add, a channel *)
(* operation, or one critical section under s.mu or sb.pmu.  A push to an   *)
(* edge with no subscription (ErrNotSubscribed) changes nothing and is no   *)
(* step.                                                                    *)
(***************************************************************************)
EXTENDS Integers, Sequences, FiniteSets

CONSTANTS
    Pushers,      \* goroutines calling push: an edge worker, and after a Watch
                  \* reconnect the old connection's worker, too
    Directives,   \* what may be pushed: records of kind, gen and size
    ChDepth,      \* pushBuffer
    MaxBytes,     \* maxQueueBytes
    MaxSubs       \* subscriptions of the agent, one after the other (bound)

Kinds == {"DESIRED_STATE", "DESIRED_DELTA", "CHUNK", "REHOME"}

ASSUME PushAssumption ==
    /\ Directives \subseteq [kind : Kinds, gen : Nat, size : Nat]
    /\ ChDepth \in Nat \ {0} /\ MaxBytes \in Nat /\ MaxSubs \in Nat \ {0}

Subs == 1 .. MaxSubs
NoSub == 0
NoDirective == [kind |-> "none", gen |-> 0, size |-> 0]

VARIABLES
    cur,          \* s.subs[edge], NoSub when absent
    ch,           \* the buffered channel of each subscription
    queuedBytes,
    pending,      \* newest coalesced directive per kind
    needResync,
    wake, drain,  \* a token is in the depth-1 channel
    closed,       \* how often done was closed
    loop,         \* where the send loop is
    hand,         \* the directive it received and has not debited yet
    pusher        \* where each pusher is, its subscription and its directive

queue == <<ch, queuedBytes, pending, needResync, wake, drain>>
vars == <<cur, queue, closed, loop, hand, pusher>>

Idle == [pc |-> "idle", sub |-> NoSub, dir |-> NoDirective]

Init ==
    /\ cur = NoSub
    /\ ch = [s \in Subs |-> <<>>]
    /\ queuedBytes = [s \in Subs |-> 0]
    /\ pending = [s \in Subs |-> {}]
    /\ needResync = [s \in Subs |-> FALSE]
    /\ wake = [s \in Subs |-> FALSE]
    /\ drain = [s \in Subs |-> FALSE]
    /\ closed = [s \in Subs |-> 0]
    /\ loop = [s \in Subs |-> "absent"]
    /\ hand = [s \in Subs |-> NoDirective]
    /\ pusher = [p \in Pushers |-> Idle]

-----------------------------------------------------------------------------
(***************************************************************************)
(* Subscribe: the next stream takes the edge over and closes the done       *)
(* channel of the one it finds.  (onSubscribe then reports the subscribe up, *)
(* on a goroutine of its own: no state of this component.)                 *)
(***************************************************************************)
Subscribe(s) ==
    /\ loop[s] = "absent" /\ (s > 1 => loop[s - 1] # "absent")
    /\ closed' = [t \in Subs |-> IF t = cur THEN closed[t] + 1 ELSE closed[t]]
    /\ cur' = s
    /\ loop' = [loop EXCEPT ![s] = "select"]
    /\ UNCHANGED <<queue, hand, pusher>>

(***************************************************************************)
(* The send loop's select, one action per case that may be ready.          *)
(***************************************************************************)
Goto(s, pc) == loop' = [loop EXCEPT ![s] = pc]

StreamDies(s) ==    \* ctx.Done: the agent, its transport or the server may end it
    /\ loop[s] = "select"
    /\ Goto(s, "cleanup")
    /\ UNCHANGED <<cur, queue, closed, hand, pusher>>

SelectSuperseded(s) ==    \* done was closed by the next Subscribe
    /\ loop[s] = "select" /\ closed[s] > 0
    /\ Goto(s, "cleanup")
    /\ UNCHANGED <<cur, queue, closed, hand, pusher>>

SelectReceive(s) ==
    /\ loop[s] = "select" /\ ch[s] # <<>>
    /\ hand' = [hand EXCEPT ![s] = Head(ch[s])]
    /\ ch' = [ch EXCEPT ![s] = Tail(@)]
    /\ Goto(s, "debit")
    /\ UNCHANGED <<cur, queuedBytes, pending, needResync, wake, drain, closed, pusher>>

Debit(s) ==
    /\ loop[s] = "debit"
    /\ queuedBytes' = [queuedBytes EXCEPT ![s] = @ - hand[s].size]
    /\ hand' = [hand EXCEPT ![s] = NoDirective]
    /\ Goto(s, "freed")
    /\ UNCHANGED <<cur, ch, pending, needResync, wake, drain, closed, pusher>>

SignalDrain_None(s) ==    \* mutant: frees room and tells no chunk of it
    /\ loop[s] = "freed"
    /\ Goto(s, "send")
    /\ UNCHANGED <<cur, queue, closed, hand, pusher>>

SignalDrain(s) ==
    /\ loop[s] = "freed"
    /\ drain' = [drain EXCEPT ![s] = TRUE]
    /\ Goto(s, "send")
    /\ UNCHANGED <<cur, ch, queuedBytes, pending, needResync, wake, closed, hand, pusher>>

SelectWake(s) ==
    /\ loop[s] = "select" /\ wake[s]
    /\ wake' = [wake EXCEPT ![s] = FALSE]
    /\ Goto(s, "resync")
    /\ UNCHANGED <<cur, ch, queuedBytes, pending, needResync, drain, closed, hand, pusher>>

\* A resync that is owed is asked for on a goroutine of its own (onResync).
TakeNeedResync(s) ==
    /\ loop[s] = "resync"
    /\ needResync' = [needResync EXCEPT ![s] = FALSE]
    /\ Goto(s, "take")
    /\ UNCHANGED <<cur, ch, queuedBytes, pending, wake, drain, closed, hand, pusher>>

NothingPending(s) ==
    /\ loop[s] = "take" /\ pending[s] = {}
    /\ Goto(s, "select")
    /\ UNCHANGED <<cur, queue, closed, hand, pusher>>

\* The highest Generation first; more left re-arms the trigger.
TakePending(s) ==
    /\ loop[s] = "take"
    /\ \E d \in pending[s] :
          /\ \A q \in pending[s] : q.gen <= d.gen
          /\ pending' = [pending EXCEPT ![s] = @ \ {d}]
          /\ wake' = [wake EXCEPT ![s] = @ \/ pending[s] # {d}]
    /\ Goto(s, "send")
    /\ UNCHANGED <<cur, ch, queuedBytes, needResync, drain, closed, hand, pusher>>

Send(s) ==    \* stream.Send returns: the next round, or the error ends the loop
    /\ loop[s] = "send"
    /\ \/ Goto(s, "select")
       \/ Goto(s, "cleanup")
    /\ UNCHANGED <<cur, queue, closed, hand, pusher>>

Cleanup_Always(s) ==    \* mutant: does not look whether it was superseded
    /\ loop[s] = "cleanup"
    /\ cur' = NoSub
    /\ closed' = [closed EXCEPT ![s] = @ + 1]
    /\ Goto(s, "gone")
    /\ UNCHANGED <<queue, hand, pusher>>

Cleanup(s) ==
    /\ loop[s] = "cleanup"
    /\ cur' = IF cur = s THEN NoSub ELSE cur
    /\ closed' = [closed EXCEPT ![s] = IF cur = s THEN @ + 1 ELSE @]
    /\ Goto(s, "gone")
    /\ UNCHANGED <<queue, hand, pusher>>

-----------------------------------------------------------------------------
(***************************************************************************)
(* push(edge, d), by pusher p.                                             *)
(***************************************************************************)
At(p, pc) == pusher[p].pc = pc
Step(p, pc) == pusher' = [pusher EXCEPT ![p].pc = pc]
Return(p) == pusher' = [pusher EXCEPT ![p] = Idle]
HasRoom(s) == Len(ch[s]) < ChDepth

Push(p, d) ==
    /\ At(p, "idle") /\ cur # NoSub
    /\ pusher' = [pusher EXCEPT ![p] =
          [pc |-> IF d.kind = "CHUNK" THEN "load" ELSE "budget", sub |-> cur, dir |-> d]]
    /\ UNCHANGED <<cur, queue, closed, loop, hand>>

\* A chunk blocks while something is queued and it does not fit: two loads.
ChunkLoad(p) ==
    /\ At(p, "load")
    /\ Step(p, IF queuedBytes[pusher[p].sub] > 0 THEN "compare" ELSE "enqueue")
    /\ UNCHANGED <<cur, queue, closed, loop, hand>>

Fits(p) == queuedBytes[pusher[p].sub] + pusher[p].dir.size <= MaxBytes

ChunkCompare_NoCap(p) ==    \* mutant: a chunk is never held back
    /\ At(p, "compare")
    /\ Step(p, "enqueue")
    /\ UNCHANGED <<cur, queue, closed, loop, hand>>

ChunkCompare(p) ==
    /\ At(p, "compare")
    /\ Step(p, IF Fits(p) THEN "enqueue" ELSE "wait")
    /\ UNCHANGED <<cur, queue, closed, loop, hand>>

ChunkDrained(p) ==
    LET s == pusher[p].sub
    IN  /\ At(p, "wait") /\ drain[s]
        /\ drain' = [drain EXCEPT ![s] = FALSE]
        /\ Step(p, "load")
        /\ UNCHANGED <<cur, ch, queuedBytes, pending, needResync, wake, closed, loop, hand>>

\* The other kinds load the byte count once.
Budget(p) ==
    /\ At(p, "budget")
    /\ Step(p, IF Fits(p) THEN "try" ELSE "overflow")
    /\ UNCHANGED <<cur, queue, closed, loop, hand>>

Enqueue(p) ==
    LET s == pusher[p].sub
    IN  /\ (At(p, "try") \/ At(p, "enqueue")) /\ HasRoom(s)
        /\ ch' = [ch EXCEPT ![s] = Append(@, pusher[p].dir)]
        /\ Step(p, "credit")
        /\ UNCHANGED <<cur, queuedBytes, pending, needResync, wake, drain, closed, loop, hand>>

Credit(p) ==
    LET s == pusher[p].sub
    IN  /\ At(p, "credit")
        /\ queuedBytes' = [queuedBytes EXCEPT ![s] = @ + pusher[p].dir.size]
        /\ Return(p)
        /\ UNCHANGED <<cur, ch, pending, needResync, wake, drain, closed, loop, hand>>

\* select default: the channel is full.
ChannelFull(p) ==
    LET s == pusher[p].sub
    IN  /\ At(p, "try") /\ ~HasRoom(s) /\ closed[s] = 0
        /\ Step(p, "overflow")
        /\ UNCHANGED <<cur, queue, closed, loop, hand>>

\* <-sb.done in any of the three selects: ErrNotSubscribed.
Superseded(p) ==
    /\ At(p, "try") \/ At(p, "enqueue") \/ At(p, "wait")
    /\ closed[pusher[p].sub] > 0
    /\ Return(p)
    /\ UNCHANGED <<cur, queue, closed, loop, hand>>

MarkResync_Silent(p) ==    \* mutant: drops the delta and owes nothing for it
    /\ At(p, "overflow") /\ pusher[p].dir.kind = "DESIRED_DELTA"
    /\ Step(p, "signal")
    /\ UNCHANGED <<cur, queue, closed, loop, hand>>

MarkResync(p) ==
    LET s == pusher[p].sub
    IN  /\ At(p, "overflow") /\ pusher[p].dir.kind = "DESIRED_DELTA"
        /\ needResync' = [needResync EXCEPT ![s] = TRUE]
        /\ pending' = [pending EXCEPT ![s] = {q \in @ : q.kind # "DESIRED_DELTA"}]
        /\ Step(p, "signal")
        /\ UNCHANGED <<cur, ch, queuedBytes, wake, drain, closed, loop, hand>>

StashPending_Delta(p) ==    \* mutant: a delta is coalesced like the rest
    LET s == pusher[p].sub  d == pusher[p].dir
    IN  /\ At(p, "overflow")
        /\ pending' = [pending EXCEPT ![s] = {q \in @ : q.kind # d.kind} \cup {d}]
        /\ Step(p, "signal")
        /\ UNCHANGED <<cur, ch, queuedBytes, needResync, wake, drain, closed, loop, hand>>

StashPending(p) ==
    LET s == pusher[p].sub  d == pusher[p].dir
        newer == \A q \in pending[s] : q.kind = d.kind => d.gen >= q.gen
    IN  /\ At(p, "overflow") /\ d.kind # "DESIRED_DELTA"
        /\ pending' = [pending EXCEPT ![s] =
              IF newer THEN {q \in @ : q.kind # d.kind} \cup {d} ELSE @]
        /\ Step(p, "signal")
        /\ UNCHANGED <<cur, ch, queuedBytes, needResync, wake, drain, closed, loop, hand>>

SignalWake_None(p) ==    \* mutant: the send loop is not woken
    /\ At(p, "signal")
    /\ Return(p)
    /\ UNCHANGED <<cur, queue, closed, loop, hand>>

SignalWake(p) ==
    LET s == pusher[p].sub
    IN  /\ At(p, "signal")
        /\ wake' = [wake EXCEPT ![s] = TRUE]
        /\ Return(p)
        /\ UNCHANGED <<cur, ch, queuedBytes, pending, needResync, drain, closed, loop, hand>>

-----------------------------------------------------------------------------
LoopNext(s) ==
    \/ SelectSuperseded(s) \/ SelectReceive(s) \/ Debit(s) \/ SignalDrain(s) \/ SelectWake(s)
    \/ TakeNeedResync(s) \/ NothingPending(s) \/ TakePending(s) \/ Send(s) \/ Cleanup(s)

PushNext(p) ==
    \/ ChunkLoad(p) \/ ChunkCompare(p) \/ ChunkDrained(p) \/ Budget(p) \/ Enqueue(p)
    \/ Credit(p) \/ ChannelFull(p) \/ Superseded(p) \/ MarkResync(p) \/ StashPending(p)
    \/ SignalWake(p)

Next ==
    \/ \E s \in Subs : Subscribe(s)
    \/ \E s \in Subs : LoopNext(s)
    \/ \E s \in Subs : StreamDies(s)
    \/ \E p \in Pushers, d \in Directives : Push(p, d)
    \/ \E p \in Pushers : PushNext(p)

Spec == Init /\ [][Next]_vars

(***************************************************************************)
(* Goroutines run.  Go's select picks among the ready cases at random, so   *)
(* none of them is passed over for ever; stream.Send returns (keepalive     *)
(* breaks a dead transport).  Nothing makes an agent subscribe, a stream    *)
(* die or a worker push: an idle loop may sit in its select for ever.        *)
(***************************************************************************)
FairSpec ==
    /\ Spec
    /\ \A s \in Subs :
          /\ WF_vars(LoopNext(s))
          /\ SF_vars(SelectReceive(s))
          /\ SF_vars(SelectWake(s))
    /\ \A p \in Pushers :
          /\ WF_vars(PushNext(p))
          /\ SF_vars(ChunkDrained(p))
          /\ SF_vars(Enqueue(p))

-----------------------------------------------------------------------------
LoopPCs == {"absent", "select", "debit", "freed", "send", "resync", "take", "cleanup", "gone"}
PusherPCs == {"idle", "load", "compare", "wait", "enqueue", "budget", "try", "credit",
              "overflow", "signal"}
PusherType == [pc : PusherPCs, sub : Subs \cup {NoSub}, dir : Directives \cup {NoDirective}]

\* A delta and a chunk are never coalesced: each carries what no other does.
Coalescing == {d \in Directives : d.kind \in {"DESIRED_STATE", "REHOME"}}

(***************************************************************************)
(* The types, and what may wait in the latest-wins area (server.go:132-136). *)
(***************************************************************************)
TypeOK ==
    /\ cur \in Subs \cup {NoSub}
    /\ ch \in [Subs -> Seq(Directives)]
    /\ queuedBytes \in [Subs -> Int]
    /\ pending \in [Subs -> SUBSET Coalescing]
    /\ needResync \in [Subs -> BOOLEAN]
    /\ wake \in [Subs -> BOOLEAN]
    /\ drain \in [Subs -> BOOLEAN]
    /\ closed \in [Subs -> Nat]
    /\ loop \in [Subs -> LoopPCs]
    /\ hand \in [Subs -> Directives \cup {NoDirective}]
    /\ pusher \in [Pushers -> PusherType]

(***************************************************************************)
(* A stream's done channel is closed exactly once, by whoever ends it: the  *)
(* stream that supersedes it or its own cleanup.  A second close panics the *)
(* process, none at all leaves a chunk push blocked on a dead stream.       *)
(***************************************************************************)
DoneClosedOnce ==
    \A s \in Subs :
        /\ closed[s] <= 1
        /\ loop[s] = "gone" => closed[s] = 1
        /\ cur = s => closed[s] = 0 /\ loop[s] \notin {"absent", "gone"}

(***************************************************************************)
(* The depth-1 trigger loses nothing: while a coalesced directive is pending *)
(* or a resync is owed, a wake token waits for the loop, or the loop has yet *)
(* to look after taking the last one, or a pusher is about to put one.      *)
(***************************************************************************)
WakeComing(s) == wake[s] \/ \E p \in Pushers : At(p, "signal") /\ pusher[p].sub = s

NoLostWake ==
    \A s \in Subs : loop[s] # "gone" /\ loop[s] # "cleanup" =>
        /\ needResync[s] => WakeComing(s) \/ loop[s] = "resync"
        /\ pending[s] # {} => WakeComing(s) \/ loop[s] \in {"resync", "take"}

(***************************************************************************)
(* The cap of maxQueueBytes holds up to what the pushers that raced past    *)
(* their check may add: with the one worker per edge the comment at line    *)
(* 562 assumes, the queue exceeds the cap only by a lone oversized chunk.   *)
(***************************************************************************)
Total(n, f) ==      \* f[1] + ... + f[n]
    LET sum[i \in 0 .. n] == IF i = 0 THEN 0 ELSE sum[i - 1] + f[i] IN sum[n]

Bytes(q) == Total(Len(q), [i \in DOMAIN q |-> q[i].size])

Largest == CHOOSE n \in {d.size : d \in Directives} : \A d \in Directives : d.size <= n

QueueBounded ==
    \A s \in Subs :
        Bytes(ch[s]) <= (IF Largest > MaxBytes THEN Largest ELSE MaxBytes)
                        + (Cardinality(Pushers) - 1) * Largest

(***************************************************************************)
(* A chunk that backpressures is let through, or told that its stream is    *)
(* gone: it never blocks its edge's worker for ever.                        *)
(***************************************************************************)
ChunkUnblocked ==
    \A p \in Pushers : At(p, "wait") ~> At(p, "idle")

(***************************************************************************)
(* Whatever the flood, a stream on which a delta was dropped comes to ask   *)
(* the server for a full snapshot, or ends (and the next Subscribe asks).   *)
(***************************************************************************)
Over(s) == closed[s] > 0 \/ loop[s] = "cleanup"

DroppedDeltaResyncs ==
    \A s \in Subs : needResync[s] ~> (~needResync[s] \/ Over(s))

(***************************************************************************)
(* The refinement: with its counters and tokens hidden, this is Downlink.    *)
(* A push is settled when its directive is in the channel or set aside,      *)
(* though it has still to credit its bytes or to wake the loop.             *)
(***************************************************************************)
Offering(p) ==
    IF pusher[p].pc \in {"idle", "credit", "signal"} THEN [sub |-> NoSub]
    ELSE [sub |-> pusher[p].sub, dir |-> pusher[p].dir]

Promise == INSTANCE Downlink WITH
    over <- {s \in Subs : closed[s] > 0},
    serving <- {s \in Subs : loop[s] \notin {"absent", "gone"}},
    queue <- ch,
    owed <- needResync,
    call <- [p \in Pushers |-> Offering(p)]

ImplementsDownlink == Promise!DLSpec
=============================================================================
