------------------------------ MODULE Downlink ------------------------------
(***************************************************************************)
(* What the downlink to one agent promises (internal/grpcsrv/server.go),    *)
(* without how: no byte counts, no wake-up channels, no places in a loop.   *)
(* A directive offered to a stream ends up in exactly one place: queued in  *)
(* order, or stashed as the newest of its kind, or, a delta, replaced by a   *)
(* snapshot that is owed, or refused by a stream that is over.  AgentPush    *)
(* implements this; AgentSync builds on it.                                 *)
(***************************************************************************)
EXTENDS Naturals, Sequences

CONSTANTS
    Pushers,      \* goroutines that push
    Directives,   \* records with at least a kind and a gen
    MaxSubs       \* subscriptions of the agent, one after the other (bound)

Subs == 1 .. MaxSubs
NoSub == 0
NoCall == [sub |-> NoSub]

VARIABLES
    cur,          \* the stream that pushes go to, NoSub when there is none
    over,         \* streams whose pushers have been told to give up
    serving,      \* streams whose send loop runs
    queue,        \* per stream, in order
    pending,      \* per stream, newest of each kind that may be coalesced
    owed,         \* per stream: deltas were dropped, a full snapshot is owed
    call          \* per pusher: the stream and directive it is offering

dlvars == <<cur, over, serving, queue, pending, owed, call>>

DLInit ==
    /\ cur = NoSub /\ over = {} /\ serving = {}
    /\ queue = [s \in Subs |-> <<>>]
    /\ pending = [s \in Subs |-> {}]
    /\ owed = [s \in Subs |-> FALSE]
    /\ call = [p \in Pushers |-> NoCall]

-----------------------------------------------------------------------------
(***************************************************************************)
(* A stream opens and supersedes the one it finds; a stream's loop ends.    *)
(***************************************************************************)
Open(s) ==
    /\ s \notin serving \cup over
    /\ cur' = s
    /\ over' = over \cup ({cur} \ {NoSub})
    /\ serving' = serving \cup {s}
    /\ UNCHANGED <<queue, pending, owed, call>>

End(s) ==
    /\ s \in serving
    /\ cur' = IF cur = s THEN NoSub ELSE cur
    /\ over' = over \cup {s}
    /\ serving' = serving \ {s}
    /\ UNCHANGED <<queue, pending, owed, call>>

(***************************************************************************)
(* A push: offered to the current stream, then settled in one of four ways. *)
(* Whether a directive finds room is the implementation's affair; but a      *)
(* chunk is never set aside, and a delta never coalesced.                   *)
(***************************************************************************)
Offer(p, d) ==
    /\ call[p] = NoCall /\ cur # NoSub
    /\ call' = [call EXCEPT ![p] = [sub |-> cur, dir |-> d]]
    /\ UNCHANGED <<cur, over, serving, queue, pending, owed>>

Settle(p) == call[p] # NoCall /\ call' = [call EXCEPT ![p] = NoCall]

Accept(p) ==
    /\ Settle(p)
    /\ queue' = [queue EXCEPT ![call[p].sub] = Append(@, call[p].dir)]
    /\ UNCHANGED <<cur, over, serving, pending, owed>>

NewerWins(waiting, d) ==
    IF \A q \in waiting : q.kind = d.kind => d.gen >= q.gen
    THEN {q \in waiting : q.kind # d.kind} \cup {d}
    ELSE waiting

Stash(p) ==
    /\ Settle(p)
    /\ call[p].dir.kind \notin {"CHUNK", "DESIRED_DELTA"}
    /\ pending' = [pending EXCEPT ![call[p].sub] = NewerWins(@, call[p].dir)]
    /\ UNCHANGED <<cur, over, serving, queue, owed>>

Drop_Silent(p) ==       \* mutant: nothing is owed for a delta that is dropped
    /\ Settle(p)
    /\ call[p].dir.kind = "DESIRED_DELTA"
    /\ UNCHANGED <<cur, over, serving, queue, pending, owed>>

Drop(p) ==
    /\ Settle(p)
    /\ call[p].dir.kind = "DESIRED_DELTA"
    /\ owed' = [owed EXCEPT ![call[p].sub] = TRUE]
    /\ UNCHANGED <<cur, over, serving, queue, pending>>

Refuse(p) ==
    /\ Settle(p)
    /\ call[p].sub \in over
    /\ UNCHANGED <<cur, over, serving, queue, pending, owed>>

(***************************************************************************)
(* The send loop takes what is queued, or the newest of what is stashed, or *)
(* asks for the snapshot that is owed.                                      *)
(***************************************************************************)
TakeQueued(s) ==
    /\ s \in serving /\ queue[s] # <<>>
    /\ queue' = [queue EXCEPT ![s] = Tail(@)]
    /\ UNCHANGED <<cur, over, serving, pending, owed, call>>

TakeStashed(s, d) ==
    /\ s \in serving /\ d \in pending[s]
    /\ \A q \in pending[s] : q.gen <= d.gen
    /\ pending' = [pending EXCEPT ![s] = @ \ {d}]
    /\ UNCHANGED <<cur, over, serving, queue, owed, call>>

TakeOwed(s) ==
    /\ s \in serving /\ owed[s]
    /\ owed' = [owed EXCEPT ![s] = FALSE]
    /\ UNCHANGED <<cur, over, serving, queue, pending, call>>

-----------------------------------------------------------------------------
DLNext ==
    \/ \E s \in Subs : Open(s) \/ End(s) \/ TakeQueued(s) \/ TakeOwed(s)
    \/ \E s \in Subs : \E d \in pending[s] : TakeStashed(s, d)
    \/ \E p \in Pushers, d \in Directives : Offer(p, d)
    \/ \E p \in Pushers : Accept(p) \/ Stash(p) \/ Drop(p) \/ Refuse(p)

DLSpec == DLInit /\ [][DLNext]_dlvars
=============================================================================
