-------------------------- MODULE AgentPushRefines --------------------------
(***************************************************************************)
(* AgentPush implements Downlink, for any number of pushers and             *)
(* subscriptions and any directives: a step of the send loop or of a push    *)
(* is one step of the promise, or none at all.                              *)
(***************************************************************************)
EXTENDS AgentPushProofs

Ended == {s \in Subs : closed[s] > 0}
Serving == {s \in Subs : loop[s] \notin {"absent", "gone"}}
Calls == [p \in Pushers |-> Offering(p)]

LEMMA InitRefines == Init => Promise!DLInit
BY SubsFacts DEF Init, Promise!DLInit, Promise!Subs, Promise!NoSub, Promise!NoCall, Subs, NoSub,
   Offering, Idle

(***************************************************************************)
(* Streams: what a step does to done channels and loops.                    *)
(***************************************************************************)
LEMMA SubscribeRefines ==
    ASSUME IInv, NEW s \in Subs, Subscribe(s)
    PROVE  Promise!Open(s)
<1> USE SubsFacts DEF IInv, TypeOK, Subscribe, queue
<1>1. s \notin Serving \cup Ended
  BY DEF DoneInv, Serving, Ended
<1>2. Ended' = Ended \cup ({cur} \ {NoSub})
  BY DEF Ended
<1>3. Serving' = Serving \cup {s}
  BY DEF Serving
<1>4. Calls' = Calls
  BY DEF Calls, Offering
<1> QED BY <1>1, <1>2, <1>3, <1>4
        DEF Promise!Open, Promise!NoSub, NoSub, Ended, Serving, Calls

LEMMA CleanupRefines ==
    ASSUME IInv, NEW s \in Subs, Cleanup(s)
    PROVE  Promise!End(s)
<1> USE SubsFacts DEF IInv, TypeOK, Cleanup, Goto, queue
<1>1. s \in Serving
  BY DEF Serving
<1>2. Ended' = Ended \cup {s}
  BY DEF Ended, DoneInv
<1>3. Serving' = Serving \ {s}
  BY DEF Serving
<1>4. Calls' = Calls
  BY DEF Calls, Offering
<1> QED BY <1>1, <1>2, <1>3, <1>4
        DEF Promise!End, Promise!NoSub, NoSub, Ended, Serving, Calls

LEMMA LoopRefines ==
    ASSUME IInv, NEW s \in Subs, LoopNext(s) \/ StreamDies(s), ~Cleanup(s)
    PROVE  \/ Promise!TakeQueued(s)
           \/ Promise!TakeOwed(s)
           \/ \E d \in pending[s] : Promise!TakeStashed(s, d)
           \/ UNCHANGED Promise!dlvars
<1> USE DEF IInv, TypeOK, Goto, queue
<1>1. Calls' = Calls
  BY DEF LoopNext, SelectSuperseded, StreamDies, SelectReceive, Debit, SignalDrain, SelectWake,
         TakeNeedResync, NothingPending, TakePending, Send, Calls, Offering
<1>2. s \in Serving /\ Serving' = Serving
  BY DEF LoopNext, SelectSuperseded, StreamDies, SelectReceive, Debit, SignalDrain, SelectWake,
         TakeNeedResync, NothingPending, TakePending, Send, Serving
<1>3. cur' = cur /\ Ended' = Ended
  BY DEF LoopNext, SelectSuperseded, StreamDies, SelectReceive, Debit, SignalDrain, SelectWake,
         TakeNeedResync, NothingPending, TakePending, Send, Ended
<1>4. CASE SelectReceive(s)
  BY <1>1, <1>2, <1>3, <1>4 DEF SelectReceive, Promise!TakeQueued, Ended, Serving, Calls
<1>5. CASE TakeNeedResync(s)
  <2>1. /\ needResync' = [needResync EXCEPT ![s] = FALSE]
        /\ ch' = ch /\ pending' = pending
    BY <1>5 DEF TakeNeedResync
  <2>2. CASE needResync[s]
    BY <1>1, <1>2, <1>3, <2>1, <2>2 DEF Promise!TakeOwed, Ended, Serving, Calls
  <2>3. CASE ~needResync[s]
    <3>1. needResync' = needResync
      BY <2>1, <2>3
    <3> QED BY <1>1, <1>2, <1>3, <2>1, <3>1 DEF Promise!dlvars, Ended, Serving, Calls
  <2> QED BY <2>2, <2>3
<1>6. CASE TakePending(s)
  BY <1>1, <1>2, <1>3, <1>6 DEF TakePending, Promise!TakeStashed, Ended, Serving, Calls
<1>7. CASE SelectSuperseded(s) \/ StreamDies(s) \/ Debit(s) \/ SignalDrain(s) \/ SelectWake(s)
           \/ NothingPending(s) \/ Send(s)
  <2>1. ch' = ch /\ pending' = pending /\ needResync' = needResync
    BY <1>7 DEF SelectSuperseded, StreamDies, Debit, SignalDrain, SelectWake, NothingPending, Send
  <2> QED BY <1>1, <1>2, <1>3, <2>1 DEF Promise!dlvars, Ended, Serving, Calls
<1> QED BY <1>4, <1>5, <1>6, <1>7 DEF LoopNext

(***************************************************************************)
(* Pushes.                                                                 *)
(***************************************************************************)
LEMMA OfferRefines ==
    ASSUME IInv, NEW p \in Pushers, NEW d \in Directives, Push(p, d)
    PROVE  Promise!Offer(p, d)
<1> USE DEF IInv, TypeOK, PusherType, Push, queue, At
<1>1. Ended' = Ended /\ Serving' = Serving
  BY DEF Ended, Serving
<1>2. Calls[p] = [sub |-> NoSub]
  BY DEF Calls, Offering
<1>3. Calls' = [Calls EXCEPT ![p] = [sub |-> cur, dir |-> d]]
  BY DEF Calls, Offering
<1> QED BY <1>1, <1>2, <1>3
        DEF Promise!Offer, Promise!NoCall, Promise!NoSub, NoSub, Ended, Serving, Calls

\* A push settles: the directive offered, what becomes of the call.
LEMMA SettleCall ==
    ASSUME IInv, NEW p \in Pushers, pusher[p].pc \notin {"idle", "credit", "signal"},
           NEW q \in PusherType, q.pc \in {"idle", "credit", "signal"},
           pusher' = [pusher EXCEPT ![p] = q]
    PROVE  /\ Promise!Settle(p)
           /\ Calls[p] = [sub |-> pusher[p].sub, dir |-> pusher[p].dir]
           /\ pusher[p].sub \in Subs
<1> USE SubsFacts DEF IInv, TypeOK, PusherType, At
<1>1. Calls[p] = [sub |-> pusher[p].sub, dir |-> pusher[p].dir]
  BY DEF Calls, Offering
<1>2. pusher[p].sub \in Subs
  BY DEF PusherInv
<1>3. Calls[p] # [sub |-> NoSub]
  BY <1>1, <1>2
<1>4. Calls' = [Calls EXCEPT ![p] = [sub |-> NoSub]]
  BY DEF Calls, Offering
<1> QED BY <1>1, <1>2, <1>3, <1>4 DEF Promise!Settle, Promise!NoCall, Promise!NoSub, NoSub, Calls

\* Or it goes on, and the call stays what it is.
LEMMA CallGoesOn ==
    ASSUME IInv, NEW p \in Pushers, NEW q \in PusherType,
           pusher' = [pusher EXCEPT ![p] = q],
           \/ /\ q.pc \notin {"idle", "credit", "signal"}
              /\ pusher[p].pc \notin {"idle", "credit", "signal"}
              /\ q.sub = pusher[p].sub /\ q.dir = pusher[p].dir
           \/ /\ q.pc \in {"idle", "credit", "signal"}
              /\ pusher[p].pc \in {"idle", "credit", "signal"}
    PROVE  Calls' = Calls
<1> USE DEF IInv, TypeOK
<1>1. \A r \in Pushers : pusher'[r] = IF r = p THEN q ELSE pusher[r]
  OBVIOUS
<1>2. \A r \in Pushers : Offering(r)' = Offering(r)
  BY <1>1 DEF Offering
<1> QED BY <1>2 DEF Calls

LEMMA PushRefines ==
    ASSUME IInv, NEW p \in Pushers, PushNext(p)
    PROVE  \/ Promise!Accept(p) \/ Promise!Stash(p) \/ Promise!Drop(p) \/ Promise!Refuse(p)
           \/ UNCHANGED Promise!dlvars
<1> DEFINE s == pusher[p].sub
           d == pusher[p].dir
<1> USE DEF IInv, TypeOK, queue
<1>1. cur' = cur /\ Ended' = Ended /\ Serving' = Serving
  BY DEF PushNext, ChunkLoad, ChunkCompare, ChunkDrained, Budget, Enqueue, Credit,
         ChannelFull, Superseded, MarkResync, StashPending, SignalWake, Ended, Serving
<1>2. /\ {"credit", "signal"} \subseteq PusherPCs
      /\ Idle \in PusherType
      /\ \A pc \in PusherPCs : [pusher[p] EXCEPT !.pc = pc] \in PusherType
      /\ \A pc \in PusherPCs : [pusher[p] EXCEPT !.pc = pc].pc = pc
  BY DEF PusherPCs, PusherType, Idle
<1>3. CASE Enqueue(p)
  <2>1. /\ Promise!Settle(p)
        /\ Calls[p] = [sub |-> s, dir |-> d]
        /\ s \in Subs
    BY <1>2, <1>3, SettleCall DEF Enqueue, Step, At
  <2>2. /\ ch' = [ch EXCEPT ![Calls[p].sub] = Append(@, Calls[p].dir)]
        /\ pending' = pending /\ needResync' = needResync
    BY <1>3, <2>1 DEF Enqueue
  <2> QED BY <1>1, <2>1, <2>2 DEF Promise!Accept, Ended, Serving, Calls
<1>4. CASE Superseded(p)
  <2>1. /\ Promise!Settle(p)
        /\ Calls[p] = [sub |-> s, dir |-> d]
        /\ s \in Subs
    BY <1>2, <1>4, SettleCall DEF Superseded, Return, Idle, At
  <2>2. s \in Ended
    BY <1>4, <2>1 DEF Superseded, Ended
  <2> QED BY <1>1, <1>4, <2>1, <2>2 DEF Superseded, Promise!Refuse, Ended, Serving, Calls
<1>5. CASE MarkResync(p)
  <2>1. /\ Promise!Settle(p)
        /\ Calls[p] = [sub |-> s, dir |-> d]
        /\ s \in Subs
    BY <1>2, <1>5, SettleCall DEF MarkResync, Step, At
  <2>2. pending' = pending
    BY <1>5 DEF MarkResync, Coalescing
  <2>3. /\ Calls[p].dir.kind = "DESIRED_DELTA"
        /\ needResync' = [needResync EXCEPT ![Calls[p].sub] = TRUE]
        /\ ch' = ch
    BY <1>5, <2>1 DEF MarkResync
  <2> QED BY <1>1, <2>1, <2>2, <2>3 DEF Promise!Drop, Ended, Serving, Calls
<1>6. CASE StashPending(p)
  <2>1. /\ Promise!Settle(p)
        /\ Calls[p] = [sub |-> s, dir |-> d]
        /\ s \in Subs
    BY <1>2, <1>6, SettleCall DEF StashPending, Step, At
  <2>2. d.kind \notin {"CHUNK", "DESIRED_DELTA"}
    BY <1>6 DEF StashPending, PusherInv, At
  <2>3. pending' = [pending EXCEPT ![s] = Promise!NewerWins(@, d)]
    BY <1>6, <2>1 DEF StashPending, Promise!NewerWins
  <2>4. ch' = ch /\ needResync' = needResync
    BY <1>6 DEF StashPending
  <2>5. pending' = [pending EXCEPT ![Calls[p].sub] = Promise!NewerWins(@, Calls[p].dir)]
    BY <2>1, <2>3
  <2>6. Calls[p].dir.kind \notin {"CHUNK", "DESIRED_DELTA"}
    BY <2>1, <2>2
  <2> QED BY <1>1, <2>1, <2>4, <2>5, <2>6 DEF Promise!Stash, Ended, Serving, Calls
<1>7. CASE ~(Enqueue(p) \/ Superseded(p) \/ MarkResync(p) \/ StashPending(p))
  <2>1. ch' = ch /\ pending' = pending /\ needResync' = needResync
    BY <1>7 DEF PushNext, ChunkLoad, ChunkCompare, ChunkDrained, Budget, Credit,
                ChannelFull, SignalWake
  <2>2. Calls' = Calls
    <3>1. CASE ChunkLoad(p) \/ ChunkCompare(p) \/ ChunkDrained(p) \/ Budget(p) \/ ChannelFull(p)
      <4>1. PICK pc \in PusherPCs \ {"idle", "credit", "signal"} :
              pusher' = [pusher EXCEPT ![p] = [pusher[p] EXCEPT !.pc = pc]]
        BY <3>1 DEF ChunkLoad, ChunkCompare, ChunkDrained, Budget, ChannelFull, Step, PusherPCs
      <4>2. pusher[p].pc \notin {"idle", "credit", "signal"}
        BY <3>1 DEF ChunkLoad, ChunkCompare, ChunkDrained, Budget, ChannelFull, At
      <4> DEFINE q == [pusher[p] EXCEPT !.pc = pc]
      <4>3. q \in PusherType /\ q.pc = pc /\ q.sub = s /\ q.dir = d
        BY <1>2
      <4> HIDE DEF q
      <4> QED BY <4>1, <4>2, <4>3, CallGoesOn DEF q
    <3>2. CASE Credit(p) \/ SignalWake(p)
      <4>1. pusher[p].pc \in {"credit", "signal"} /\ pusher' = [pusher EXCEPT ![p] = Idle]
        BY <3>2 DEF Credit, SignalWake, Return, At
      <4>2. Idle.pc = "idle"
        BY DEF Idle
      <4> QED BY <1>2, <4>1, <4>2, CallGoesOn
    <3> QED BY <1>7, <3>1, <3>2 DEF PushNext
  <2> QED BY <1>1, <2>1, <2>2 DEF Promise!dlvars, Ended, Serving, Calls
<1> QED BY <1>3, <1>4, <1>5, <1>6, <1>7

-----------------------------------------------------------------------------
LEMMA NextRefines ==
    ASSUME IInv, [Next]_vars
    PROVE  [Promise!DLNext]_(Promise!dlvars)
<1>1. ASSUME NEW s \in Subs, Subscribe(s) PROVE Promise!DLNext
  BY <1>1, SubscribeRefines DEF Promise!DLNext, Promise!Subs, Subs
<1>2. ASSUME NEW s \in Subs, LoopNext(s) \/ StreamDies(s) PROVE [Promise!DLNext]_(Promise!dlvars)
  BY <1>2, LoopRefines, CleanupRefines DEF Promise!DLNext, Promise!Subs, Subs
<1>3. ASSUME NEW p \in Pushers, NEW d \in Directives, Push(p, d) PROVE Promise!DLNext
  BY <1>3, OfferRefines DEF Promise!DLNext
<1>4. ASSUME NEW p \in Pushers, PushNext(p) PROVE [Promise!DLNext]_(Promise!dlvars)
  BY <1>4, PushRefines DEF Promise!DLNext
<1>5. CASE UNCHANGED vars
  BY <1>5 DEF vars, queue, Promise!dlvars, Offering
<1> QED BY <1>1, <1>2, <1>3, <1>4, <1>5 DEF Next

(***************************************************************************)
(* The machinery of push and the send loop keeps the promise of Downlink:   *)
(* whatever the interleaving, no directive is lost, doubled or set aside    *)
(* against its kind, and nothing is taken from a stream that is over.       *)
(***************************************************************************)
THEOREM DownlinkImplemented == Spec => ImplementsDownlink
<1>1. IInv /\ [Next]_vars => [Promise!DLNext]_(Promise!dlvars)
  BY NextRefines
<1> QED BY <1>1, SpecIInv, InitRefines, PTL DEF Spec, ImplementsDownlink, Promise!DLSpec
=============================================================================
