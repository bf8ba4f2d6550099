-------------------------- MODULE AgentPushProofs ---------------------------
(***************************************************************************)
(* A downlink stream is ended exactly once, the send loop misses no wake-up *)
(* and the queue keeps its bound, for any number of pushers and             *)
(* subscriptions and any directives.                                       *)
(***************************************************************************)
EXTENDS AgentPush, FiniteSetTheorems, WellFoundedInduction, TLAPS

(***************************************************************************)
(* What a pusher that has not returned carries; a chunk never reaches the   *)
(* overflow path.                                                          *)
(***************************************************************************)
PusherInv ==
    \A p \in Pushers :
        /\ ~At(p, "idle") => pusher[p].sub \in Subs /\ pusher[p].dir \in Directives
        /\ At(p, "budget") \/ At(p, "try") \/ At(p, "overflow")
              => pusher[p].dir.kind # "CHUNK"

(***************************************************************************)
(* DoneClosedOnce is not inductive: a cleanup that finds another stream     *)
(* current has to know that this one was closed by who superseded it.       *)
(***************************************************************************)
DoneInv ==
    \A s \in Subs :
        /\ closed[s] = IF cur = s \/ loop[s] = "absent" THEN 0 ELSE 1
        /\ cur = s => loop[s] \notin {"absent", "gone"}

IInv == TypeOK /\ PusherInv /\ DoneInv /\ NoLostWake

LEMMA SubsFacts == NoSub \notin Subs /\ Subs \subseteq Nat
BY PushAssumption DEF Subs, NoSub

LEMMA InitIInv == Init => IInv
<1> SUFFICES ASSUME Init PROVE IInv
  OBVIOUS
<1> USE SubsFacts
<1>1. TypeOK
  BY DEF Init, TypeOK, LoopPCs, PusherType, PusherPCs, Idle
<1>2. PusherInv
  BY DEF Init, PusherInv, At, Idle
<1>3. DoneInv
  BY DEF Init, DoneInv
<1>4. NoLostWake
  BY DEF Init, NoLostWake
<1> QED BY <1>1, <1>2, <1>3, <1>4 DEF IInv

-----------------------------------------------------------------------------
(***************************************************************************)
(* Types.                                                                  *)
(***************************************************************************)
LEMMA AppendType ==
    ASSUME NEW D, NEW q \in Seq(D), NEW d \in D
    PROVE  Append(q, d) \in Seq(D)
OBVIOUS

LEMMA LoopTypes ==
    ASSUME TypeOK, NEW s \in Subs, LoopNext(s) \/ StreamDies(s)
    PROVE  TypeOK'
<1> USE SubsFacts DEF TypeOK, queue, Goto, LoopPCs
<1>1. CASE SelectSuperseded(s) \/ StreamDies(s)
  BY <1>1 DEF SelectSuperseded, StreamDies
<1>2. CASE SelectReceive(s)
  <2>1. /\ Head(ch[s]) \in Directives
        /\ Tail(ch[s]) \in Seq(Directives)
    BY <1>2 DEF SelectReceive
  <2> QED BY <1>2, <2>1 DEF SelectReceive
<1>3. CASE Debit(s)
  <2>1. hand[s].size \in Int
    BY PushAssumption DEF NoDirective
  <2>2. queuedBytes' \in [Subs -> Int]
    BY <1>3, <2>1 DEF Debit
  <2> QED BY <1>3, <2>2 DEF Debit
<1>4. CASE SignalDrain(s) BY <1>4 DEF SignalDrain
<1>5. CASE SelectWake(s) BY <1>5 DEF SelectWake
<1>6. CASE TakeNeedResync(s) BY <1>6 DEF TakeNeedResync
<1>7. CASE NothingPending(s) BY <1>7 DEF NothingPending
<1>8. CASE TakePending(s) BY <1>8 DEF TakePending
<1>9. CASE Send(s)
  <2>1. PICK pc \in {"select", "cleanup"} : loop' = [loop EXCEPT ![s] = pc]
    BY <1>9 DEF Send
  <2>2. loop' \in [Subs -> LoopPCs]
    BY <2>1
  <2> QED BY <1>9, <2>2 DEF Send
<1>10. CASE Cleanup(s)
  <2>1. cur' \in Subs \cup {NoSub}
    BY <1>10 DEF Cleanup
  <2>2. closed' \in [Subs -> Nat]
    <3> DEFINE n == IF cur = s THEN closed[s] + 1 ELSE closed[s]
    <3>1. n \in Nat
      OBVIOUS
    <3>2. closed' = [closed EXCEPT ![s] = n]
      BY <1>10 DEF Cleanup
    <3> HIDE DEF n
    <3> QED BY <3>1, <3>2
  <2>3. loop' \in [Subs -> LoopPCs]
    BY <1>10 DEF Cleanup
  <2>4. UNCHANGED <<queue, hand, pusher>>
    BY <1>10 DEF Cleanup
  <2> QED BY <2>1, <2>2, <2>3, <2>4
<1> QED BY <1>1, <1>2, <1>3, <1>4, <1>5, <1>6, <1>7, <1>8, <1>9, <1>10 DEF LoopNext

\* Where a push goes next, with its subscription and its directive.
LEMMA StepType ==
    ASSUME TypeOK, NEW p \in Pushers, NEW pc \in PusherPCs
    PROVE  Step(p, pc) => pusher' \in [Pushers -> PusherType]
<1>1. pusher \in [Pushers -> PusherType]
  BY DEF TypeOK
<1> QED BY <1>1 DEF Step, PusherType

LEMMA ReturnType ==
    ASSUME TypeOK, NEW p \in Pushers
    PROVE  Return(p) => pusher' \in [Pushers -> PusherType]
<1>1. pusher \in [Pushers -> PusherType]
  BY DEF TypeOK
<1>2. Idle \in PusherType
  BY DEF Idle, PusherType, PusherPCs
<1> QED BY <1>1, <1>2 DEF Return

\* A step of a push keeps its subscription and directive, or ends the push.
LEMMA PushKeepsPusherInv ==
    ASSUME TypeOK, PusherInv, NEW p \in Pushers, PushNext(p)
    PROVE  PusherInv'
<1>1. pusher \in [Pushers -> PusherType]
  BY DEF TypeOK
<1> USE <1>1 DEF PusherInv, PusherType, At, Step, Return, Idle
<1>2. CASE ChunkLoad(p) BY <1>2 DEF ChunkLoad
<1>3. CASE ChunkCompare(p) BY <1>3 DEF ChunkCompare
<1>4. CASE ChunkDrained(p) BY <1>4 DEF ChunkDrained
<1>5. CASE Budget(p) BY <1>5 DEF Budget
<1>6. CASE Enqueue(p) BY <1>6 DEF Enqueue
<1>7. CASE Credit(p) BY <1>7 DEF Credit
<1>8. CASE ChannelFull(p) BY <1>8 DEF ChannelFull
<1>9. CASE Superseded(p) BY <1>9 DEF Superseded
<1>10. CASE MarkResync(p) BY <1>10 DEF MarkResync
<1>11. CASE StashPending(p) BY <1>11 DEF StashPending
<1>12. CASE SignalWake(p) BY <1>12 DEF SignalWake
<1> QED BY <1>2, <1>3, <1>4, <1>5, <1>6, <1>7, <1>8, <1>9, <1>10, <1>11, <1>12 DEF PushNext

LEMMA PushTypes ==
    ASSUME TypeOK, PusherInv, NEW p \in Pushers, PushNext(p)
    PROVE  TypeOK'
<1> DEFINE s == pusher[p].sub
           d == pusher[p].dir
<1>1. ~At(p, "idle") => s \in Subs /\ d \in Directives
  BY DEF PusherInv
<1>2. {"load", "compare", "wait", "enqueue", "try", "credit", "overflow", "signal"}
          \subseteq PusherPCs
  BY DEF PusherPCs
<1>3. pusher' \in [Pushers -> PusherType]
  BY <1>2, StepType, ReturnType
     DEF PushNext, ChunkLoad, ChunkCompare, ChunkDrained, Budget, Enqueue, Credit,
         ChannelFull, Superseded, MarkResync, StashPending, SignalWake
<1> USE <1>3 DEF TypeOK, queue
<1>4. CASE ChunkLoad(p) BY <1>4 DEF ChunkLoad
<1>5. CASE ChunkCompare(p) BY <1>5 DEF ChunkCompare
<1>6. CASE ChunkDrained(p) BY <1>6 DEF ChunkDrained
<1>7. CASE Budget(p) BY <1>7 DEF Budget
<1>8. CASE Enqueue(p)
  <2>1. s \in Subs /\ d \in Directives
    BY <1>1, <1>8 DEF Enqueue, At
  <2>2. ch[s] \in Seq(Directives)
    BY <2>1
  <2>3. Append(ch[s], d) \in Seq(Directives)
    BY <2>1, <2>2, AppendType
  <2>4. ch' \in [Subs -> Seq(Directives)]
    BY <1>8, <2>3 DEF Enqueue
  <2> QED BY <1>8, <2>4 DEF Enqueue
<1>9. CASE Credit(p)
  <2>1. s \in Subs /\ d \in Directives
    BY <1>1, <1>9 DEF Credit, At
  <2>2. queuedBytes[s] \in Int /\ d.size \in Int
    BY <2>1, PushAssumption
  <2> DEFINE n == queuedBytes[s] + d.size
  <2>3. n \in Int
    BY <2>2
  <2>4. queuedBytes' = [queuedBytes EXCEPT ![s] = n]
    BY <1>9 DEF Credit
  <2> HIDE DEF n
  <2>5. queuedBytes' \in [Subs -> Int]
    BY <2>3, <2>4
  <2> QED BY <1>9, <2>5 DEF Credit
<1>10. CASE ChannelFull(p) BY <1>10 DEF ChannelFull
<1>11. CASE Superseded(p) BY <1>11 DEF Superseded
<1>12. CASE MarkResync(p)
  <2>1. pending' \in [Subs -> SUBSET Coalescing]
    BY <1>12 DEF MarkResync
  <2> QED BY <1>12, <2>1 DEF MarkResync
<1>13. CASE StashPending(p)
  <2>1. d \in Coalescing
    BY <1>1, <1>13, PushAssumption DEF StashPending, PusherInv, At, Coalescing, Kinds
  <2>2. pending' \in [Subs -> SUBSET Coalescing]
    BY <1>13, <2>1 DEF StashPending
  <2> QED BY <1>13, <2>2 DEF StashPending
<1>14. CASE SignalWake(p) BY <1>14 DEF SignalWake
<1> QED BY <1>4, <1>5, <1>6, <1>7, <1>8, <1>9, <1>10, <1>11, <1>12, <1>13, <1>14 DEF PushNext

LEMMA NextTypes ==
    ASSUME TypeOK, PusherInv, [Next]_vars
    PROVE  TypeOK' /\ PusherInv'
<1> USE SubsFacts
<1>1. ASSUME NEW s \in Subs, Subscribe(s) PROVE TypeOK' /\ PusherInv'
  <2>1. UNCHANGED <<ch, queuedBytes, pending, needResync, wake, drain, hand, pusher>>
    BY <1>1 DEF Subscribe, queue
  <2>2. cur' \in Subs
    BY <1>1 DEF Subscribe
  <2>3. closed' \in [Subs -> Nat]
    BY <1>1 DEF Subscribe, TypeOK
  <2>4. loop' \in [Subs -> LoopPCs]
    BY <1>1 DEF Subscribe, TypeOK, LoopPCs
  <2>5. TypeOK'
    BY <2>1, <2>2, <2>3, <2>4 DEF TypeOK
  <2>6. PusherInv'
    BY <2>1 DEF PusherInv, At
  <2> QED BY <2>5, <2>6
<1>2. ASSUME NEW s \in Subs, LoopNext(s) \/ StreamDies(s) PROVE TypeOK' /\ PusherInv'
  <2>1. pusher' = pusher
    BY <1>2 DEF LoopNext, SelectSuperseded, StreamDies, SelectReceive, Debit, SignalDrain, SelectWake,
                TakeNeedResync, NothingPending, TakePending, Send, Cleanup
  <2> QED BY <1>2, <2>1, LoopTypes DEF PusherInv, At
<1>3. ASSUME NEW p \in Pushers, NEW d \in Directives, Push(p, d)
      PROVE  TypeOK' /\ PusherInv'
  <2>1. pusher \in [Pushers -> PusherType]
    BY DEF TypeOK
  <2>2. /\ pusher'[p] \in PusherType
        /\ pusher' = [pusher EXCEPT ![p] = pusher'[p]]
    BY <1>3, <2>1 DEF Push, TypeOK, PusherType, PusherPCs
  <2>3. TypeOK'
    BY <1>3, <2>1, <2>2 DEF Push, TypeOK, queue
  <2>4. PusherInv'
    BY <1>3, <2>1, PushAssumption DEF Push, TypeOK, PusherInv, PusherType, At
  <2> QED BY <2>3, <2>4
<1>4. ASSUME NEW p \in Pushers, PushNext(p) PROVE TypeOK' /\ PusherInv'
  BY <1>4, PushTypes, PushKeepsPusherInv
<1>5. CASE UNCHANGED vars
  BY <1>5 DEF vars, queue, TypeOK, PusherInv, At
<1> QED BY <1>1, <1>2, <1>3, <1>4, <1>5 DEF Next

-----------------------------------------------------------------------------
(***************************************************************************)
(* done is closed once.  Only Subscribe and Cleanup touch it; every other   *)
(* step leaves a loop that runs running.                                   *)
(***************************************************************************)
Running(s) == loop[s] \notin {"absent", "gone"}

LEMMA LoopKeepsDone ==
    ASSUME TypeOK, DoneInv, NEW s \in Subs, LoopNext(s) \/ StreamDies(s)
    PROVE  DoneInv'
<1> USE SubsFacts DEF TypeOK, Goto
<1>1. CASE Cleanup(s)
  BY <1>1 DEF Cleanup, DoneInv
<1>2. CASE ~Cleanup(s)
  <2>1. /\ cur' = cur /\ closed' = closed
        /\ Running(s) /\ Running(s)'
        /\ \A t \in Subs \ {s} : loop'[t] = loop[t]
    BY <1>2 DEF LoopNext, Running, SelectSuperseded, StreamDies, SelectReceive, Debit, SignalDrain,
                SelectWake, TakeNeedResync, NothingPending, TakePending, Send
  <2> QED BY <2>1 DEF DoneInv, Running
<1> QED BY <1>1, <1>2

LEMMA NextDone ==
    ASSUME TypeOK, DoneInv, [Next]_vars
    PROVE  DoneInv'
<1> USE SubsFacts
<1>1. ASSUME NEW s \in Subs, Subscribe(s) PROVE DoneInv'
  BY <1>1 DEF Subscribe, DoneInv, TypeOK
<1>2. ASSUME NEW s \in Subs, LoopNext(s) \/ StreamDies(s) PROVE DoneInv'
  BY <1>2, LoopKeepsDone
<1>3. ASSUME NEW p \in Pushers, \/ \E d \in Directives : Push(p, d)
                                \/ PushNext(p)
      PROVE  DoneInv'
  <2>1. cur' = cur /\ closed' = closed /\ loop' = loop
    BY <1>3 DEF Push, PushNext, ChunkLoad, ChunkCompare, ChunkDrained, Budget, Enqueue,
                Credit, ChannelFull, Superseded, MarkResync, StashPending, SignalWake
  <2> QED BY <2>1 DEF DoneInv
<1>4. CASE UNCHANGED vars
  BY <1>4 DEF vars, DoneInv
<1> QED BY <1>1, <1>2, <1>3, <1>4 DEF Next
-----------------------------------------------------------------------------
(***************************************************************************)
(* No wake-up is lost.                                                     *)
(***************************************************************************)
LEMMA LoopKeepsWake ==
    ASSUME TypeOK, NoLostWake, NEW s \in Subs, LoopNext(s) \/ StreamDies(s)
    PROVE  NoLostWake'
<1> USE DEF TypeOK, Goto, queue
<1>1. pusher' = pusher
  BY DEF LoopNext, SelectSuperseded, StreamDies, SelectReceive, Debit, SignalDrain, SelectWake,
         TakeNeedResync, NothingPending, TakePending, Send, Cleanup
<1>2. \A t \in Subs \ {s} :
          /\ loop'[t] = loop[t] /\ wake'[t] = wake[t]
          /\ needResync'[t] = needResync[t] /\ pending'[t] = pending[t]
  BY DEF LoopNext, SelectSuperseded, StreamDies, SelectReceive, Debit, SignalDrain, SelectWake,
         TakeNeedResync, NothingPending, TakePending, Send, Cleanup
<1> DEFINE Safe(t) ==
      loop[t] # "gone" /\ loop[t] # "cleanup" =>
        /\ needResync[t] => WakeComing(t) \/ loop[t] = "resync"
        /\ pending[t] # {} => WakeComing(t) \/ loop[t] \in {"resync", "take"}
<1>3. \A t \in Subs \ {s} : Safe(t)'
  BY <1>1, <1>2 DEF NoLostWake, WakeComing, At
<1>4. Safe(s)
  BY DEF NoLostWake
<1>5. Safe(s)'
  <2> HIDE DEF Safe
  <2>1. CASE SelectWake(s) \/ TakeNeedResync(s)
    BY <1>1, <1>4, <2>1 DEF Safe, SelectWake, TakeNeedResync, WakeComing, At
  <2>2. CASE NothingPending(s)
    BY <1>1, <1>4, <2>2 DEF Safe, NothingPending, WakeComing, At
  <2>3. CASE TakePending(s)
    BY <1>1, <1>4, <2>3 DEF Safe, TakePending, WakeComing, At
  <2>4. CASE SelectReceive(s) \/ Debit(s) \/ SignalDrain(s) \/ Send(s)
    BY <1>1, <1>4, <2>4 DEF Safe, SelectReceive, Debit, SignalDrain, Send, WakeComing, At
  <2>5. CASE SelectSuperseded(s) \/ StreamDies(s) \/ Cleanup(s)
    BY <2>5 DEF Safe, SelectSuperseded, StreamDies, Cleanup
  <2> QED BY <2>1, <2>2, <2>3, <2>4, <2>5 DEF LoopNext
<1> QED BY <1>3, <1>5 DEF NoLostWake

LEMMA PushKeepsWake ==
    ASSUME TypeOK, PusherInv, NoLostWake, NEW p \in Pushers,
           \/ \E d \in Directives : Push(p, d)
           \/ PushNext(p)
    PROVE  NoLostWake'
<1> USE DEF TypeOK, PusherType, At, Step, Return, queue
<1>1. loop' = loop
  BY DEF Push, PushNext, ChunkLoad, ChunkCompare, ChunkDrained, Budget, Enqueue,
         Credit, ChannelFull, Superseded, MarkResync, StashPending, SignalWake
<1>2. CASE MarkResync(p) \/ StashPending(p)
  <2>1. PICK t \in Subs : t = pusher[p].sub
    BY <1>2 DEF MarkResync, StashPending, PusherInv
  <2>2. WakeComing(t)'
    BY <1>2, <2>1 DEF MarkResync, StashPending, WakeComing
  <2>3. \A u \in Subs \ {t} :
            /\ needResync'[u] = needResync[u] /\ pending'[u] = pending[u]
            /\ WakeComing(u) => WakeComing(u)'
    BY <1>2, <2>1 DEF MarkResync, StashPending, WakeComing
  <2> QED BY <1>1, <2>2, <2>3 DEF NoLostWake
<1>3. CASE SignalWake(p)
  <2>1. /\ needResync' = needResync /\ pending' = pending
        /\ \A u \in Subs : WakeComing(u) => WakeComing(u)'
    BY <1>3 DEF SignalWake, WakeComing, Idle
  <2> QED BY <1>1, <2>1 DEF NoLostWake
<1>4. CASE ~(MarkResync(p) \/ StashPending(p) \/ SignalWake(p))
  <2>1. /\ needResync' = needResync /\ pending' = pending /\ wake' = wake
        /\ ~At(p, "signal")
        /\ \A q \in Pushers \ {p} : pusher'[q] = pusher[q]
    BY <1>4 DEF Push, PushNext, ChunkLoad, ChunkCompare, ChunkDrained, Budget, Enqueue,
                Credit, ChannelFull, Superseded
  <2>2. \A u \in Subs : WakeComing(u) => WakeComing(u)'
    BY <2>1 DEF WakeComing
  <2> QED BY <1>1, <2>1, <2>2 DEF NoLostWake
<1> QED BY <1>2, <1>3, <1>4

LEMMA NextWake ==
    ASSUME TypeOK, PusherInv, NoLostWake, [Next]_vars
    PROVE  NoLostWake'
<1>1. ASSUME NEW s \in Subs, Subscribe(s) PROVE NoLostWake'
  BY <1>1 DEF Subscribe, NoLostWake, WakeComing, At, queue, TypeOK
<1>2. ASSUME NEW s \in Subs, LoopNext(s) \/ StreamDies(s) PROVE NoLostWake'
  BY <1>2, LoopKeepsWake
<1>3. ASSUME NEW p \in Pushers, \/ \E d \in Directives : Push(p, d)
                                \/ PushNext(p)
      PROVE  NoLostWake'
  BY <1>3, PushKeepsWake
<1>4. CASE UNCHANGED vars
  BY <1>4 DEF vars, queue, NoLostWake, WakeComing, At
<1> QED BY <1>1, <1>2, <1>3, <1>4 DEF Next

-----------------------------------------------------------------------------
(***************************************************************************)
(* Sums.  An induction up to n, by the smallest number it would fail for,    *)
(* and what it gives for Total.                                            *)
(***************************************************************************)
LEMMA Least == ASSUME NEW N \in SUBSET Nat, N # {} PROVE \E m \in N : \A n \in N : m <= n
<1> DEFINE R == StrictSubsetOrdering(Nat)
           T == {1 .. n : n \in N}
           S == FiniteSubsetsOf(Nat)
<1>1. IsWellFoundedOn(R, S)
  BY FS_StrictSubsetOrderingWellFounded
<1>2. T \subseteq S /\ T # {}
  <2>1. \A n \in N : IsFiniteSet(1 .. n) /\ 1 .. n \subseteq Nat
    BY FS_Interval
  <2> QED BY <2>1 DEF FiniteSubsetsOf
<1>3. PICK x \in T : \A y \in T : ~(<<y, x>> \in R)
  <2> HIDE DEF R, T, S
  <2> QED BY <1>1, <1>2, WFMin, Zenon
<1>4. PICK m \in N : x = 1 .. m
  OBVIOUS
<1>5. ASSUME NEW n \in N, n < m PROVE FALSE
  <2>1. 1 .. n \subseteq 1 .. m /\ m \in 1 .. m /\ m \notin 1 .. n
    BY <1>5
  <2>2. <<1 .. n, 1 .. m>> \in R
    BY <2>1 DEF StrictSubsetOrdering
  <2> QED BY <2>2, <1>3, <1>4
<1> QED BY <1>5

LEMMA UpTo ==
    ASSUME NEW n \in Nat, NEW G, 0 \in G, \A i \in 1 .. n : i - 1 \in G => i \in G
    PROVE  \A i \in 0 .. n : i \in G
<1> DEFINE N == {i \in 0 .. n : i \notin G}
<1>1. SUFFICES ASSUME N # {} PROVE FALSE
  OBVIOUS
<1>2. PICK a \in N : \A i \in N : a <= i
  <2>1. N \in SUBSET Nat
    OBVIOUS
  <2> HIDE DEF N
  <2> QED BY <1>1, <2>1, Least
<1>3. a \in 1 .. n /\ a - 1 \in 0 .. n /\ ~(a <= a - 1)
  <2>1. a # 0
    OBVIOUS
  <2> QED BY <2>1
<1>4. a - 1 \in G
  BY <1>2, <1>3
<1> QED BY <1>3, <1>4

Adds(t, n, f) ==
    /\ t \in [0 .. n -> Nat] /\ t[0] = 0
    /\ \A i \in 1 .. n : t[i] = t[i - 1] + f[i]

LEMMA AddsExists ==
    ASSUME NEW n \in Nat, NEW f \in [1 .. n -> Nat]
    PROVE  \E t : Adds(t, n, f)
<1> DEFINE G == {i \in 0 .. n : \E t : Adds(t, i, f)}
<1>1. 0 \in G
  <2>1. Adds([i \in 0 .. 0 |-> 0], 0, f)
    BY DEF Adds
  <2> QED BY <2>1
<1>2. ASSUME NEW i \in 1 .. n, i - 1 \in G PROVE i \in G
  <2>1. PICK t : Adds(t, i - 1, f)
    BY <1>2
  <2> DEFINE u == [j \in 0 .. i |-> IF j = i THEN t[i - 1] + f[i] ELSE t[j]]
  <2>2. /\ i \in Nat /\ i - 1 \in 0 .. i - 1 /\ 0 \in 0 .. i - 1 /\ f[i] \in Nat
        /\ \A j \in 0 .. i : j = i \/ j \in 0 .. i - 1
        /\ \A j \in 1 .. i : j - 1 \in 0 .. i - 1 /\ (j = i \/ j \in 1 .. i - 1)
        /\ \A j \in 0 .. i - 1 : j \in 0 .. i /\ j # i
    OBVIOUS
  <2>3. /\ u \in [0 .. i -> Nat] /\ u[i] = t[i - 1] + f[i]
        /\ \A j \in 0 .. i - 1 : u[j] = t[j]
    BY <2>1, <2>2 DEF Adds
  <2> HIDE DEF u
  <2>4. \A j \in 1 .. i : u[j] = u[j - 1] + f[j]
    <3> TAKE j \in 1 .. i
    <3>1. CASE j = i
      BY <3>1, <2>2, <2>3
    <3>2. CASE j \in 1 .. i - 1
      <4>1. j \in 0 .. i - 1 /\ j - 1 \in 0 .. i - 1
        BY <3>2, <2>2
      <4> QED BY <3>2, <4>1, <2>1, <2>3 DEF Adds
    <3> QED BY <3>1, <3>2, <2>2
  <2>5. u[0] = 0
    BY <2>1, <2>2, <2>3 DEF Adds
  <2>6. Adds(u, i, f)
    BY <2>3, <2>4, <2>5 DEF Adds
  <2> QED BY <2>6
<1>3. n \in 0 .. n
  OBVIOUS
<1>4. n \in G
  <2> HIDE DEF G
  <2> QED BY <1>1, <1>2, <1>3, UpTo
<1> QED BY <1>4

LEMMA TotalIs ==
    ASSUME NEW n \in Nat, NEW f \in [1 .. n -> Nat], NEW t, Adds(t, n, f)
    PROVE  Total(n, f) = t[n] /\ Total(n, f) \in Nat
<1> DEFINE Is(c) == c = [i \in 0 .. n |-> IF i = 0 THEN 0 ELSE c[i - 1] + f[i]]
           c == CHOOSE c : Is(c)
<1>1. Is(t)
  <2>1. \A i \in 0 .. n : t[i] = IF i = 0 THEN 0 ELSE t[i - 1] + f[i]
    BY DEF Adds
  <2> QED BY <2>1 DEF Adds
<1>2. Is(c)
  <2> HIDE DEF Is
  <2> QED BY <1>1
<1>3. Total(n, f) = c[n]
  BY DEF Total
<1> HIDE DEF c
<1>4. \A i \in 0 .. n : c[i] = IF i = 0 THEN 0 ELSE c[i - 1] + f[i]
  BY <1>2
<1> DEFINE G == {i \in 0 .. n : c[i] = t[i]}
<1>5. 0 \in G
  BY <1>4 DEF Adds
<1>6. ASSUME NEW i \in 1 .. n, i - 1 \in G PROVE i \in G
  <2>1. i \in 0 .. n /\ i # 0
    OBVIOUS
  <2> QED BY <2>1, <1>4, <1>6 DEF Adds
<1>7. n \in G
  <2>1. n \in 0 .. n
    OBVIOUS
  <2> HIDE DEF G
  <2> QED BY <2>1, <1>5, <1>6, UpTo
<1> QED BY <1>3, <1>7 DEF Adds

LEMMA TotalNat ==
    ASSUME NEW n \in Nat, NEW f \in [1 .. n -> Nat]
    PROVE  Total(n, f) \in Nat
BY AddsExists, TotalIs

\* One term changes.
LEMMA TotalChange ==
    ASSUME NEW n \in Nat, NEW f \in [1 .. n -> Nat], NEW g \in [1 .. n -> Nat],
           NEW k \in 1 .. n, \A i \in 1 .. n : i # k => g[i] = f[i]
    PROVE  Total(n, g) + f[k] = Total(n, f) + g[k]
<1>1. PICK t, u : Adds(t, n, f) /\ Adds(u, n, g)
  BY AddsExists
<1> DEFINE G == {i \in 0 .. n : IF i < k THEN u[i] = t[i] ELSE u[i] + f[k] = t[i] + g[k]}
<1>2. 0 \in G
  BY <1>1 DEF Adds
<1>3. ASSUME NEW i \in 1 .. n, i - 1 \in G PROVE i \in G
  <2>1. i \in 0 .. n /\ i - 1 \in 0 .. n /\ t[i] = t[i - 1] + f[i] /\ u[i] = u[i - 1] + g[i]
    BY <1>1 DEF Adds
  <2>2. /\ t[i] \in Nat /\ t[i - 1] \in Nat /\ u[i] \in Nat /\ u[i - 1] \in Nat
        /\ f[i] \in Nat /\ g[i] \in Nat /\ f[k] \in Nat /\ g[k] \in Nat
    BY <1>1, <2>1 DEF Adds
  <2>3. CASE i < k
    BY <2>1, <2>2, <2>3, <1>3
  <2>4. CASE i = k
    <3>1. u[i - 1] = t[i - 1]
      BY <2>4, <1>3
    <3>2. u[i] + f[k] = t[i] + g[k]
      BY <3>1, <2>1, <2>2, <2>4
    <3> QED BY <3>2, <2>1, <2>4
  <2>5. CASE k < i
    <3>1. u[i - 1] + f[k] = t[i - 1] + g[k] /\ g[i] = f[i]
      BY <2>5, <1>3
    <3>2. u[i] + f[k] = t[i] + g[k]
      <4>1. PICK a \in Nat, d \in Nat, c \in Nat, x \in Nat, y \in Nat :
              a = u[i - 1] /\ d = t[i - 1] /\ c = f[i] /\ x = f[k] /\ y = g[k]
        BY <2>2
      <4>2. u[i] = a + c /\ t[i] = d + c /\ a + x = d + y
        BY <4>1, <3>1, <2>1
      <4>3. (a + c) + x = (d + c) + y
        BY <4>2
      <4> QED BY <4>1, <4>2, <4>3
    <3> QED BY <3>2, <2>1, <2>5
  <2> QED BY <2>3, <2>4, <2>5
<1>4. n \in G
  <2>1. n \in 0 .. n
    OBVIOUS
  <2> HIDE DEF G
  <2> QED BY <2>1, <1>2, <1>3, UpTo
<1> QED BY <1>1, <1>4, TotalIs

LEMMA TotalMonotone ==
    ASSUME NEW n \in Nat, NEW f \in [1 .. n -> Nat], NEW g \in [1 .. n -> Nat],
           \A i \in 1 .. n : f[i] <= g[i]
    PROVE  Total(n, f) <= Total(n, g)
<1>1. PICK t, u : Adds(t, n, f) /\ Adds(u, n, g)
  BY AddsExists
<1> DEFINE G == {i \in 0 .. n : t[i] <= u[i]}
<1>2. 0 \in G
  BY <1>1 DEF Adds
<1>3. ASSUME NEW i \in 1 .. n, i - 1 \in G PROVE i \in G
  <2>1. i \in 0 .. n /\ i - 1 \in 0 .. n /\ t[i] = t[i - 1] + f[i] /\ u[i] = u[i - 1] + g[i]
    BY <1>1 DEF Adds
  <2>2. t[i] \in Nat /\ t[i - 1] \in Nat /\ u[i] \in Nat /\ u[i - 1] \in Nat /\ f[i] <= g[i]
    BY <1>1, <2>1 DEF Adds
  <2> QED BY <2>1, <2>2, <1>3
<1>4. n \in G
  <2>1. n \in 0 .. n
    OBVIOUS
  <2> HIDE DEF G
  <2> QED BY <2>1, <1>2, <1>3, UpTo
<1> QED BY <1>1, <1>4, TotalIs

\* No term is above most, and one of them is known.
LEMMA TotalBound ==
    ASSUME NEW n \in Nat, NEW f \in [1 .. n -> Nat], NEW most \in Nat,
           \A i \in 1 .. n : f[i] <= most, NEW k \in 1 .. n
    PROVE  Total(n, f) <= (n - 1) * most + f[k]
<1>1. PICK t : Adds(t, n, f)
  BY AddsExists
<1> DEFINE m == [i \in 0 .. n |-> i * most]
<1>2. /\ \A i \in 0 .. n : m[i] \in Nat
      /\ \A i \in 1 .. n : m[i] = m[i - 1] + most
      /\ m[0] = 0 /\ m[n - 1] = (n - 1) * most
  <2>1. \A i \in 1 .. n : i * most = (i - 1) * most + most
    OBVIOUS
  <2>2. n - 1 \in 0 .. n /\ \A i \in 1 .. n : i \in 0 .. n /\ i - 1 \in 0 .. n
    OBVIOUS
  <2>3. \A i \in 0 .. n : i * most \in Nat
    OBVIOUS
  <2>4. 0 * most = 0 /\ 0 \in 0 .. n
    OBVIOUS
  <2> QED BY <2>1, <2>2, <2>3, <2>4
<1> HIDE DEF m
<1> DEFINE G == {i \in 0 .. n : IF i < k THEN t[i] <= m[i] ELSE t[i] <= m[i - 1] + f[k]}
<1>3. 0 \in G
  BY <1>1, <1>2 DEF Adds
<1>4. ASSUME NEW i \in 1 .. n, i - 1 \in G PROVE i \in G
  <2>1. i \in 0 .. n /\ i - 1 \in 0 .. n /\ t[i] = t[i - 1] + f[i] /\ m[i] = m[i - 1] + most
    BY <1>1, <1>2 DEF Adds
  <2>2. /\ t[i] \in Nat /\ t[i - 1] \in Nat /\ m[i] \in Nat /\ m[i - 1] \in Nat /\ f[i] <= most
        /\ f[i] \in Nat /\ f[k] \in Nat
    BY <1>1, <1>2, <2>1 DEF Adds
  <2>3. CASE i < k
    <3>1. t[i - 1] <= m[i - 1]
      BY <2>3, <1>4
    <3> QED BY <3>1, <2>1, <2>2, <2>3
  <2>4. CASE i = k
    <3>1. t[i - 1] <= m[i - 1]
      BY <2>4, <1>4
    <3> QED BY <3>1, <2>1, <2>2, <2>4
  <2>5. CASE k < i
    <3>1. t[i - 1] <= m[i - 1 - 1] + f[k] /\ i - 1 \in 1 .. n
      BY <2>5, <1>4
    <3>2. m[i - 1] = m[i - 1 - 1] + most /\ m[i - 1 - 1] \in Nat
      BY <3>1, <1>2
    <3>3. t[i] <= m[i - 1] + f[k]
      <4>1. PICK a \in Nat, c \in Nat, d \in Nat, x \in Nat :
              a = t[i - 1] /\ c = f[i] /\ d = m[i - 1 - 1] /\ x = f[k]
        BY <2>2, <3>2
      <4>2. t[i] = a + c /\ c <= most /\ a <= d + x /\ m[i - 1] = d + most
        BY <4>1, <3>1, <3>2, <2>1, <2>2
      <4>3. a + c <= (d + most) + x
        BY <4>2
      <4> QED BY <4>1, <4>2, <4>3
    <3> QED BY <3>3, <2>1, <2>5
  <2> QED BY <2>3, <2>4, <2>5
<1>5. n \in G
  <2>1. n \in 0 .. n
    OBVIOUS
  <2> HIDE DEF G
  <2> QED BY <2>1, <1>3, <1>4, UpTo
<1>6. t[n] <= m[n - 1] + f[k]
  BY <1>5
<1> QED BY <1>1, <1>2, <1>6, TotalIs

LEMMA TotalNone == \A f \in [1 .. 0 -> Nat] : Total(0, f) = 0
<1> TAKE f \in [1 .. 0 -> Nat]
<1>1. PICK t : Adds(t, 0, f)
  BY AddsExists
<1> QED BY <1>1, TotalIs DEF Adds

LEMMA TotalFirst ==
    ASSUME NEW n \in Nat, NEW f \in [1 .. n -> Nat], NEW g \in [1 .. n + 1 -> Nat],
           \A i \in 1 .. n : f[i] = g[i + 1]
    PROVE  Total(n + 1, g) = g[1] + Total(n, f)
<1>1. PICK t, u : Adds(t, n, f) /\ Adds(u, n + 1, g)
  BY AddsExists
<1> DEFINE G == {i \in 0 .. n : u[i + 1] = g[1] + t[i]}
<1>2. 0 \in G
  <2>1. 1 \in 1 .. n + 1 /\ 0 \in 0 .. n + 1 /\ 0 \in 0 .. n /\ g[1] \in Nat
    OBVIOUS
  <2>2. u[1] = u[1 - 1] + g[1] /\ u[0] = 0 /\ t[0] = 0 /\ 1 - 1 = 0 /\ 0 + 1 = 1
    BY <1>1, <2>1 DEF Adds
  <2> QED BY <2>1, <2>2
<1>3. ASSUME NEW i \in 1 .. n, i - 1 \in G PROVE i \in G
  <2>1. i \in 0 .. n /\ i + 1 \in 1 .. n + 1 /\ i + 1 - 1 = i /\ i - 1 + 1 = i /\ g[1] \in Nat
    OBVIOUS
  <2>2. t[i] = t[i - 1] + f[i] /\ u[i + 1] = u[i] + g[i + 1]
    <3>1. PICK j \in 1 .. n + 1 : j = i + 1 /\ j - 1 = i
      BY <2>1
    <3>2. u[j] = u[j - 1] + g[j]
      BY <1>1 DEF Adds
    <3>3. t[i] = t[i - 1] + f[i]
      BY <1>1 DEF Adds
    <3> QED BY <3>1, <3>2, <3>3
  <2>3. u[i] = g[1] + t[i - 1] /\ t[i - 1] \in Nat /\ f[i] \in Nat /\ f[i] = g[i + 1]
    BY <1>1, <1>3, <2>1 DEF Adds
  <2> QED BY <2>1, <2>2, <2>3
<1>4. n \in G
  <2>1. n \in 0 .. n
    OBVIOUS
  <2> HIDE DEF G
  <2> QED BY <2>1, <1>2, <1>3, UpTo
<1>5. u[n + 1] = g[1] + t[n] /\ n + 1 \in Nat
  BY <1>4
<1> QED BY <1>1, <1>5, TotalIs

LEMMA TotalLast ==
    ASSUME NEW n \in Nat, NEW f \in [1 .. n -> Nat], NEW g \in [1 .. n + 1 -> Nat],
           \A i \in 1 .. n : f[i] = g[i]
    PROVE  Total(n + 1, g) = Total(n, f) + g[n + 1]
<1>1. PICK u : Adds(u, n + 1, g)
  BY AddsExists
<1> DEFINE t == [i \in 0 .. n |-> u[i]]
<1>2. /\ n + 1 \in 1 .. n + 1 /\ n + 1 - 1 = n /\ n \in 0 .. n /\ 0 \in 0 .. n
      /\ \A i \in 0 .. n : i \in 0 .. n + 1
      /\ \A i \in 1 .. n : i \in 1 .. n + 1 /\ i - 1 \in 0 .. n /\ i \in 0 .. n
  OBVIOUS
<1>3. Adds(t, n, f)
  BY <1>1, <1>2 DEF Adds
<1>4. u[n + 1] = u[n] + g[n + 1] /\ t[n] = u[n]
  BY <1>1, <1>2 DEF Adds
<1> HIDE DEF t
<1> QED BY <1>1, <1>3, <1>4, TotalIs

LEMMA SizesNat ==
    /\ \A d \in Directives : d.size \in Nat
    /\ NoDirective.size = 0
    /\ \A q \in Seq(Directives) :
          Len(q) \in Nat /\ [i \in DOMAIN q |-> q[i].size] \in [1 .. Len(q) -> Nat]
<1>1. \A d \in Directives : d.size \in Nat
  BY PushAssumption
<1>2. ASSUME NEW q \in Seq(Directives)
      PROVE  Len(q) \in Nat /\ [i \in DOMAIN q |-> q[i].size] \in [1 .. Len(q) -> Nat]
  <2>1. Len(q) \in Nat /\ DOMAIN q = 1 .. Len(q) /\ \A i \in 1 .. Len(q) : q[i] \in Directives
    OBVIOUS
  <2> QED BY <2>1, <1>1
<1> QED BY <1>1, <1>2 DEF NoDirective

LEMMA BytesNat == \A q \in Seq(Directives) : Bytes(q) \in Nat
BY SizesNat, TotalNat DEF Bytes

LEMMA BytesAppend ==
    ASSUME NEW q \in Seq(Directives), NEW d \in Directives
    PROVE  Bytes(Append(q, d)) = Bytes(q) + d.size
<1>1. PICK n \in Nat : n = Len(q)
  OBVIOUS
<1>2. PICK r \in Seq(Directives) : r = Append(q, d)
  <2>1. Append(q, d) \in Seq(Directives)
    OBVIOUS
  <2> QED BY <2>1, Zenon
<1>3. /\ DOMAIN q = 1 .. n /\ Len(r) = n + 1 /\ DOMAIN r = 1 .. n + 1 /\ r[n + 1] = d
      /\ \A i \in 1 .. n : r[i] = q[i] /\ i \in 1 .. n + 1
      /\ n + 1 \in 1 .. n + 1
  BY <1>1, <1>2
<1>4. PICK f \in [1 .. n -> Nat] : f = [i \in DOMAIN q |-> q[i].size]
  BY <1>1, SizesNat
<1>5. PICK g \in [1 .. n + 1 -> Nat] : g = [i \in DOMAIN r |-> r[i].size]
  BY <1>3, SizesNat
<1>6. (\A i \in 1 .. n : f[i] = g[i]) /\ g[n + 1] = d.size
  BY <1>3, <1>4, <1>5
<1>7. Total(n + 1, g) = Total(n, f) + d.size
  BY <1>6, TotalLast
<1>8. Bytes(q) = Total(n, f)
  BY <1>1, <1>4 DEF Bytes
<1>9. Bytes(r) = Total(n + 1, g)
  BY <1>3, <1>5 DEF Bytes
<1> QED BY <1>2, <1>7, <1>8, <1>9

LEMMA BytesTail ==
    ASSUME NEW q \in Seq(Directives), q # <<>>
    PROVE  Bytes(q) = Head(q).size + Bytes(Tail(q))
<1>1. PICK n \in Nat : Len(q) = n + 1
  <2>1. Len(q) \in Nat /\ Len(q) # 0
    OBVIOUS
  <2>2. Len(q) - 1 \in Nat /\ Len(q) = (Len(q) - 1) + 1
    BY <2>1
  <2> QED BY <2>2
<1>2. PICK r \in Seq(Directives) : r = Tail(q)
  <2>1. Tail(q) \in Seq(Directives)
    OBVIOUS
  <2> QED BY <2>1, Zenon
<1>3. /\ DOMAIN q = 1 .. n + 1 /\ Len(r) = n /\ DOMAIN r = 1 .. n /\ Head(q) = q[1]
      /\ \A i \in 1 .. n : r[i] = q[i + 1] /\ i + 1 \in 1 .. n + 1
      /\ 1 \in 1 .. n + 1
  BY <1>1, <1>2
<1>4. PICK f \in [1 .. n -> Nat] : f = [i \in DOMAIN r |-> r[i].size]
  BY <1>3, SizesNat
<1>5. PICK g \in [1 .. n + 1 -> Nat] : g = [i \in DOMAIN q |-> q[i].size]
  BY <1>1, SizesNat
<1>6. (\A i \in 1 .. n : f[i] = g[i + 1]) /\ g[1] = Head(q).size
  BY <1>3, <1>4, <1>5
<1>7. Total(n + 1, g) = g[1] + Total(n, f)
  BY <1>6, TotalFirst
<1>8. Bytes(r) = Total(n, f)
  BY <1>3, <1>4 DEF Bytes
<1>9. Bytes(q) = Total(n + 1, g)
  BY <1>1, <1>5 DEF Bytes
<1> QED BY <1>2, <1>6, <1>7, <1>8, <1>9

LEMMA BytesEmpty == Bytes(<<>>) = 0
<1>1. Len(<<>>) = 0 /\ DOMAIN <<>> = 1 .. 0
  OBVIOUS
<1>2. [i \in DOMAIN <<>> |-> <<>>[i].size] \in [1 .. 0 -> Nat]
  BY <1>1
<1> QED BY <1>1, <1>2, TotalNone DEF Bytes

-----------------------------------------------------------------------------
(***************************************************************************)
(* The bytes of a queue.  QueueBounded is far from inductive: what counts    *)
(* against the cap is the counter, which a pusher raises after it enqueued   *)
(* and the loop lowers after it received.  So what the queue holds is the    *)
(* counter, less what the loop has in hand, more what the pushers have yet   *)
(* to credit; and what raises it above the cap is the claims of pushers that *)
(* are past their check, each of which saw the others' at their worst.      *)
(***************************************************************************)
N == Cardinality(Pushers)
Order == CHOOSE b \in Bijection(1 .. N, Pushers) : TRUE

\* What pusher w, at one of pcs, adds to the queue of s.
Weight(w, s, pcs) == IF w.pc \in pcs /\ w.sub = s THEN w.dir.size ELSE 0
Weights(f, s, pcs) == [i \in 1 .. N |-> Weight(f[Order[i]], s, pcs)]

Uncredited == {"credit"}
Claiming == {"try", "enqueue", "credit"}

Cap == IF Largest > MaxBytes THEN Largest ELSE MaxBytes
Slack == (N - 1) * Largest

CountInv ==
    \A s \in Subs :
        /\ loop[s] # "debit" => hand[s] = NoDirective
        /\ Bytes(ch[s]) + hand[s].size = queuedBytes[s] + Total(N, Weights(pusher, s, Uncredited))
        /\ queuedBytes[s] + Total(N, Weights(pusher, s, Claiming)) <= hand[s].size + (Cap + Slack)

\* A message has a maximum size, and a process so many goroutines.
Finite ==
    /\ IsFiniteSet(Pushers) /\ Directives # {}
    /\ \E most \in Nat : \A d \in Directives : d.size <= most

LEMMA LargestIs ==
    ASSUME Finite
    PROVE  Largest \in Nat /\ Cap \in Nat /\ Largest <= Cap /\ MaxBytes <= Cap /\ MaxBytes \in Nat
           /\ \A d \in Directives : d.size <= Largest
<1> DEFINE U == {m \in Nat : \A d \in Directives : d.size <= m}
<1>1. PICK m \in U : \A n \in U : m <= n
  <2>1. U # {} /\ U \in SUBSET Nat
    BY DEF Finite
  <2> HIDE DEF U
  <2> QED BY <2>1, Least
<1>2. PICK d \in Directives : d.size = m
  <2> SUFFICES ASSUME \A d \in Directives : d.size # m PROVE FALSE
    OBVIOUS
  <2>1. \A d \in Directives : d.size \in Nat /\ d.size <= m
    BY SizesNat
  <2>2. m # 0
    BY <2>1 DEF Finite
  <2>3. m - 1 \in Nat /\ ~(m <= m - 1)
    BY <2>2
  <2>4. \A d \in Directives : d.size <= m - 1
    BY <2>1, <2>3
  <2> QED BY <2>3, <2>4, <1>1
<1>3. Largest \in {e.size : e \in Directives} /\ \A e \in Directives : e.size <= Largest
  BY <1>1, <1>2 DEF Largest
<1>4. Largest \in Nat /\ MaxBytes \in Nat
  BY <1>3, SizesNat, PushAssumption
<1> QED BY <1>3, <1>4 DEF Cap

LEMMA OrderIs ==
    ASSUME Finite
    PROVE  /\ N \in Nat /\ Order \in [1 .. N -> Pushers]
           /\ \A p \in Pushers : \E k \in 1 .. N : Order[k] = p
           /\ \A i, j \in 1 .. N : Order[i] = Order[j] => i = j
<1>1. PICK n \in Nat : ExistsBijection(1 .. n, Pushers)
  BY FS_NatBijection DEF Finite
<1>2. IsFiniteSet(1 .. n) /\ Cardinality(1 .. n) = n
  BY FS_Interval
<1>3. N = n
  BY <1>1, <1>2, FS_Bijection DEF N
<1>4. Order \in Bijection(1 .. N, Pushers)
  BY <1>1, <1>3 DEF ExistsBijection, Order
<1> QED BY <1>3, <1>4 DEF Bijection, Injection, Surjection, IsInjective

LEMMA WeightsNat ==
    ASSUME Finite, NEW f \in [Pushers -> PusherType], NEW s, NEW pcs
    PROVE  /\ Weights(f, s, pcs) \in [1 .. N -> Nat]
           /\ \A i \in 1 .. N : Weights(f, s, pcs)[i] <= Largest
           /\ \A p \in Pushers : Weight(f[p], s, pcs) \in Nat /\ Weight(f[p], s, pcs) <= Largest
           /\ Total(N, Weights(f, s, pcs)) \in Nat
<1>1. \A d \in Directives \cup {NoDirective} : d.size \in Nat /\ d.size <= Largest
  BY SizesNat, LargestIs
<1>2. \A p \in Pushers : Weight(f[p], s, pcs) \in Nat /\ Weight(f[p], s, pcs) <= Largest
  <2> TAKE p \in Pushers
  <2>1. f[p].dir.size \in Nat /\ f[p].dir.size <= Largest
    BY <1>1 DEF PusherType
  <2>2. Largest \in Nat
    BY LargestIs
  <2> QED BY <2>1, <2>2 DEF Weight
<1>3. Weights(f, s, pcs) \in [1 .. N -> Nat]
  BY <1>2, OrderIs DEF Weights
<1>4. \A i \in 1 .. N : Weights(f, s, pcs)[i] <= Largest
  BY <1>2, OrderIs DEF Weights
<1> QED BY <1>2, <1>3, <1>4, OrderIs, TotalNat

LEMMA WeightsChange ==
    ASSUME Finite, NEW f \in [Pushers -> PusherType], NEW g \in [Pushers -> PusherType],
           NEW s, NEW pcs, NEW p \in Pushers, \A q \in Pushers : q # p => g[q] = f[q]
    PROVE  Total(N, Weights(g, s, pcs)) + Weight(f[p], s, pcs)
              = Total(N, Weights(f, s, pcs)) + Weight(g[p], s, pcs)
<1>1. PICK k \in 1 .. N : Order[k] = p
  BY OrderIs
<1>2. PICK u \in [1 .. N -> Nat], v \in [1 .. N -> Nat] :
        u = Weights(f, s, pcs) /\ v = Weights(g, s, pcs)
  BY WeightsNat
<1>3. \A i \in 1 .. N : i # k => v[i] = u[i]
  BY <1>1, <1>2, OrderIs DEF Weights
<1>4. u[k] = Weight(f[p], s, pcs) /\ v[k] = Weight(g[p], s, pcs)
  BY <1>1, <1>2 DEF Weights
<1>5. Total(N, v) + u[k] = Total(N, u) + v[k]
  BY <1>3, OrderIs, TotalChange
<1> QED BY <1>2, <1>4, <1>5

LEMMA WeightsBound ==
    ASSUME Finite, NEW f \in [Pushers -> PusherType], NEW s, NEW pcs, NEW p \in Pushers
    PROVE  Total(N, Weights(f, s, pcs)) <= Slack + Weight(f[p], s, pcs)
<1>1. PICK k \in 1 .. N : Order[k] = p
  BY OrderIs
<1>2. PICK u \in [1 .. N -> Nat] : u = Weights(f, s, pcs)
  BY WeightsNat
<1>3. u[k] = Weight(f[p], s, pcs) /\ \A i \in 1 .. N : u[i] <= Largest
  BY <1>1, <1>2, WeightsNat DEF Weights
<1>4. Total(N, u) <= Slack + u[k]
  BY <1>3, OrderIs, LargestIs, TotalBound DEF Slack
<1> QED BY <1>2, <1>3, <1>4

LEMMA CreditedClaims ==
    ASSUME Finite, NEW f \in [Pushers -> PusherType], NEW s
    PROVE  Total(N, Weights(f, s, Uncredited)) <= Total(N, Weights(f, s, Claiming))
<1>1. PICK u \in [1 .. N -> Nat], v \in [1 .. N -> Nat] :
        u = Weights(f, s, Uncredited) /\ v = Weights(f, s, Claiming)
  BY WeightsNat
<1>2. \A i \in 1 .. N : u[i] <= v[i]
  <2> TAKE i \in 1 .. N
  <2>1. u[i] \in Nat /\ v[i] \in Nat
    OBVIOUS
  <2>2. u[i] = 0 \/ u[i] = v[i]
    BY <1>1 DEF Weights, Weight, Uncredited, Claiming
  <2> QED BY <2>1, <2>2
<1> QED BY <1>1, <1>2, OrderIs, TotalMonotone

LEMMA SlackInt == Finite => Slack \in Int /\ Cap + Slack \in Int
BY OrderIs, LargestIs DEF Slack

LEMMA CountBounds == ASSUME Finite, TypeOK, CountInv PROVE QueueBounded
<1> SUFFICES ASSUME NEW s \in Subs PROVE Bytes(ch[s]) <= Cap + Slack
  BY DEF QueueBounded, Cap, Slack, N
<1>1. pusher \in [Pushers -> PusherType] /\ ch[s] \in Seq(Directives) /\ queuedBytes[s] \in Int
      /\ hand[s] \in Directives \cup {NoDirective}
  BY DEF TypeOK
<1>2. Bytes(ch[s]) \in Nat /\ hand[s].size \in Nat /\ Cap + Slack \in Int
  BY <1>1, BytesNat, SizesNat, SlackInt
<1>3. /\ Total(N, Weights(pusher, s, Uncredited)) \in Nat
      /\ Total(N, Weights(pusher, s, Claiming)) \in Nat
      /\ Total(N, Weights(pusher, s, Uncredited)) <= Total(N, Weights(pusher, s, Claiming))
  BY <1>1, WeightsNat, CreditedClaims
<1>4. /\ Bytes(ch[s]) + hand[s].size = queuedBytes[s] + Total(N, Weights(pusher, s, Uncredited))
      /\ queuedBytes[s] + Total(N, Weights(pusher, s, Claiming)) <= hand[s].size + (Cap + Slack)
  BY DEF CountInv
<1> QED BY <1>1, <1>2, <1>3, <1>4

-----------------------------------------------------------------------------
(***************************************************************************)
(* What a step of a push may do to the count of stream t: let a claim go,    *)
(* make one after the check, enqueue what was claimed, or credit it.        *)
(***************************************************************************)
LetsGo(w, v, t) ==
    /\ ch'[t] = ch[t] /\ queuedBytes'[t] = queuedBytes[t]
    /\ Weight(v, t, Uncredited) = Weight(w, t, Uncredited)
    /\ Weight(v, t, Claiming) <= Weight(w, t, Claiming)

Claims(w, v, t) ==
    /\ ch'[t] = ch[t] /\ queuedBytes'[t] = queuedBytes[t]
    /\ Weight(v, t, Uncredited) = Weight(w, t, Uncredited)
    /\ \/ queuedBytes[t] + Weight(v, t, Claiming) <= MaxBytes
       \/ queuedBytes[t] <= 0

Fills(w, v, t) ==
    /\ Bytes(ch'[t]) = Bytes(ch[t]) + Weight(v, t, Uncredited)
    /\ queuedBytes'[t] = queuedBytes[t]
    /\ Weight(w, t, Uncredited) = 0
    /\ Weight(v, t, Claiming) = Weight(w, t, Claiming)

Credits(w, v, t) ==
    /\ ch'[t] = ch[t] /\ queuedBytes'[t] = queuedBytes[t] + Weight(w, t, Uncredited)
    /\ Weight(w, t, Claiming) = Weight(w, t, Uncredited)
    /\ Weight(v, t, Claiming) = 0 /\ Weight(v, t, Uncredited) = 0

LEMMA PusherCounts ==
    ASSUME Finite, TypeOK, TypeOK', CountInv, NEW p \in Pushers,
           \A q \in Pushers : q # p => pusher'[q] = pusher[q],
           loop' = loop, hand' = hand,
           \A t \in Subs : \/ LetsGo(pusher[p], pusher'[p], t)
                           \/ Claims(pusher[p], pusher'[p], t)
                           \/ Fills(pusher[p], pusher'[p], t)
                           \/ Credits(pusher[p], pusher'[p], t)
    PROVE  CountInv'
<1>1. pusher \in [Pushers -> PusherType] /\ pusher' \in [Pushers -> PusherType]
  BY DEF TypeOK
<1>2. ASSUME NEW t \in Subs
      PROVE  /\ Bytes(ch'[t]) + hand[t].size
                   = queuedBytes'[t] + Total(N, Weights(pusher', t, Uncredited))
             /\ queuedBytes'[t] + Total(N, Weights(pusher', t, Claiming))
                   <= hand[t].size + (Cap + Slack)
  <2>1. PICK a \in Nat, b \in Nat, x \in Nat, y \in Nat :
          /\ a = Weight(pusher[p], t, Uncredited) /\ b = Weight(pusher'[p], t, Uncredited)
          /\ x = Weight(pusher[p], t, Claiming) /\ y = Weight(pusher'[p], t, Claiming)
          /\ y <= Largest
    BY <1>1, WeightsNat
  <2>2. PICK c \in Nat, d \in Nat, k \in Nat, l \in Nat :
          /\ c = Total(N, Weights(pusher, t, Uncredited))
          /\ d = Total(N, Weights(pusher', t, Uncredited))
          /\ k = Total(N, Weights(pusher, t, Claiming))
          /\ l = Total(N, Weights(pusher', t, Claiming))
    BY <1>1, WeightsNat
  <2>3. d + a = c + b /\ l + x = k + y
    BY <1>1, <2>1, <2>2, WeightsChange
  <2>4. l <= Slack + y
    BY <1>1, <2>1, <2>2, WeightsBound
  <2>5. PICK B \in Nat, B2 \in Nat, h \in Nat, m \in Int, m2 \in Int :
          /\ B = Bytes(ch[t]) /\ B2 = Bytes(ch'[t]) /\ h = hand[t].size
          /\ m = queuedBytes[t] /\ m2 = queuedBytes'[t]
    <3>1. /\ ch[t] \in Seq(Directives) /\ ch'[t] \in Seq(Directives)
          /\ queuedBytes[t] \in Int /\ queuedBytes'[t] \in Int
          /\ hand[t] \in Directives \cup {NoDirective}
      BY DEF TypeOK
    <3>2. Bytes(ch[t]) \in Nat /\ Bytes(ch'[t]) \in Nat
      BY <3>1, BytesNat
    <3>3. hand[t].size \in Nat
      BY <3>1, SizesNat
    <3> QED BY <3>1, <3>2, <3>3
  <2>6. B + h = m + c /\ m + k <= h + (Cap + Slack)
    BY <2>2, <2>5 DEF CountInv
  <2>7. /\ Largest \in Nat /\ Cap \in Nat /\ MaxBytes \in Nat /\ Slack \in Int
        /\ Largest <= Cap /\ MaxBytes <= Cap
    BY LargestIs, SlackInt
  <2>8. B2 + h = m2 + d /\ m2 + l <= h + (Cap + Slack)
    <3>1. CASE LetsGo(pusher[p], pusher'[p], t)
      <4>1. B2 = B /\ m2 = m /\ b = a /\ y <= x
        BY <3>1, <2>1, <2>5 DEF LetsGo
      <4> QED BY <4>1, <2>3, <2>6, <2>7
    <3>2. CASE Claims(pusher[p], pusher'[p], t)
      <4>1. B2 = B /\ m2 = m /\ b = a /\ (m + y <= MaxBytes \/ m <= 0)
        BY <3>2, <2>1, <2>5 DEF Claims
      <4>2. m + l <= Cap + Slack
        BY <4>1, <2>1, <2>4, <2>7
      <4> QED BY <4>1, <4>2, <2>3, <2>6, <2>7
    <3>3. CASE Fills(pusher[p], pusher'[p], t)
      <4>1. B2 = B + b /\ m2 = m /\ a = 0 /\ y = x
        BY <3>3, <2>1, <2>5 DEF Fills
      <4> QED BY <4>1, <2>3, <2>6, <2>7
    <3>4. CASE Credits(pusher[p], pusher'[p], t)
      <4>1. B2 = B /\ m2 = m + a /\ x = a /\ y = 0 /\ b = 0
        BY <3>4, <2>1, <2>5 DEF Credits
      <4> QED BY <4>1, <2>3, <2>6, <2>7
    <3> QED BY <3>1, <3>2, <3>3, <3>4
  <2> QED BY <2>2, <2>5, <2>8
<1>3. \A t \in Subs : loop[t] # "debit" => hand[t] = NoDirective
  BY DEF CountInv
<1> QED BY <1>2, <1>3 DEF CountInv

LEMMA PushCounts ==
    ASSUME Finite, TypeOK, TypeOK', PusherInv, CountInv, NEW p \in Pushers,
           (\E d \in Directives : Push(p, d)) \/ PushNext(p)
    PROVE  CountInv'
<1>1. pusher \in [Pushers -> PusherType] /\ pusher' \in [Pushers -> PusherType]
  BY DEF TypeOK
<1> DEFINE w == pusher[p]
           v == pusher'[p]
<1>2. /\ \A q \in Pushers : q # p => pusher'[q] = pusher[q]
      /\ loop' = loop /\ hand' = hand
  <2>1. \E u : pusher' = [pusher EXCEPT ![p] = u]
    BY <1>1 DEF Push, PushNext, ChunkLoad, ChunkCompare, ChunkDrained, Budget, Enqueue, Credit,
       ChannelFull, Superseded, MarkResync, StashPending, SignalWake, Step, Return
  <2>2. loop' = loop /\ hand' = hand
    BY DEF Push, PushNext, ChunkLoad, ChunkCompare, ChunkDrained, Budget, Enqueue, Credit,
       ChannelFull, Superseded, MarkResync, StashPending, SignalWake
  <2> QED BY <1>1, <2>1, <2>2
<1>3. /\ \A t : Weight(w, t, Claiming) \in Nat /\ Weight(v, t, Claiming) \in Nat
      /\ w.dir.size \in Nat /\ v.dir.size \in Nat
  <2>1. \A t : Weight(w, t, Claiming) \in Nat /\ Weight(v, t, Claiming) \in Nat
    BY <1>1, WeightsNat
  <2>2. w.dir \in Directives \cup {NoDirective} /\ v.dir \in Directives \cup {NoDirective}
    BY <1>1 DEF PusherType
  <2> QED BY <2>1, <2>2, SizesNat
<1>4. CASE \/ \E d \in Directives : Push(p, d)
           \/ ChunkDrained(p) \/ ChannelFull(p) \/ Superseded(p) \/ MarkResync(p)
           \/ StashPending(p) \/ SignalWake(p)
           \/ ChunkLoad(p) /\ v.pc = "compare"
           \/ ChunkCompare(p) /\ v.pc = "wait"
           \/ Budget(p) /\ v.pc = "overflow"
  <2>1. /\ ch' = ch /\ queuedBytes' = queuedBytes
        /\ w.pc # "credit" /\ v.pc \notin Claiming
    BY <1>1, <1>4 DEF Push, ChunkLoad, ChunkCompare, ChunkDrained, Budget, ChannelFull,
       Superseded, MarkResync, StashPending, SignalWake, Step, Return, Idle, At, queue,
       Claiming, PusherType
  <2>2. \A t \in Subs : LetsGo(w, v, t)
    BY <1>3, <2>1 DEF LetsGo, Weight, Uncredited, Claiming
  <2> QED BY <1>2, <2>2, PusherCounts
<1>5. CASE \/ ChunkLoad(p) /\ v.pc = "enqueue"
           \/ ChunkCompare(p) /\ v.pc = "enqueue"
           \/ Budget(p) /\ v.pc = "try"
  <2>1. /\ ch' = ch /\ queuedBytes' = queuedBytes /\ w.sub = v.sub /\ w.dir = v.dir
        /\ w.pc \notin Claiming /\ v.pc # "credit"
    BY <1>1, <1>5 DEF ChunkLoad, ChunkCompare, Budget, Step, At, queue, Claiming, PusherType
  <2>2. w.sub \in Subs /\ \/ queuedBytes[w.sub] + w.dir.size <= MaxBytes
                          \/ ~(queuedBytes[w.sub] > 0)
    BY <1>1, <1>5 DEF PusherInv, At, ChunkLoad, ChunkCompare, Budget, Step, Fits, PusherType
  <2>3. queuedBytes[w.sub] \in Int
    BY <2>2 DEF TypeOK
  <2>4. \A t \in Subs : LetsGo(w, v, t) \/ Claims(w, v, t)
    <3> TAKE t \in Subs
    <3>1. CASE t # w.sub
      BY <3>1, <1>3, <2>1 DEF LetsGo, Weight, Uncredited, Claiming
    <3>2. CASE t = w.sub
      <4>1. Weight(v, t, Claiming) = w.dir.size \/ Weight(v, t, Claiming) = 0
        BY <3>2, <2>1 DEF Weight
      <4>2. Weight(v, t, Uncredited) = 0 /\ Weight(w, t, Uncredited) = 0
        BY <2>1 DEF Weight, Uncredited, Claiming
      <4>3. Weight(v, t, Claiming) = w.dir.size => Claims(w, v, t)
        BY <3>2, <2>1, <2>2, <2>3, <4>2 DEF Claims
      <4>4. Weight(v, t, Claiming) = 0 => LetsGo(w, v, t)
        BY <1>3, <2>1, <4>2 DEF LetsGo
      <4> QED BY <4>1, <4>3, <4>4
    <3> QED BY <3>1, <3>2
  <2> QED BY <1>2, <2>4, PusherCounts
<1>6. CASE Enqueue(p)
  <2>1. /\ queuedBytes' = queuedBytes /\ w.sub = v.sub /\ w.dir = v.dir
        /\ w.pc \in {"try", "enqueue"} /\ v.pc = "credit"
    BY <1>1, <1>6 DEF Enqueue, Step, At, PusherType
  <2>2. w.sub \in Subs /\ w.dir \in Directives
    BY <2>1 DEF PusherInv, At
  <2>3. ch[w.sub] \in Seq(Directives)
    BY <2>2 DEF TypeOK
  <2>4. ch'[w.sub] = Append(ch[w.sub], w.dir) /\ \A t \in Subs : t # w.sub => ch'[t] = ch[t]
    BY <1>6, <2>2 DEF Enqueue, TypeOK
  <2>5. \A t \in Subs : LetsGo(w, v, t) \/ Fills(w, v, t)
    <3> TAKE t \in Subs
    <3>1. CASE t # w.sub
      BY <3>1, <1>3, <2>1, <2>4 DEF LetsGo, Weight
    <3>2. CASE t = w.sub
      <4>1. Bytes(ch'[t]) = Bytes(ch[t]) + w.dir.size
        BY <3>2, <2>2, <2>3, <2>4, BytesAppend
      <4>2. Weight(v, t, Uncredited) = w.dir.size /\ Weight(w, t, Uncredited) = 0
            /\ Weight(v, t, Claiming) = Weight(w, t, Claiming)
        BY <3>2, <2>1 DEF Weight, Uncredited, Claiming
      <4> QED BY <4>1, <4>2, <2>1 DEF Fills
    <3> QED BY <3>1, <3>2
  <2> QED BY <1>2, <2>5, PusherCounts
<1>7. CASE Credit(p)
  <2>1. ch' = ch /\ w.pc = "credit" /\ v.pc = "idle"
    BY <1>1, <1>7 DEF Credit, Return, Idle, At, PusherType
  <2>2. w.sub \in Subs
    BY <2>1 DEF PusherInv, At
  <2>3. /\ queuedBytes'[w.sub] = queuedBytes[w.sub] + w.dir.size
        /\ \A t \in Subs : t # w.sub => queuedBytes'[t] = queuedBytes[t]
    BY <1>7, <2>2 DEF Credit, TypeOK
  <2>4. \A t \in Subs : LetsGo(w, v, t) \/ Credits(w, v, t)
    <3> TAKE t \in Subs
    <3>1. CASE t # w.sub
      BY <3>1, <1>3, <2>1, <2>3 DEF LetsGo, Weight, Uncredited, Claiming
    <3>2. CASE t = w.sub
      BY <3>2, <2>1, <2>3 DEF Credits, Weight, Uncredited, Claiming
    <3> QED BY <3>1, <3>2
  <2> QED BY <1>2, <2>4, PusherCounts
<1>8. /\ ChunkLoad(p) => v.pc \in {"compare", "enqueue"}
      /\ ChunkCompare(p) => v.pc \in {"enqueue", "wait"}
      /\ Budget(p) => v.pc \in {"try", "overflow"}
  BY <1>1 DEF ChunkLoad, ChunkCompare, Budget, Step, PusherType
<1> QED BY <1>4, <1>5, <1>6, <1>7, <1>8 DEF PushNext

\* The loop takes the head of the queue into its hand and debits it later.
LEMMA LoopCounts ==
    ASSUME Finite, TypeOK, TypeOK', CountInv, NEW s \in Subs, LoopNext(s) \/ StreamDies(s)
    PROVE  CountInv'
<1>1. pusher' = pusher
  BY DEF LoopNext, SelectSuperseded, StreamDies, SelectReceive, Debit, SignalDrain, SelectWake,
     TakeNeedResync, NothingPending, TakePending, Send, Cleanup
<1> DEFINE Counted(t) ==
      /\ loop'[t] # "debit" => hand'[t] = NoDirective
      /\ Bytes(ch'[t]) + hand'[t].size
            = queuedBytes'[t] + Total(N, Weights(pusher, t, Uncredited))
      /\ queuedBytes'[t] + Total(N, Weights(pusher, t, Claiming))
            <= hand'[t].size + (Cap + Slack)
<1>2. ASSUME NEW t \in Subs, ch'[t] = ch[t], queuedBytes'[t] = queuedBytes[t],
             hand'[t] = hand[t], loop'[t] # "debit" => loop[t] # "debit"
      PROVE  Counted(t)
  BY <1>2 DEF CountInv
<1>3. /\ loop \in [Subs -> LoopPCs] /\ ch \in [Subs -> Seq(Directives)]
      /\ queuedBytes \in [Subs -> Int] /\ hand \in [Subs -> Directives \cup {NoDirective}]
      /\ \A t \in Subs : hand[t].size \in Nat
      /\ \A pcs : Total(N, Weights(pusher, s, pcs)) \in Nat
      /\ Cap + Slack \in Int
  <2>1. pusher \in [Pushers -> PusherType]
    BY DEF TypeOK
  <2>2. hand \in [Subs -> Directives \cup {NoDirective}] /\ \A t \in Subs : hand[t].size \in Nat
    <3>1. hand \in [Subs -> Directives \cup {NoDirective}]
      BY DEF TypeOK
    <3>2. \A d \in Directives \cup {NoDirective} : d.size \in Nat
      BY SizesNat
    <3> QED BY <3>1, <3>2
  <2>3. \A pcs : Total(N, Weights(pusher, s, pcs)) \in Nat
    BY <2>1, WeightsNat
  <2> QED BY <2>2, <2>3, SlackInt DEF TypeOK
<1>4. \A t \in Subs : t # s =>
        /\ ch'[t] = ch[t] /\ queuedBytes'[t] = queuedBytes[t]
        /\ hand'[t] = hand[t] /\ loop'[t] = loop[t]
  BY <1>3 DEF LoopNext, SelectSuperseded, StreamDies, SelectReceive, Debit, SignalDrain, SelectWake,
     TakeNeedResync, NothingPending, TakePending, Send, Cleanup, Goto, queue
<1>5. Counted(s)
  <2>1. CASE SelectReceive(s)
    <3>1. /\ loop[s] = "select" /\ ch[s] # <<>> /\ loop'[s] = "debit"
          /\ hand'[s] = Head(ch[s]) /\ ch'[s] = Tail(ch[s]) /\ queuedBytes'[s] = queuedBytes[s]
      BY <1>3, <2>1 DEF SelectReceive, Goto
    <3>2. hand[s].size = 0
      BY <3>1, SizesNat DEF CountInv
    <3>3. Bytes(ch[s]) = hand'[s].size + Bytes(ch'[s])
      BY <1>3, <3>1, BytesTail
    <3>4. PICK B \in Nat, B2 \in Nat, h \in Nat, m \in Int, c \in Nat, k \in Nat :
            /\ B = Bytes(ch[s]) /\ B2 = Bytes(ch'[s]) /\ h = hand'[s].size
            /\ m = queuedBytes[s]
            /\ c = Total(N, Weights(pusher, s, Uncredited))
            /\ k = Total(N, Weights(pusher, s, Claiming))
      <4>1. Head(ch[s]) \in Directives /\ Tail(ch[s]) \in Seq(Directives)
        BY <1>3, <3>1
      <4>2. Bytes(ch[s]) \in Nat /\ Bytes(ch'[s]) \in Nat /\ hand'[s].size \in Nat
        BY <1>3, <3>1, <4>1, BytesNat, SizesNat
      <4> QED BY <1>3, <4>2
    <3>5. B + 0 = m + c /\ m + k <= 0 + (Cap + Slack) /\ B = h + B2
      BY <3>2, <3>3, <3>4 DEF CountInv
    <3>6. B2 + h = m + c /\ m + k <= h + (Cap + Slack)
      BY <1>3, <3>5
    <3> QED BY <3>1, <3>4, <3>6
  <2>2. CASE Debit(s)
    <3>1. /\ loop'[s] # "debit" /\ hand'[s] = NoDirective /\ ch'[s] = ch[s]
          /\ queuedBytes'[s] = queuedBytes[s] - hand[s].size
      BY <1>3, <2>2 DEF Debit, Goto
    <3>2. hand'[s].size = 0
      BY <3>1, SizesNat
    <3>3. PICK B \in Nat, h \in Nat, m \in Int, c \in Nat, k \in Nat :
            /\ B = Bytes(ch[s]) /\ h = hand[s].size /\ m = queuedBytes[s]
            /\ c = Total(N, Weights(pusher, s, Uncredited))
            /\ k = Total(N, Weights(pusher, s, Claiming))
      BY <1>3, BytesNat
    <3>4. B + h = m + c /\ m + k <= h + (Cap + Slack)
      BY <3>3 DEF CountInv
    <3>5. B + 0 = (m - h) + c /\ (m - h) + k <= 0 + (Cap + Slack)
      BY <1>3, <3>4
    <3> QED BY <3>1, <3>2, <3>3, <3>5
  <2>3. CASE ~(SelectReceive(s) \/ Debit(s))
    <3>1. /\ ch'[s] = ch[s] /\ queuedBytes'[s] = queuedBytes[s] /\ hand'[s] = hand[s]
          /\ loop[s] # "debit"
      BY <1>3, <2>3 DEF LoopNext, SelectSuperseded, StreamDies, SignalDrain, SelectWake, TakeNeedResync,
         NothingPending, TakePending, Send, Cleanup, queue
    <3> HIDE DEF Counted
    <3> QED BY <3>1, <1>2
  <2> QED BY <2>1, <2>2, <2>3
<1>6. \A t \in Subs : Counted(t)
  <2> HIDE DEF Counted
  <2> QED BY <1>2, <1>4, <1>5
<1> QED BY <1>1, <1>6 DEF CountInv

LEMMA InitCounts == ASSUME Finite, Init PROVE CountInv
<1>1. pusher \in [Pushers -> PusherType]
  BY DEF Init, Idle, PusherType, PusherPCs
<1>2. ASSUME NEW s \in Subs, NEW pcs, "idle" \notin pcs
      PROVE  Total(N, Weights(pusher, s, pcs)) = 0
  <2>1. PICK u \in [1 .. N -> Nat] : u = Weights(pusher, s, pcs)
    BY <1>1, WeightsNat
  <2>2. \A i \in 1 .. N : u[i] = 0
    BY <1>2, <2>1, OrderIs DEF Init, Idle, Weights, Weight
  <2> DEFINE t == [i \in 0 .. N |-> 0]
  <2>3. Adds(t, N, u)
    BY <2>2, OrderIs DEF Adds
  <2>4. t[N] = 0
    BY OrderIs
  <2> HIDE DEF t
  <2> QED BY <2>1, <2>3, <2>4, OrderIs, TotalIs
<1>3. 0 <= Cap + Slack
  <2>1. PICK n \in Nat, l \in Nat, c \in Nat : n = N /\ l = Largest /\ c = Cap /\ l <= c
    BY OrderIs, LargestIs
  <2>2. 0 <= c + (n - 1) * l
    <3>1. CASE n = 0
      <4>1. (n - 1) * l = -l
        BY <3>1
      <4> QED BY <4>1, <2>1
    <3>2. CASE n # 0
      <4>1. n - 1 \in Nat
        BY <3>2
      <4>2. (n - 1) * l \in Nat
        BY <4>1
      <4> QED BY <4>2
    <3> QED BY <3>1, <3>2
  <2> QED BY <2>1, <2>2 DEF Slack
<1>4. "idle" \notin Uncredited /\ "idle" \notin Claiming
  BY DEF Uncredited, Claiming
<1>5. ASSUME NEW s \in Subs
      PROVE  /\ hand[s] = NoDirective /\ hand[s].size = 0
             /\ Bytes(ch[s]) = 0 /\ queuedBytes[s] = 0
             /\ Total(N, Weights(pusher, s, Uncredited)) = 0
             /\ Total(N, Weights(pusher, s, Claiming)) = 0
  <2>1. hand[s] = NoDirective /\ ch[s] = <<>> /\ queuedBytes[s] = 0
    BY DEF Init
  <2> QED BY <2>1, <1>2, <1>4, SizesNat, BytesEmpty
<1>6. Cap + Slack \in Int
  BY SlackInt
<1> QED BY <1>3, <1>5, <1>6 DEF CountInv

LEMMA NextCounts ==
    ASSUME Finite, TypeOK, TypeOK', PusherInv, CountInv, [Next]_vars
    PROVE  CountInv'
<1>1. ASSUME NEW s \in Subs, Subscribe(s) PROVE CountInv'
  <2>1. /\ ch' = ch /\ queuedBytes' = queuedBytes /\ hand' = hand /\ pusher' = pusher
        /\ \A t \in Subs : loop'[t] # "debit" => loop[t] # "debit"
    BY <1>1 DEF Subscribe, queue, TypeOK
  <2> QED BY <2>1 DEF CountInv
<1>2. ASSUME NEW s \in Subs, LoopNext(s) \/ StreamDies(s) PROVE CountInv'
  BY <1>2, LoopCounts
<1>3. ASSUME NEW p \in Pushers, (\E d \in Directives : Push(p, d)) \/ PushNext(p)
      PROVE  CountInv'
  BY <1>3, PushCounts
<1>4. CASE UNCHANGED vars
  BY <1>4 DEF vars, queue, CountInv
<1> QED BY <1>1, <1>2, <1>3, <1>4 DEF Next

-----------------------------------------------------------------------------
LEMMA SpecIInv == Spec => []IInv
<1>1. IInv /\ [Next]_vars => IInv'
  BY NextTypes, NextDone, NextWake DEF IInv
<1> QED BY <1>1, InitIInv, PTL DEF Spec

(***************************************************************************)
(* Every value keeps its type; a delta or a chunk is never coalesced.      *)
(***************************************************************************)
THEOREM TypeCorrect == Spec => []TypeOK
<1>1. IInv => TypeOK
  BY DEF IInv
<1> QED BY <1>1, SpecIInv, PTL

(***************************************************************************)
(* No stream's done channel is closed twice, and none that ended is left    *)
(* open: superseding and cleaning up never both end a stream.               *)
(***************************************************************************)
THEOREM StreamsEndOnce == Spec => []DoneClosedOnce
<1>1. IInv => DoneClosedOnce
  BY SubsFacts DEF IInv, DoneInv, DoneClosedOnce
<1> QED BY <1>1, SpecIInv, PTL

(***************************************************************************)
(* The send loop comes to see whatever push coalesced or dropped.          *)
(***************************************************************************)
THEOREM WakesNotLost == Spec => []NoLostWake
<1>1. IInv => NoLostWake
  BY DEF IInv
<1> QED BY <1>1, SpecIInv, PTL

(***************************************************************************)
(* However many pushers race past their check, a stream's queue holds no     *)
(* more than its cap (or one oversized chunk) and a directive for each of    *)
(* the others.                                                             *)
(***************************************************************************)
THEOREM QueueStaysBounded ==
    ASSUME Finite
    PROVE  Spec => []QueueBounded
<1>1. Init => CountInv
  BY InitCounts
<1>2. IInv /\ IInv' /\ CountInv /\ [Next]_vars => CountInv'
  BY NextCounts DEF IInv
<1>3. IInv /\ CountInv => QueueBounded
  BY CountBounds DEF IInv
<1> QED BY <1>1, <1>2, <1>3, SpecIInv, PTL DEF Spec
=============================================================================
