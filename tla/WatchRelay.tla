----------------------------- MODULE WatchRelay -----------------------------
(***************************************************************************)
(* The downlink seam (internal/coverer/watchclient.go): one goroutine       *)
(* consumes the Watch stream and hands every EDGE_DIRECTIVE to a worker of   *)
(* its edge, which relays them one by one with grpcsrv.Push*.  Workers are  *)
(* made on demand and reaped when idle; a stream drop cancels those of its   *)
(* connection and the next connection starts with none.                    *)
(*                                                                          *)
(* A step is one critical section (c.mu and w.mu), one channel operation or *)
(* one Push* call, which returns when AgentPush lets it: a chunk may block. *)
(* Reconnecting is one step here: its backoff changes nothing that matters  *)
(* to the workers.                                                          *)
(***************************************************************************)
EXTENDS Naturals, Sequences, FiniteSets

CONSTANTS
    Edges,
    Wedged,         \* edges whose agent may never again take what is pushed
    \* Bounds on the environment:
    MaxSent,        \* directives the server sends
    MaxConns        \* Watch connections, one after the other

ASSUME RelayAssumption ==
    /\ Edges # {} /\ Wedged \subseteq Edges
    /\ {MaxSent, MaxConns} \subseteq Nat

\* REHOME stands for FAILOVER and URGENT, too: dispatch treats them alike.
Kinds == {"DESIRED_STATE", "DESIRED_DELTA", "REHOME"}
Workers == 1 .. MaxSent     \* one is only ever started for a directive
None == 0       \* no worker, no directive

VARIABLES
    conn, up,       \* the current connection, and whether its stream is open
    sent,           \* history: what the server sent, each with its connection
    stream,         \* what of it the consumer has yet to receive (indices of sent)
    workers,        \* watchConsumer.workers of the current connection
    signal,         \* worker the consumer enqueued to and has yet to wake
    worker,         \* every worker: where it is, its edge, its queue, ...
    relayed         \* history, per edge: Push* calls that returned

vars == <<conn, up, sent, stream, workers, signal, worker, relayed>>

Unborn == [pc |-> "unborn", conn |-> 0, edge |-> CHOOSE e \in Edges : TRUE,
           queue |-> <<>>, wake |-> FALSE, hand |-> None]

Init ==
    /\ conn = 0 /\ up = FALSE
    /\ sent = <<>> /\ stream = <<>>
    /\ workers = [e \in Edges |-> None]
    /\ signal = None
    /\ worker = [w \in Workers |-> Unborn]
    /\ relayed = [e \in Edges |-> <<>>]

-----------------------------------------------------------------------------
(***************************************************************************)
(* The Watch stream.  A drop loses what was in flight.                     *)
(***************************************************************************)
Connect ==
    /\ ~up /\ conn < MaxConns
    /\ conn' = conn + 1 /\ up' = TRUE
    /\ workers' = [e \in Edges |-> None]
    /\ UNCHANGED <<sent, stream, signal, worker, relayed>>

Drop ==     \* Recv fails: cancel() and start over
    /\ up /\ signal = None
    /\ up' = FALSE /\ stream' = <<>>
    /\ UNCHANGED <<conn, sent, workers, signal, worker, relayed>>

ServerSends(e, k) ==
    /\ up /\ Len(sent) < MaxSent
    /\ sent' = Append(sent, [edge |-> e, kind |-> k, conn |-> conn])
    /\ stream' = Append(stream, Len(sent) + 1)
    /\ UNCHANGED <<conn, up, workers, signal, worker, relayed>>

(***************************************************************************)
(* enqueue: a full snapshot supersedes the desired state queued before it.  *)
(***************************************************************************)
IsDesired(n) == sent[n].kind \in {"DESIRED_STATE", "DESIRED_DELTA"}

Enqueue_DropsAll(q, n) ==       \* mutant: supersedes the rehomes, too
    IF sent[n].kind = "DESIRED_STATE" THEN <<n>> ELSE Append(q, n)

\* The numbers of K, smallest first.
InOrder(K) ==
    CHOOSE h \in [1 .. Cardinality(K) -> K] :
        \A i, j \in 1 .. Cardinality(K) : i < j => h[i] < h[j]

\* What is not desired state stays, in order.
Kept(q) ==
    LET K == {i \in DOMAIN q : ~IsDesired(q[i])}
    IN  [k \in 1 .. Cardinality(K) |-> q[InOrder(K)[k]]]

Enqueue(q, n) == Append(IF sent[n].kind = "DESIRED_STATE" THEN Kept(q) ELSE q, n)

(***************************************************************************)
(* dispatch: append to the edge's worker, or to a new one, under both locks;*)
(* then wake it.                                                            *)
(***************************************************************************)
Started(n) == [pc |-> "top", conn |-> conn, edge |-> sent[n].edge,
               queue |-> Enqueue(<<>>, n), wake |-> FALSE, hand |-> None]

Dispatch_OneAtATime ==      \* mutant: waits for the worker to be through
    LET n == Head(stream)  w == workers[sent[n].edge]
    IN  /\ up /\ stream # <<>> /\ signal = None
        /\ stream' = Tail(stream)
        /\ IF w # None
           THEN /\ worker[w].queue = <<>> /\ worker[w].hand = None
                /\ worker' = [worker EXCEPT ![w].queue = Enqueue(@, n)]
                /\ signal' = w
                /\ UNCHANGED workers
           ELSE \E new \in Workers :
                /\ worker[new] = Unborn /\ \A v \in Workers : v < new => worker[v] # Unborn
                /\ worker' = [worker EXCEPT ![new] = Started(n)]
                /\ workers' = [workers EXCEPT ![sent[n].edge] = new]
                /\ signal' = new
        /\ UNCHANGED <<conn, up, sent, relayed>>

Dispatch ==
    LET n == Head(stream)  w == workers[sent[n].edge]
    IN  /\ up /\ stream # <<>> /\ signal = None
        /\ stream' = Tail(stream)
        /\ \/ /\ w # None
              /\ worker' = [worker EXCEPT ![w].queue = Enqueue(@, n)]
              /\ signal' = w
              /\ UNCHANGED workers
           \/ /\ w = None
              /\ \E new \in Workers :
                    /\ worker[new] = Unborn
                    /\ \A v \in Workers : v < new => worker[v] # Unborn
                    /\ worker' = [worker EXCEPT ![new] = Started(n)]
                    /\ workers' = [workers EXCEPT ![sent[n].edge] = new]
                    /\ signal' = new
        /\ UNCHANGED <<conn, up, sent, relayed>>

Wake ==
    /\ signal # None
    /\ worker' = [worker EXCEPT ![signal].wake = TRUE]
    /\ signal' = None
    /\ UNCHANGED <<conn, up, sent, stream, workers, relayed>>

-----------------------------------------------------------------------------
(***************************************************************************)
(* runWorker.  It looks at the queue first and at its context only when the *)
(* queue is empty, so what is queued when its connection drops is relayed.  *)
(***************************************************************************)
At(w, pc) == worker[w].pc = pc
Cancelled_Never(w) == FALSE     \* mutant: a dropped connection's context lives on

Cancelled(w) == worker[w].conn < conn \/ ~up
Unshared == <<conn, up, sent, stream, signal>>

Dequeue(w) ==
    /\ At(w, "top") /\ worker[w].queue # <<>>
    /\ worker' = [worker EXCEPT ![w].pc = "push", ![w].hand = Head(worker[w].queue),
                                ![w].queue = Tail(@)]
    /\ UNCHANGED <<Unshared, workers, relayed>>

Relay(w) ==     \* relayDirective returns
    LET e == worker[w].edge
    IN  /\ At(w, "push")
        /\ relayed' = [relayed EXCEPT ![e] = Append(@, worker[w].hand)]
        /\ worker' = [worker EXCEPT ![w].pc = "top", ![w].hand = None]
        /\ UNCHANGED <<Unshared, workers>>

QueueEmpty(w) ==
    /\ At(w, "top") /\ worker[w].queue = <<>>
    /\ worker' = [worker EXCEPT ![w].pc = "select"]
    /\ UNCHANGED <<Unshared, workers, relayed>>

Woken(w) ==
    /\ At(w, "select") /\ worker[w].wake
    /\ worker' = [worker EXCEPT ![w].pc = "top", ![w].wake = FALSE]
    /\ UNCHANGED <<Unshared, workers, relayed>>

CtxDone(w) ==
    /\ At(w, "select") /\ Cancelled(w)
    /\ worker' = [worker EXCEPT ![w].pc = "done"]
    /\ UNCHANGED <<Unshared, workers, relayed>>

(***************************************************************************)
(* The idle timer fired, perhaps while a directive came in: the queue is    *)
(* looked at again under the locks dispatch takes.                         *)
(***************************************************************************)
Unmap(w) ==     \* in a cancelled connection the map is garbage
    workers' = [e \in Edges |-> IF workers[e] = w THEN None ELSE workers[e]]

IdleReap_KeepsEntry(w) ==       \* mutant: leaves, but stays in the map
    /\ At(w, "select")
    /\ worker' = [worker EXCEPT ![w].pc = IF worker[w].queue = <<>> THEN "done" ELSE "top"]
    /\ UNCHANGED <<Unshared, workers, relayed>>

IdleReap_UnmapFirst(w) ==       \* mutant: leaves the map before it looks
    /\ At(w, "select")
    /\ worker' = [worker EXCEPT ![w].pc = IF worker[w].queue = <<>> THEN "done" ELSE "top"]
    /\ Unmap(w)
    /\ UNCHANGED <<Unshared, relayed>>

IdleReap(w) ==
    /\ At(w, "select")
    /\ \/ /\ worker[w].queue = <<>>
          /\ worker' = [worker EXCEPT ![w].pc = "done"]
          /\ Unmap(w)
       \/ /\ worker[w].queue # <<>>
          /\ worker' = [worker EXCEPT ![w].pc = "top"]
          /\ UNCHANGED workers
    /\ UNCHANGED <<Unshared, relayed>>

-----------------------------------------------------------------------------
WorkerNext(w) ==
    Dequeue(w) \/ Relay(w) \/ QueueEmpty(w) \/ Woken(w) \/ CtxDone(w) \/ IdleReap(w)

Next ==
    \/ Connect
    \/ Drop
    \/ \E e \in Edges, k \in Kinds : ServerSends(e, k)
    \/ Dispatch
    \/ Wake
    \/ \E w \in Workers : WorkerNext(w)

Spec == Init /\ [][Next]_vars

(***************************************************************************)
(* Goroutines run; a Push* to an edge that is not wedged returns            *)
(* (AgentPush, ChunkUnblocked).  Neither the server, a connection nor a     *)
(* timer owes anything, and a wedged edge's push may block for ever.        *)
(***************************************************************************)
FairSpec ==
    /\ Spec
    /\ WF_vars(Dispatch) /\ WF_vars(Wake)
    /\ \A w \in Workers :
          /\ WF_vars(worker[w].edge \notin Wedged /\ Relay(w))
          /\ WF_vars(Dequeue(w) \/ QueueEmpty(w) \/ Woken(w) \/ CtxDone(w))

-----------------------------------------------------------------------------
Indices == 1 .. MaxSent
WorkerPCs == {"unborn", "top", "push", "select", "done"}

\* An entry of the map is a worker of that edge that runs.
MapOK ==
    \A e \in Edges : up /\ workers[e] # None =>
        LET w == worker[workers[e]]
        IN  w.edge = e /\ w.conn = conn /\ w.pc \notin {"unborn", "done"}

TypeOK ==
    /\ conn \in 0 .. MaxConns /\ up \in BOOLEAN
    /\ sent \in Seq([edge : Edges, kind : Kinds, conn : 1 .. MaxConns])
    /\ stream \in Seq(Indices)
    /\ workers \in [Edges -> Workers \cup {None}]
    /\ signal \in Workers \cup {None}
    /\ worker \in [Workers -> [pc : WorkerPCs, conn : 0 .. MaxConns, edge : Edges,
                               queue : Seq(Indices), wake : BOOLEAN,
                               hand : Indices \cup {None}]]
    /\ relayed \in [Edges -> Seq(Indices)]
    /\ MapOK

Members(s) == {s[i] : i \in DOMAIN s}

(***************************************************************************)
(* edgeWorker's comment: one edge's directives of one connection reach the  *)
(* agent's queue in the order the server sent them, none of them twice,     *)
(* although the edge's worker may have been reaped and replaced in between. *)
(***************************************************************************)
PerEdgeFIFO ==
    \A e \in Edges : \A i, j \in DOMAIN relayed[e] :
        i < j /\ sent[relayed[e][i]].conn = sent[relayed[e][j]].conn
            => relayed[e][i] < relayed[e][j]

(***************************************************************************)
(* dispatch never drops: of what the consumer received on the open stream,  *)
(* everything is relayed or still with a worker that will come to it, but   *)
(* for desired state that a later full snapshot of the edge superseded.     *)
(***************************************************************************)
Superseded(n) ==
    /\ IsDesired(n)
    /\ \E m \in DOMAIN sent :
          /\ m > n /\ m \notin Members(stream)
          /\ sent[m].edge = sent[n].edge /\ sent[m].conn = sent[n].conn
          /\ sent[m].kind = "DESIRED_STATE"

Attended(w) == worker[w].pc \in {"top", "push"} \/ worker[w].wake \/ signal = w

Held(n) ==
    \E w \in Workers : \/ worker[w].hand = n
                       \/ n \in Members(worker[w].queue) /\ Attended(w) /\ ~At(w, "done")

NoneDropped ==
    \A n \in DOMAIN sent :
        up /\ sent[n].conn = conn /\ n \notin Members(stream)
            => n \in Members(relayed[sent[n].edge]) \/ Held(n) \/ Superseded(n)

(***************************************************************************)
(* watchConsumer serves each edge at its own pace: what is sent to an edge  *)
(* that takes its directives gets through, whatever another edge's agent    *)
(* does, unless it is superseded or the connection drops.                   *)
(***************************************************************************)
Through(n) ==
    \/ n \in Members(relayed[sent[n].edge])
    \/ Superseded(n)
    \/ ~up \/ sent[n].conn < conn

SlowEdgeIsolated ==
    \A n \in Indices :
        (n \in DOMAIN sent /\ sent[n].edge \notin Wedged) ~> (n \in DOMAIN sent /\ Through(n))

(***************************************************************************)
(* A reconnect leaves no goroutine behind ("Run a per-connection context so *)
(* the edge workers are reaped on a stream drop", watchclient.go:113): a    *)
(* worker of a dropped connection relays what it still has and ends, unless *)
(* its push is the one that blocks.                                         *)
(***************************************************************************)
Orphaned(w) ==
    /\ ~At(w, "unborn") /\ worker[w].edge \notin Wedged
    /\ ~up \/ worker[w].conn < conn

OrphansEnd == \A w \in Workers : Orphaned(w) ~> At(w, "done")
=============================================================================
