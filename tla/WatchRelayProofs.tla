------------------------- MODULE WatchRelayProofs ---------------------------
(***************************************************************************)
(* The edge workers: the map of a connection is of workers that run, an      *)
(* edge's directives reach its agent in order, and none is dropped, for any  *)
(* edges and any number of directives and connections.                      *)
(***************************************************************************)
EXTENDS WatchRelay, FiniteSetTheorems, WellFoundedInduction, TLAPS

Increasing(q) == \A i, j \in DOMAIN q : i < j => q[i] < q[j]

(***************************************************************************)
(* The Watch stream: what the consumer has yet to receive is the end of what *)
(* the server sent, all of it on the current connection.                    *)
(***************************************************************************)
Got == Len(sent) - Len(stream)

StreamInv ==
    /\ conn \in 0 .. MaxConns /\ up \in BOOLEAN /\ (up => conn # 0)
    /\ sent \in Seq([edge : Edges, kind : Kinds, conn : 1 .. MaxConns])
    /\ Len(sent) <= MaxSent
    /\ \A n \in DOMAIN sent : sent[n].conn <= conn
    /\ stream \in Seq(Indices) /\ Len(stream) <= Len(sent)
    /\ \A i \in DOMAIN stream : stream[i] = Got + i /\ sent[stream[i]].conn = conn
    /\ ~up => stream = <<>>

(***************************************************************************)
(* The workers: what one has in hand and in its queue is of its edge and its *)
(* connection, received, and in order.                                      *)
(***************************************************************************)
WorkerType == [pc : WorkerPCs, conn : 0 .. MaxConns, edge : Edges,
               queue : Seq(Indices), wake : BOOLEAN, hand : Indices \cup {None}]

Pending(v) == Members(v.queue) \cup ({v.hand} \ {None})
Runs(v) == v.pc \notin {"unborn", "done"}

Sound(v) ==
    /\ v.pc = "unborn" => v = Unborn
    /\ v.pc = "push" <=> v.hand # None
    /\ v.conn <= conn
    /\ Increasing(v.queue)
    /\ v.hand # None => \A m \in Members(v.queue) : v.hand < m
    /\ \A n \in Pending(v) :
          n \in DOMAIN sent /\ n <= Got /\ sent[n].edge = v.edge /\ sent[n].conn = v.conn

WorkerInv ==
    /\ worker \in [Workers -> WorkerType]
    /\ signal \in Workers \cup {None}
    /\ signal # None => worker[signal].pc # "unborn"
    /\ \A w \in Workers : Sound(worker[w])

(***************************************************************************)
(* The map: while the stream is open, its entries are the workers of the     *)
(* connection that run, and of one edge and connection one at most runs.     *)
(***************************************************************************)
MapInv ==
    /\ workers \in [Edges -> Workers \cup {None}]
    /\ MapOK
    /\ \A w \in Workers :
          up /\ worker[w].conn = conn /\ Runs(worker[w]) => workers[worker[w].edge] = w
    /\ \A v, w \in Workers :
          Runs(worker[v]) /\ Runs(worker[w]) /\ worker[v].edge = worker[w].edge
              /\ worker[v].conn = worker[w].conn => v = w

\* What is relayed was received, and before all that a running worker of its connection has.
RelayedInv ==
    /\ relayed \in [Edges -> Seq(Indices)]
    /\ \A e \in Edges : \A n \in Members(relayed[e]) :
          /\ n \in DOMAIN sent /\ n <= Got /\ sent[n].edge = e
          /\ \A w \in Workers :
                Runs(worker[w]) /\ worker[w].edge = e /\ worker[w].conn = sent[n].conn
                   => \A m \in Pending(worker[w]) : n < m

IInv == StreamInv /\ WorkerInv /\ MapInv /\ RelayedInv /\ PerEdgeFIFO /\ NoneDropped

-----------------------------------------------------------------------------
(***************************************************************************)
(* The smallest of a set of numbers, and with it what an induction would     *)
(* give: a finite set of numbers has an enumeration in order.               *)
(***************************************************************************)
LEMMA Least == ASSUME NEW N \in SUBSET Nat, N # {} PROVE \E m \in N : \A n \in N : m <= n
<1> DEFINE R == StrictSubsetOrdering(Nat)
           T == {1 .. n : n \in N}
           S == FiniteSubsetsOf(Nat)
<1>1. IsWellFoundedOn(R, S)
  BY FS_StrictSubsetOrderingWellFounded
<1>2. T \subseteq S /\ T # {}
  <2>1. \A n \in N : IsFiniteSet(1 .. n) /\ 1 .. n \subseteq Nat
    BY FS_Interval
  <2> QED BY <2>1 DEF FiniteSubsetsOf
<1>3. PICK x \in T : \A y \in T : ~(<<y, x>> \in R)
  <2> HIDE DEF R, T, S
  <2> QED BY <1>1, <1>2, WFMin, Zenon
<1>4. PICK m \in N : x = 1 .. m
  OBVIOUS
<1>5. ASSUME NEW n \in N, n < m PROVE FALSE
  <2>1. 1 .. n \subseteq 1 .. m /\ m \in 1 .. m /\ m \notin 1 .. n
    BY <1>5
  <2>2. <<1 .. n, 1 .. m>> \in R
    BY <2>1 DEF StrictSubsetOrdering
  <2> QED BY <2>2, <1>3, <1>4
<1> QED BY <1>5

\* h lists the numbers of K up to m.
Lists(K, m, n, h) ==
    /\ h \in [1 .. n -> K]
    /\ \A i, j \in 1 .. n : i < j => h[i] < h[j]
    /\ \A i \in 1 .. n : h[i] <= m
    /\ \A k \in K : k <= m => \E i \in 1 .. n : h[i] = k

LEMMA Listed ==
    ASSUME NEW K \in SUBSET (Nat \ {0}), NEW m \in Nat
    PROVE  \E n \in Nat : \E h : Lists(K, m, n, h)
<1> DEFINE Has(i) == \E n \in Nat : \E h : Lists(K, i, n, h)
           N == {i \in Nat : ~Has(i)}
<1>1. SUFFICES ASSUME N # {} PROVE FALSE
  OBVIOUS
<1>2. PICK a \in N : \A i \in N : a <= i
  <2> HIDE DEF Has
  <2> QED BY <1>1, Least
<1>3. Has(0)
  <2>1. Lists(K, 0, 0, [i \in 1 .. 0 |-> 0])
    BY DEF Lists
  <2> QED BY <2>1
<1>4. a - 1 \in Nat /\ Has(a - 1) /\ a \in Nat
  <2> HIDE DEF Has
  <2>1. a # 0 /\ a \in Nat
    BY <1>2, <1>3
  <2>2. a - 1 \in Nat /\ ~(a <= a - 1)
    BY <2>1
  <2> QED BY <1>2, <2>1, <2>2
<1>5. PICK n \in Nat : \E h : Lists(K, a - 1, n, h)
  BY <1>4
<1>6. PICK h : Lists(K, a - 1, n, h)
  BY <1>5
<1>7. \A k \in K : k \in Nat /\ (k <= a <=> k <= a - 1 \/ k = a)
  BY <1>4
<1>8. CASE a \notin K
  <2>1. \A i \in 1 .. n : h[i] <= a
    <3> TAKE i \in 1 .. n
    <3>1. h[i] \in K /\ h[i] <= a - 1
      BY <1>6 DEF Lists
    <3> QED BY <3>1, <1>7
  <2>2. \A k \in K : k <= a => \E i \in 1 .. n : h[i] = k
    BY <1>6, <1>7, <1>8 DEF Lists
  <2>3. Lists(K, a, n, h)
    BY <1>6, <2>1, <2>2 DEF Lists
  <2> QED BY <1>2, <2>3
<1>9. CASE a \in K
  <2> DEFINE g == [i \in 1 .. n + 1 |-> IF i = n + 1 THEN a ELSE h[i]]
  <2>1. /\ n + 1 \in Nat /\ n + 1 \in 1 .. n + 1
        /\ \A i \in 1 .. n + 1 : i \in Nat /\ (i = n + 1 \/ i \in 1 .. n)
        /\ \A i \in 1 .. n : i \in 1 .. n + 1 /\ i < n + 1 /\ i # n + 1
    OBVIOUS
  <2>2. /\ \A i \in 1 .. n : g[i] = h[i] /\ h[i] \in K /\ h[i] < a
        /\ g[n + 1] = a
    <3>1. \A i \in 1 .. n : h[i] \in K /\ h[i] <= a - 1
      BY <1>6 DEF Lists
    <3>2. \A i \in 1 .. n : h[i] < a
      <4> TAKE i \in 1 .. n
      <4>1. h[i] \in Nat /\ h[i] <= a - 1
        BY <3>1, <1>7
      <4> QED BY <4>1, <1>4
    <3> QED BY <3>1, <3>2, <2>1
  <2>3. g \in [1 .. n + 1 -> K]
    BY <1>9, <2>1, <2>2
  <2> HIDE DEF g
  <2>4. \A i, j \in 1 .. n + 1 : i < j => g[i] < g[j]
    BY <1>6, <2>1, <2>2 DEF Lists
  <2>5. \A i \in 1 .. n + 1 : g[i] <= a
    <3> TAKE i \in 1 .. n + 1
    <3>1. CASE i = n + 1
      BY <3>1, <2>2, <1>4
    <3>2. CASE i \in 1 .. n
      <4>1. g[i] \in Nat /\ g[i] < a
        BY <3>2, <2>2, <1>7
      <4> QED BY <4>1, <1>4
    <3> QED BY <3>1, <3>2, <2>1
  <2>6. \A k \in K : k <= a => \E i \in 1 .. n + 1 : g[i] = k
    BY <1>6, <1>7, <2>1, <2>2 DEF Lists
  <2>7. Lists(K, a, n + 1, g)
    BY <2>3, <2>4, <2>5, <2>6 DEF Lists
  <2> QED BY <1>2, <2>1, <2>7
<1> QED BY <1>8, <1>9

LEMMA OrderOf ==
    ASSUME NEW n \in Nat, NEW K \in SUBSET (1 .. n)
    PROVE  /\ Cardinality(K) \in Nat
           /\ InOrder(K) \in [1 .. Cardinality(K) -> K]
           /\ \A i, j \in 1 .. Cardinality(K) : i < j => InOrder(K)[i] < InOrder(K)[j]
           /\ \A k \in K : \E i \in 1 .. Cardinality(K) : InOrder(K)[i] = k
<1>1. PICK c \in Nat : \E h : Lists(K, n, c, h)
  <2>1. K \in SUBSET (Nat \ {0})
    OBVIOUS
  <2> QED BY <2>1, Listed
<1>2. PICK h : Lists(K, n, c, h)
  BY <1>1
<1>3. \A k \in K : k \in Nat /\ k <= n
  OBVIOUS
<1>4. IsFiniteSet(1 .. c) /\ Cardinality(1 .. c) = c
  BY FS_Interval
<1>5. ASSUME NEW g \in [1 .. c -> K], \A i, j \in 1 .. c : i < j => g[i] < g[j]
      PROVE  g \in Injection(1 .. c, K)
  <2>1. \A i, j \in 1 .. c : i # j => g[i] # g[j]
    <3> TAKE i, j \in 1 .. c
    <3>1. i \in Nat /\ j \in Nat
      OBVIOUS
    <3>2. g[i] \in K /\ g[j] \in K
      BY <1>5
    <3>3. g[i] \in Nat /\ g[j] \in Nat
      BY <1>3, <3>2
    <3> QED BY <1>5, <3>1, <3>3
  <2> QED BY <2>1 DEF Injection, IsInjective
<1>6. h \in Injection(1 .. c, K) /\ h \in Surjection(1 .. c, K)
  <2>1. h \in Injection(1 .. c, K)
    BY <1>2, <1>5 DEF Lists
  <2>2. h \in Surjection(1 .. c, K)
    BY <1>2, <1>3 DEF Lists, Surjection
  <2> QED BY <2>1, <2>2
<1>7. IsFiniteSet(K) /\ Cardinality(K) = c
  BY <1>4, <1>6, FS_Surjection
<1> DEFINE g == InOrder(K)
<1>8. g \in [1 .. c -> K] /\ \A i, j \in 1 .. c : i < j => g[i] < g[j]
  <2>1. h \in [1 .. c -> K] /\ \A i, j \in 1 .. c : i < j => h[i] < h[j]
    BY <1>2 DEF Lists
  <2> QED BY <1>7, <2>1 DEF InOrder
<1> HIDE DEF g
<1>9. g \in Surjection(1 .. c, K)
  BY <1>4, <1>5, <1>7, <1>8, FS_Injection
<1> QED BY <1>7, <1>8, <1>9 DEF Surjection, g

-----------------------------------------------------------------------------
(***************************************************************************)
(* What the queue operations do.                                           *)
(***************************************************************************)
LEMMA QTail ==
    ASSUME NEW q \in Seq(Indices), Increasing(q), q # <<>>
    PROVE  /\ Tail(q) \in Seq(Indices) /\ Increasing(Tail(q))
           /\ Head(q) \in Members(q)
           /\ Members(q) = {Head(q)} \cup Members(Tail(q))
           /\ \A m \in Members(Tail(q)) : Head(q) < m
<1>1. PICK n \in Nat : n = Len(q)
  OBVIOUS
<1>2. /\ n # 0 /\ DOMAIN q = 1 .. n /\ 1 \in 1 .. n /\ Head(q) = q[1]
      /\ Tail(q) \in Seq(Indices) /\ DOMAIN Tail(q) = 1 .. n - 1
      /\ \A i \in 1 .. n - 1 : i + 1 \in 1 .. n /\ Tail(q)[i] = q[i + 1]
  BY <1>1
<1>3. \A i, j \in 1 .. n : i < j => q[i] < q[j]
  BY <1>2 DEF Increasing
<1>4. \A i \in 2 .. n : i - 1 \in 1 .. n - 1 /\ i \in 1 .. n /\ 1 < i /\ Tail(q)[i - 1] = q[i]
  <2> TAKE i \in 2 .. n
  <2>1. i - 1 \in 1 .. n - 1 /\ i \in 1 .. n /\ 1 < i /\ (i - 1) + 1 = i
    OBVIOUS
  <2> QED BY <1>2, <2>1
<1>5. \A i \in 1 .. n - 1 : i + 1 \in 2 .. n
  OBVIOUS
<1>6. Increasing(Tail(q))
  BY <1>2, <1>3 DEF Increasing
<1>7. Members(Tail(q)) = {q[i] : i \in 2 .. n}
  <2>1. Members(Tail(q)) = {Tail(q)[i] : i \in 1 .. n - 1}
    BY <1>2 DEF Members
  <2>2. \A i \in 1 .. n - 1 : i + 1 \in 2 .. n /\ Tail(q)[i] = q[i + 1]
    BY <1>2, <1>5
  <2>3. Members(Tail(q)) \subseteq {q[i] : i \in 2 .. n}
    BY <2>1, <2>2
  <2>4. ASSUME NEW i \in 2 .. n PROVE q[i] \in Members(Tail(q))
    <3>1. i - 1 \in 1 .. n - 1 /\ Tail(q)[i - 1] = q[i]
      BY <1>4
    <3> QED BY <2>1, <3>1
  <2> QED BY <2>3, <2>4
<1>8. Members(q) = {q[i] : i \in 1 .. n} /\ 1 .. n = {1} \cup 2 .. n
  BY <1>2 DEF Members
<1>9. Members(q) = {q[1]} \cup {q[i] : i \in 2 .. n}
  BY <1>8
<1> QED BY <1>2, <1>3, <1>4, <1>6, <1>7, <1>9

LEMMA QAppend ==
    ASSUME NEW q \in Seq(Indices), Increasing(q), NEW n \in Indices,
           \A m \in Members(q) : m < n
    PROVE  /\ Append(q, n) \in Seq(Indices) /\ Increasing(Append(q, n))
           /\ Members(Append(q, n)) = Members(q) \cup {n}
<1>1. PICK c \in Nat : c = Len(q)
  OBVIOUS
<1>2. /\ DOMAIN q = 1 .. c /\ Append(q, n) \in Seq(Indices)
      /\ DOMAIN Append(q, n) = 1 .. c + 1 /\ Append(q, n)[c + 1] = n
      /\ \A i \in 1 .. c : Append(q, n)[i] = q[i] /\ q[i] \in Members(q)
  BY <1>1 DEF Members
<1>3. /\ c + 1 \in 1 .. c + 1
      /\ \A i \in 1 .. c + 1 : i \in Nat /\ (i = c + 1 \/ i \in 1 .. c)
      /\ \A i \in 1 .. c : i \in 1 .. c + 1 /\ i < c + 1
  OBVIOUS
<1>4. ASSUME NEW i \in 1 .. c + 1, NEW j \in 1 .. c + 1, i < j
      PROVE  Append(q, n)[i] < Append(q, n)[j]
  <2>1. CASE j = c + 1
    BY <2>1, <1>2, <1>3, <1>4
  <2>2. CASE j \in 1 .. c
    <3>1. i \in 1 .. c
      BY <2>2, <1>4
    <3> QED BY <2>2, <3>1, <1>2, <1>4 DEF Increasing
  <2> QED BY <1>3, <2>1, <2>2
<1>5. Increasing(Append(q, n))
  BY <1>2, <1>4 DEF Increasing
<1>6. Members(Append(q, n)) = Members(q) \cup {n}
  BY <1>2, <1>3 DEF Members
<1> QED BY <1>2, <1>5, <1>6

LEMMA QKept ==
    ASSUME NEW q \in Seq(Indices), Increasing(q)
    PROVE  /\ Kept(q) \in Seq(Indices) /\ Increasing(Kept(q))
           /\ Members(Kept(q)) = {m \in Members(q) : ~IsDesired(m)}
<1>1. PICK n \in Nat : n = Len(q)
  OBVIOUS
<1> DEFINE K == {i \in DOMAIN q : ~IsDesired(q[i])}
           h == InOrder(K)
           r == [k \in 1 .. Cardinality(K) |-> q[h[k]]]
<1>2. DOMAIN q = 1 .. n /\ K \in SUBSET (1 .. n)
  BY <1>1
<1>3. Kept(q) = r
  BY DEF Kept
<1>4. PICK c \in Nat : c = Cardinality(K)
  BY <1>2, OrderOf
<1>5. /\ h \in [1 .. c -> K]
      /\ \A i, j \in 1 .. c : i < j => h[i] < h[j]
      /\ \A k \in K : \E i \in 1 .. c : h[i] = k
  <2> HIDE DEF K
  <2> QED BY <1>2, <1>4, OrderOf
<1>6. r \in Seq(Indices) /\ DOMAIN r = 1 .. c /\ \A k \in 1 .. c : r[k] = q[h[k]]
  <2>1. \A k \in 1 .. c : q[h[k]] \in Indices
    BY <1>5, <1>2
  <2>2. r = [k \in 1 .. c |-> q[h[k]]]
    BY <1>4
  <2> HIDE DEF r, h
  <2>3. r \in [1 .. c -> Indices]
    BY <2>1, <2>2
  <2>4. DOMAIN r = 1 .. c /\ \A k \in 1 .. c : r[k] = q[h[k]]
    BY <2>2
  <2> QED BY <2>3, <2>4
<1> HIDE DEF r, h
<1>7. \A k \in 1 .. c : h[k] \in 1 .. n /\ ~IsDesired(q[h[k]])
  BY <1>5, <1>2
<1>8. Increasing(r)
  <2>1. \A i, j \in 1 .. n : i < j => q[i] < q[j]
    BY <1>2 DEF Increasing
  <2>2. \A i, j \in 1 .. c : i < j => r[i] < r[j]
    BY <1>5, <1>6, <1>7, <2>1
  <2> QED BY <1>6, <2>2 DEF Increasing
<1>9. \A m : m \in Members(r) <=> m \in Members(q) /\ ~IsDesired(m)
  <2> TAKE m
  <2>1. ASSUME m \in Members(r) PROVE m \in Members(q) /\ ~IsDesired(m)
    <3>1. PICK k \in 1 .. c : m = r[k]
      BY <2>1, <1>6 DEF Members
    <3>2. m = q[h[k]] /\ h[k] \in DOMAIN q
      BY <3>1, <1>6, <1>7, <1>2
    <3> QED BY <3>1, <3>2, <1>7 DEF Members
  <2>2. ASSUME m \in Members(q), ~IsDesired(m) PROVE m \in Members(r)
    <3>1. PICK i \in K : m = q[i]
      BY <2>2 DEF Members
    <3>2. PICK k \in 1 .. c : h[k] = i
      BY <1>5, <3>1
    <3>3. r[k] = m /\ k \in DOMAIN r
      BY <1>6, <3>1, <3>2
    <3> QED BY <3>3 DEF Members
  <2> QED BY <2>1, <2>2
<1> QED BY <1>3, <1>6, <1>8, <1>9

\* enqueue, of a directive that is later than what waits.
LEMMA QEnqueue ==
    ASSUME NEW q \in Seq(Indices), Increasing(q), NEW n \in Indices,
           \A m \in Members(q) : m < n
    PROVE  /\ Enqueue(q, n) \in Seq(Indices) /\ Increasing(Enqueue(q, n))
           /\ n \in Members(Enqueue(q, n))
           /\ Members(Enqueue(q, n)) \subseteq Members(q) \cup {n}
           /\ \A m \in Members(q) :
                 \/ m \in Members(Enqueue(q, n))
                 \/ IsDesired(m) /\ sent[n].kind = "DESIRED_STATE"
<1>1. CASE sent[n].kind = "DESIRED_STATE"
  <2>1. Enqueue(q, n) = Append(Kept(q), n)
    BY <1>1 DEF Enqueue
  <2>2. PICK r \in Seq(Indices) : r = Kept(q)
    BY QKept
  <2>3. Increasing(r) /\ Members(r) = {m \in Members(q) : ~IsDesired(m)}
    BY <2>2, QKept
  <2>4. \A m \in Members(r) : m < n
    BY <2>3
  <2>5. /\ Append(r, n) \in Seq(Indices) /\ Increasing(Append(r, n))
        /\ Members(Append(r, n)) = Members(r) \cup {n}
    BY <2>3, <2>4, QAppend
  <2> QED BY <1>1, <2>1, <2>2, <2>3, <2>5
<1>2. CASE sent[n].kind # "DESIRED_STATE"
  <2>1. Enqueue(q, n) = Append(q, n)
    BY <1>2 DEF Enqueue
  <2> QED BY <2>1, QAppend
<1> QED BY <1>1, <1>2

-----------------------------------------------------------------------------
(***************************************************************************)
(* The stream, as a sequence of consecutive numbers.                       *)
(***************************************************************************)
LEMMA Consecutive ==
    ASSUME NEW s \in Seq(Indices), NEW c \in Nat, Len(s) <= c,
           \A i \in DOMAIN s : s[i] = (c - Len(s)) + i
    PROVE  /\ c - Len(s) \in Nat
           /\ \A n \in 1 .. c : n \in Members(s) <=> ~(n <= c - Len(s))
<1>1. PICK k \in Nat : k = Len(s)
  OBVIOUS
<1>2. DOMAIN s = 1 .. k /\ c - k \in Nat
  BY <1>1
<1>3. \A i \in 1 .. k : s[i] = (c - k) + i
  BY <1>1, <1>2
<1>4. ASSUME NEW n \in 1 .. c, n \in Members(s) PROVE ~(n <= c - k)
  <2>1. PICK i \in 1 .. k : n = s[i]
    BY <1>2, <1>4 DEF Members
  <2>2. n = (c - k) + i
    BY <2>1, <1>3
  <2> QED BY <2>2
<1>5. ASSUME NEW n \in 1 .. c, ~(n <= c - k) PROVE n \in Members(s)
  <2>1. n - (c - k) \in 1 .. k /\ (c - k) + (n - (c - k)) = n
    BY <1>5, <1>1
  <2>2. s[n - (c - k)] = n
    BY <2>1, <1>3
  <2> QED BY <2>1, <2>2, <1>2 DEF Members
<1> QED BY <1>1, <1>2, <1>4, <1>5

LEMMA GotNat ==
    ASSUME StreamInv
    PROVE  /\ Got \in Nat /\ Len(sent) \in Nat /\ DOMAIN sent = 1 .. Len(sent)
           /\ \A n \in DOMAIN sent : n \in Members(stream) <=> ~(n <= Got)
<1>1. /\ Len(sent) \in Nat /\ DOMAIN sent = 1 .. Len(sent)
      /\ stream \in Seq(Indices) /\ Len(stream) <= Len(sent)
  BY DEF StreamInv
<1>2. \A i \in DOMAIN stream : stream[i] = (Len(sent) - Len(stream)) + i
  BY DEF StreamInv, Got
<1> QED BY <1>1, <1>2, Consecutive DEF Got

LEMMA UnbornType == Unborn \in WorkerType /\ Members(Unborn.queue) = {} /\ Unborn.hand = None
<1>1. (CHOOSE e \in Edges : TRUE) \in Edges
  BY RelayAssumption
<1>2. 0 \in 0 .. MaxConns /\ <<>> \in Seq(Indices)
  BY RelayAssumption
<1>3. Members(<<>>) = {}
  BY DEF Members
<1> QED BY <1>1, <1>2, <1>3 DEF Unborn, WorkerType, WorkerPCs

LEMMA InitOK == ASSUME Init PROVE IInv
<1>1. \A w \in Workers : worker[w] = Unborn
  BY DEF Init
<1>2. <<>> \in Seq(Indices) /\ Members(<<>>) = {}
  BY DEF Members
<1>3. StreamInv
  <2>1. 0 \in 0 .. MaxConns /\ MaxSent \in Nat
    BY RelayAssumption
  <2>2. conn = 0 /\ up = FALSE /\ sent = <<>> /\ stream = <<>>
    BY DEF Init
  <2>3. /\ sent \in Seq([edge : Edges, kind : Kinds, conn : 1 .. MaxConns])
        /\ Len(sent) = 0 /\ DOMAIN sent = {}
    BY <2>2
  <2>4. stream \in Seq(Indices) /\ Len(stream) = 0 /\ DOMAIN stream = {}
    BY <2>2
  <2>5. 0 <= MaxSent /\ 0 <= 0
    BY <2>1
  <2>6. conn \in 0 .. MaxConns /\ up \in BOOLEAN /\ (up => conn # 0) /\ (~up => stream = <<>>)
    BY <2>1, <2>2
  <2>7. Len(sent) <= MaxSent /\ Len(stream) <= Len(sent)
    BY <2>3, <2>4, <2>5
  <2> QED BY <2>3, <2>4, <2>6, <2>7 DEF StreamInv
<1>4. \A w \in Workers : Sound(worker[w])
  <2>1. /\ Unborn.pc = "unborn" /\ Unborn.hand = None /\ Unborn.conn <= conn
        /\ Unborn.queue = <<>>
    BY DEF Init, Unborn
  <2> QED BY <2>1, <1>1, <1>2 DEF Sound, Increasing, Pending
<1>5. WorkerInv
  BY <1>1, <1>4, UnbornType DEF Init, WorkerInv
<1>6. \A w \in Workers : ~Runs(worker[w])
  <2>1. Unborn.pc = "unborn"
    BY DEF Unborn
  <2> QED BY <2>1, <1>1 DEF Runs
<1>7. MapInv
  BY <1>6 DEF Init, MapInv, MapOK
<1>8. RelayedInv /\ PerEdgeFIFO
  BY <1>2 DEF Init, RelayedInv, PerEdgeFIFO
<1>9. NoneDropped
  BY DEF Init, NoneDropped
<1> QED BY <1>3, <1>5, <1>7, <1>8, <1>9 DEF IInv

-----------------------------------------------------------------------------
(***************************************************************************)
(* A step of worker w that leaves it as r, still of its edge and connection *)
(* and with no more to relay than before.                                   *)
(***************************************************************************)
Moves(w, r) ==
    /\ r \in WorkerType
    /\ worker' = [worker EXCEPT ![w] = r]
    /\ UNCHANGED Unshared
    /\ r.edge = worker[w].edge /\ r.conn = worker[w].conn
    /\ r.pc # "unborn" /\ (r.pc = "push" <=> r.hand # None)
    /\ Increasing(r.queue)
    /\ r.hand # None => \A m \in Members(r.queue) : r.hand < m
    /\ Pending(r) \subseteq Pending(worker[w])

LEMMA Others ==
    ASSUME WorkerInv, NEW w \in Workers, NEW r, Moves(w, r)
    PROVE  /\ worker'[w] = r /\ \A v \in Workers : v # w => worker'[v] = worker[v]
           /\ worker' \in [Workers -> WorkerType]
BY DEF WorkerInv, Moves

LEMMA StreamStays == ASSUME StreamInv, UNCHANGED Unshared PROVE StreamInv' /\ Got' = Got
BY DEF StreamInv, Got, Unshared

LEMMA WorkersMove ==
    ASSUME WorkerInv, NEW w \in Workers, NEW r, Moves(w, r)
    PROVE  WorkerInv'
<1>1. /\ conn' = conn /\ sent' = sent /\ Got' = Got /\ signal' = signal
  BY DEF Moves, Unshared, Got
<1>2. Sound(r)'
  <2>1. Sound(worker[w])
    BY DEF WorkerInv
  <2>2. r.conn <= conn
    BY <2>1 DEF Moves, Sound
  <2>3. \A n \in Pending(r) : n \in DOMAIN sent /\ n <= Got /\ sent[n].edge = r.edge
                                /\ sent[n].conn = r.conn
    BY <2>1 DEF Moves, Sound
  <2> QED BY <1>1, <2>2, <2>3 DEF Moves, Sound
<1>3. ASSUME NEW v \in Workers, NEW u, u = worker'[v] PROVE Sound(u)'
  <2>1. CASE v = w
    BY <2>1, <1>2, <1>3, Others
  <2>2. CASE v # w
    <3>1. u = worker[v]
      BY <2>2, <1>3, Others
    <3>2. Sound(u)
      BY <3>1 DEF WorkerInv
    <3> QED BY <1>1, <3>2 DEF Sound
  <2> QED BY <2>1, <2>2
<1>4. \A v \in Workers : Sound(worker[v])'
  BY <1>3 DEF Sound
<1>5. signal # None => worker'[signal].pc # "unborn"
  <2>1. signal # None => signal \in Workers /\ worker[signal].pc # "unborn"
    BY DEF WorkerInv
  <2> QED BY <2>1, Others DEF Moves
<1>6. signal \in Workers \cup {None}
  BY DEF WorkerInv
<1> QED BY <1>1, <1>4, <1>5, <1>6, Others DEF WorkerInv

LEMMA MapMoves ==
    ASSUME WorkerInv, MapInv, NEW w \in Workers, NEW r, Moves(w, r),
           UNCHANGED workers, Runs(r), Runs(worker[w])
    PROVE  MapInv'
<1>1. /\ conn' = conn /\ up' = up /\ workers' = workers
  BY DEF Moves, Unshared
<1>2. \A v \in Workers : /\ worker'[v].edge = worker[v].edge /\ worker'[v].conn = worker[v].conn
                         /\ Runs(worker'[v]) <=> Runs(worker[v])
  <2> TAKE v \in Workers
  <2>1. CASE v = w
    BY <2>1, Others DEF Moves
  <2>2. CASE v # w
    BY <2>2, Others
  <2> QED BY <2>1, <2>2
<1>3. workers' \in [Edges -> Workers \cup {None}]
  BY <1>1 DEF MapInv
<1>4. MapOK'
  <2>1. ASSUME NEW e \in Edges, up, workers[e] # None
        PROVE  LET v == workers[e] IN worker'[v].edge = e /\ worker'[v].conn = conn
                                        /\ worker'[v].pc \notin {"unborn", "done"}
    <3>1. workers[e] \in Workers
      BY <2>1 DEF MapInv
    <3>2. worker[workers[e]].edge = e /\ worker[workers[e]].conn = conn /\ Runs(worker[workers[e]])
      BY <2>1 DEF MapInv, MapOK, Runs
    <3> QED BY <3>1, <3>2, <1>2 DEF Runs
  <2> QED BY <2>1, <1>1 DEF MapOK
<1>5. \A v \in Workers : up /\ worker'[v].conn = conn /\ Runs(worker'[v])
                            => workers[worker'[v].edge] = v
  BY <1>2 DEF MapInv
<1>6. \A u, v \in Workers :
          Runs(worker'[u]) /\ Runs(worker'[v]) /\ worker'[u].edge = worker'[v].edge
              /\ worker'[u].conn = worker'[v].conn => u = v
  BY <1>2 DEF MapInv
<1> QED BY <1>1, <1>3, <1>4, <1>5, <1>6 DEF MapInv, Runs

LEMMA RelayedStays ==
    ASSUME WorkerInv, RelayedInv, PerEdgeFIFO, NEW w \in Workers, NEW r, Moves(w, r),
           UNCHANGED relayed, Runs(worker[w])
    PROVE  RelayedInv' /\ PerEdgeFIFO'
<1>1. sent' = sent /\ Got' = Got /\ relayed' = relayed
  BY DEF Moves, Unshared, Got
<1>2. PerEdgeFIFO'
  BY <1>1 DEF PerEdgeFIFO
<1>3. ASSUME NEW e \in Edges, NEW n \in Members(relayed[e]), NEW v \in Workers, NEW u,
             u = worker'[v], Runs(u), u.edge = e, u.conn = sent[n].conn, NEW m \in Pending(u)
      PROVE  n < m
  <2>1. /\ Runs(worker[v]) /\ worker[v].edge = e /\ worker[v].conn = sent[n].conn
        /\ m \in Pending(worker[v])
    <3>1. CASE v = w
      BY <3>1, <1>3, Others DEF Moves
    <3>2. CASE v # w
      BY <3>2, <1>3, Others
    <3> QED BY <3>1, <3>2
  <2> QED BY <2>1 DEF RelayedInv
<1>4. \A e \in Edges : \A n \in Members(relayed[e]) : \A v \in Workers :
        Runs(worker'[v]) /\ worker'[v].edge = e /\ worker'[v].conn = sent[n].conn
           => \A m \in Pending(worker'[v]) : n < m
  BY <1>3
<1>5. /\ relayed \in [Edges -> Seq(Indices)]
      /\ \A e \in Edges : \A n \in Members(relayed[e]) :
            n \in DOMAIN sent /\ n <= Got /\ sent[n].edge = e
  BY DEF RelayedInv
<1>6. RelayedInv'
  BY <1>1, <1>4, <1>5 DEF RelayedInv, Runs, Pending, Members
<1> QED BY <1>2, <1>6

\* Worker w answers for directive n.
HoldsIt(w, n) ==
    \/ worker[w].hand = n
    \/ n \in Members(worker[w].queue) /\ Attended(w) /\ ~At(w, "done")

LEMMA HeldOn ==
    ASSUME WorkerInv, NoneDropped, NEW w \in Workers, NEW r, Moves(w, r),
           \A e \in Edges : Members(relayed[e]) \subseteq Members(relayed'[e]),
           \A n \in DOMAIN sent : sent[n].edge \in Edges,
           \A n \in DOMAIN sent : up /\ sent[n].conn = conn /\ HoldsIt(w, n) =>
              \/ r.hand = n
              \/ n \in Members(r.queue) /\ r.pc \in {"top", "push"}
              \/ n \in Members(relayed'[sent[n].edge])
    PROVE  NoneDropped'
<1>1. /\ sent' = sent /\ up' = up /\ conn' = conn /\ stream' = stream /\ signal' = signal
  BY DEF Moves, Unshared
<1>2. ASSUME NEW n \in DOMAIN sent, Superseded(n) PROVE Superseded(n)'
  BY <1>1, <1>2 DEF Superseded, IsDesired
<1>3. ASSUME NEW n \in DOMAIN sent, up, sent[n].conn = conn, Held(n)
      PROVE  Held(n)' \/ n \in Members(relayed'[sent[n].edge])
  <2>1. PICK v \in Workers : HoldsIt(v, n)
    BY <1>3 DEF Held, HoldsIt
  <2>2. CASE v = w
    <3>1. CASE n \in Members(relayed'[sent[n].edge])
      BY <3>1
    <3>2. CASE r.hand = n
      BY <3>2, Others DEF Held
    <3>3. CASE n \in Members(r.queue) /\ r.pc \in {"top", "push"}
      BY <3>3, Others DEF Held, Attended, At
    <3> QED BY <1>3, <2>1, <2>2, <3>1, <3>2, <3>3
  <2>3. CASE v # w
    <3>1. worker'[v] = worker[v]
      BY <2>3, Others
    <3> QED BY <1>1, <2>1, <3>1 DEF HoldsIt, Held, Attended, At
  <2> QED BY <2>2, <2>3
<1>4. ASSUME NEW n \in DOMAIN sent, up, sent[n].conn = conn, n \notin Members(stream)
      PROVE  n \in Members(relayed'[sent[n].edge]) \/ Held(n)' \/ Superseded(n)'
  <2>1. n \in Members(relayed[sent[n].edge]) \/ Held(n) \/ Superseded(n)
    BY <1>4 DEF NoneDropped
  <2> QED BY <2>1, <1>2, <1>3, <1>4
<1> QED BY <1>1, <1>4 DEF NoneDropped

-----------------------------------------------------------------------------
(***************************************************************************)
(* One lemma for each step of a worker.                                    *)
(***************************************************************************)
LEMMA EdgesOf == ASSUME StreamInv PROVE \A n \in DOMAIN sent : n # None /\ sent[n].edge \in Edges
<1>1. Len(sent) \in Nat /\ DOMAIN sent = 1 .. Len(sent)
  BY GotNat
<1>2. \A n \in DOMAIN sent : n # None
  BY <1>1 DEF None
<1> DEFINE Sent == [edge : Edges, kind : Kinds, conn : 1 .. MaxConns]
<1>3. \A n \in DOMAIN sent : sent[n] \in Sent
  <2>1. sent \in Seq(Sent)
    BY DEF StreamInv
  <2> HIDE DEF Sent
  <2> QED BY <2>1
<1> QED BY <1>2, <1>3

LEMMA WorkerOf ==
    ASSUME WorkerInv, NEW w \in Workers
    PROVE  /\ worker[w] \in WorkerType /\ Sound(worker[w])
           /\ worker[w].pc \in WorkerPCs /\ worker[w].queue \in Seq(Indices)
           /\ worker[w].wake \in BOOLEAN /\ worker[w].hand \in Indices \cup {None}
BY DEF WorkerInv, WorkerType

LEMMA DequeueOK == ASSUME IInv, NEW w \in Workers, Dequeue(w) PROVE IInv'
<1> USE DEF IInv
<1>1. PICK q \in Seq(Indices) : q = worker[w].queue
  BY WorkerOf
<1> DEFINE r == [worker[w] EXCEPT !.pc = "push", !.hand = Head(q), !.queue = Tail(q)]
<1>2. /\ worker[w] \in WorkerType /\ Sound(worker[w])
      /\ worker[w].pc = "top" /\ worker[w].hand = None /\ q # <<>> /\ Increasing(q)
      /\ UNCHANGED Unshared /\ workers' = workers /\ relayed' = relayed
  BY <1>1, WorkerOf DEF Dequeue, At, Sound
<1>3. /\ Tail(q) \in Seq(Indices) /\ Increasing(Tail(q)) /\ Head(q) \in Indices
      /\ Members(q) = {Head(q)} \cup Members(Tail(q)) /\ Head(q) # None
      /\ \A m \in Members(Tail(q)) : Head(q) < m
  <2>1. Head(q) \in Indices
    BY <1>2
  <2> QED BY <1>2, <2>1, QTail DEF Indices, None
<1>4. worker' = [worker EXCEPT ![w] = r]
  BY <1>1, <1>2 DEF Dequeue, WorkerInv
<1>5. /\ r \in WorkerType /\ r.pc = "push" /\ r.hand = Head(q) /\ r.queue = Tail(q)
      /\ r.edge = worker[w].edge /\ r.conn = worker[w].conn
  BY <1>2, <1>3 DEF WorkerType, WorkerPCs
<1> HIDE DEF r
<1>6. Moves(w, r)
  <2>1. Pending(r) \subseteq Pending(worker[w])
    BY <1>1, <1>2, <1>3, <1>5 DEF Pending
  <2> QED BY <1>2, <1>3, <1>4, <1>5, <2>1 DEF Moves
<1>7. Runs(worker[w]) /\ Runs(r)
  BY <1>2, <1>5 DEF Runs
<1>8. StreamInv' /\ WorkerInv' /\ MapInv'
  BY <1>2, <1>6, <1>7, StreamStays, WorkersMove, MapMoves
<1>9. RelayedInv' /\ PerEdgeFIFO'
  BY <1>2, <1>6, <1>7, RelayedStays
<1>10. NoneDropped'
  <2>1. \A n \in DOMAIN sent : HoldsIt(w, n) => r.hand = n \/ n \in Members(r.queue)
    BY <1>1, <1>2, <1>3, <1>5, EdgesOf DEF HoldsIt
  <2> QED BY <1>2, <1>5, <1>6, <2>1, EdgesOf, HeldOn
<1> QED BY <1>8, <1>9, <1>10

LEMMA QueueEmptyOK == ASSUME IInv, NEW w \in Workers, QueueEmpty(w) PROVE IInv'
<1> USE DEF IInv
<1> DEFINE r == [worker[w] EXCEPT !.pc = "select"]
<1>1. /\ worker[w] \in WorkerType /\ Sound(worker[w])
      /\ worker[w].pc = "top" /\ worker[w].hand = None /\ worker[w].queue = <<>>
      /\ UNCHANGED Unshared /\ workers' = workers /\ relayed' = relayed
  BY WorkerOf DEF QueueEmpty, At, Sound
<1>2. worker' = [worker EXCEPT ![w] = r]
  BY <1>1 DEF QueueEmpty, WorkerInv
<1>3. /\ r \in WorkerType /\ r.pc = "select" /\ r.hand = None /\ r.queue = <<>>
      /\ r.edge = worker[w].edge /\ r.conn = worker[w].conn
  BY <1>1 DEF WorkerType, WorkerPCs
<1> HIDE DEF r
<1>4. Moves(w, r)
  <2>1. Pending(r) \subseteq Pending(worker[w])
    BY <1>1, <1>3 DEF Pending
  <2> QED BY <1>1, <1>2, <1>3, <2>1 DEF Moves, Increasing, Members
<1>5. Runs(worker[w]) /\ Runs(r)
  BY <1>1, <1>3 DEF Runs
<1>6. StreamInv' /\ WorkerInv' /\ MapInv'
  BY <1>1, <1>4, <1>5, StreamStays, WorkersMove, MapMoves
<1>7. RelayedInv' /\ PerEdgeFIFO'
  BY <1>1, <1>4, <1>5, RelayedStays
<1>8. NoneDropped'
  <2>1. \A n \in DOMAIN sent : ~HoldsIt(w, n)
    BY <1>1, EdgesOf DEF HoldsIt, Members
  <2> QED BY <1>1, <1>4, <2>1, EdgesOf, HeldOn
<1> QED BY <1>6, <1>7, <1>8

LEMMA WokenOK == ASSUME IInv, NEW w \in Workers, Woken(w) PROVE IInv'
<1> USE DEF IInv
<1> DEFINE r == [worker[w] EXCEPT !.pc = "top", !.wake = FALSE]
<1>1. /\ worker[w] \in WorkerType /\ Sound(worker[w])
      /\ worker[w].pc = "select" /\ worker[w].hand = None
      /\ UNCHANGED Unshared /\ workers' = workers /\ relayed' = relayed
  BY WorkerOf DEF Woken, At, Sound
<1>2. worker' = [worker EXCEPT ![w] = r]
  BY <1>1 DEF Woken, WorkerInv
<1>3. /\ r \in WorkerType /\ r.pc = "top" /\ r.hand = None /\ r.queue = worker[w].queue
      /\ r.edge = worker[w].edge /\ r.conn = worker[w].conn
  BY <1>1 DEF WorkerType, WorkerPCs
<1> HIDE DEF r
<1>4. Moves(w, r)
  <2>1. Pending(r) \subseteq Pending(worker[w])
    BY <1>1, <1>3 DEF Pending
  <2> QED BY <1>1, <1>2, <1>3, <2>1 DEF Moves, Sound
<1>5. Runs(worker[w]) /\ Runs(r)
  BY <1>1, <1>3 DEF Runs
<1>6. StreamInv' /\ WorkerInv' /\ MapInv'
  BY <1>1, <1>4, <1>5, StreamStays, WorkersMove, MapMoves
<1>7. RelayedInv' /\ PerEdgeFIFO'
  BY <1>1, <1>4, <1>5, RelayedStays
<1>8. NoneDropped'
  <2>1. \A n \in DOMAIN sent : HoldsIt(w, n) => n \in Members(r.queue)
    BY <1>1, <1>3, EdgesOf DEF HoldsIt
  <2> QED BY <1>1, <1>3, <1>4, <2>1, EdgesOf, HeldOn
<1> QED BY <1>6, <1>7, <1>8

LEMMA MapEnds ==
    ASSUME WorkerInv, MapInv, NEW w \in Workers, NEW r, Moves(w, r), ~Runs(r),
           workers' \in [Edges -> Workers \cup {None}],
           \A e \in Edges : workers[e] # w => workers'[e] = workers[e],
           \A e \in Edges : up => workers'[e] # w,
           \A e \in Edges : workers'[e] \in {None, workers[e]}
    PROVE  MapInv'
<1>1. conn' = conn /\ up' = up
  BY DEF Moves, Unshared
<1>2. \A v \in Workers : Runs(worker'[v]) => v # w /\ worker'[v] = worker[v]
  BY Others
<1>3. MapOK'
  <2>1. ASSUME NEW e \in Edges, up, workers'[e] # None
        PROVE  LET v == workers'[e] IN worker'[v].edge = e /\ worker'[v].conn = conn
                                        /\ worker'[v].pc \notin {"unborn", "done"}
    <3>1. workers'[e] = workers[e] /\ workers[e] # None /\ workers[e] # w /\ workers[e] \in Workers
      BY <2>1 DEF MapInv
    <3>2. worker'[workers[e]] = worker[workers[e]]
      BY <3>1, Others
    <3> QED BY <2>1, <3>1, <3>2 DEF MapInv, MapOK
  <2> QED BY <2>1, <1>1 DEF MapOK
<1>4. ASSUME NEW v \in Workers, up, worker'[v].conn = conn, Runs(worker'[v])
      PROVE  workers'[worker'[v].edge] = v
  <2>1. v # w /\ worker'[v] = worker[v]
    BY <1>2, <1>4
  <2>2. worker[v].edge \in Edges
    BY DEF WorkerInv, WorkerType
  <2>3. workers[worker[v].edge] = v
    BY <1>4, <2>1 DEF MapInv
  <2> QED BY <2>1, <2>2, <2>3
<1>5. \A u, v \in Workers :
          Runs(worker'[u]) /\ Runs(worker'[v]) /\ worker'[u].edge = worker'[v].edge
              /\ worker'[u].conn = worker'[v].conn => u = v
  BY <1>2 DEF MapInv
<1> QED BY <1>1, <1>3, <1>4, <1>5 DEF MapInv, Runs

LEMMA CtxDoneOK == ASSUME IInv, NEW w \in Workers, CtxDone(w) PROVE IInv'
<1> USE DEF IInv
<1> DEFINE r == [worker[w] EXCEPT !.pc = "done"]
<1>1. /\ worker[w] \in WorkerType /\ Sound(worker[w])
      /\ worker[w].pc = "select" /\ worker[w].hand = None /\ Cancelled(w)
      /\ UNCHANGED Unshared /\ workers' = workers /\ relayed' = relayed
  BY WorkerOf DEF CtxDone, At, Sound
<1>2. worker' = [worker EXCEPT ![w] = r]
  BY <1>1 DEF CtxDone, WorkerInv
<1>3. /\ r \in WorkerType /\ r.pc = "done" /\ r.hand = None /\ r.queue = worker[w].queue
      /\ r.edge = worker[w].edge /\ r.conn = worker[w].conn
  BY <1>1 DEF WorkerType, WorkerPCs
<1> HIDE DEF r
<1>4. Moves(w, r)
  <2>1. Pending(r) \subseteq Pending(worker[w])
    BY <1>1, <1>3 DEF Pending
  <2> QED BY <1>1, <1>2, <1>3, <2>1 DEF Moves, Sound
<1>5. Runs(worker[w]) /\ ~Runs(r)
  BY <1>1, <1>3 DEF Runs
<1>6. up => worker[w].conn # conn
  <2>1. worker[w].conn \in 0 .. MaxConns /\ conn \in 0 .. MaxConns /\ MaxConns \in Nat
    BY <1>1, RelayAssumption DEF StreamInv, WorkerType
  <2>2. CASE worker[w].conn < conn
    BY <2>1, <2>2
  <2> QED BY <1>1, <2>2 DEF Cancelled
<1>7. MapInv'
  <2>1. \A e \in Edges : up => workers'[e] # w
    BY <1>1, <1>6 DEF MapInv, MapOK, None, Workers
  <2>2. workers' \in [Edges -> Workers \cup {None}]
    BY <1>1 DEF MapInv
  <2> QED BY <1>1, <1>4, <1>5, <2>1, <2>2, MapEnds
<1>8. StreamInv' /\ WorkerInv' /\ RelayedInv' /\ PerEdgeFIFO'
  BY <1>1, <1>4, <1>5, StreamStays, WorkersMove, RelayedStays
<1>9. NoneDropped'
  <2>1. \A n \in DOMAIN sent : up /\ sent[n].conn = conn => ~HoldsIt(w, n)
    <3> SUFFICES ASSUME NEW n \in DOMAIN sent, up, sent[n].conn = conn, HoldsIt(w, n)
                 PROVE  FALSE
      OBVIOUS
    <3>1. n \in Members(worker[w].queue)
      BY <1>1, EdgesOf DEF HoldsIt
    <3>2. sent[n].conn = worker[w].conn
      BY <1>1, <3>1 DEF Sound, Pending
    <3> QED BY <3>2, <1>6
  <2> QED BY <1>1, <1>4, <2>1, EdgesOf, HeldOn
<1> QED BY <1>7, <1>8, <1>9

LEMMA IdleReapOK == ASSUME IInv, NEW w \in Workers, IdleReap(w) PROVE IInv'
<1> USE DEF IInv
<1>1. /\ worker[w] \in WorkerType /\ Sound(worker[w])
      /\ worker[w].pc = "select" /\ worker[w].hand = None
      /\ UNCHANGED Unshared /\ relayed' = relayed
  BY WorkerOf DEF IdleReap, At, Sound
<1>2. ASSUME NEW pc \in {"top", "done"},
             worker' = [worker EXCEPT ![w].pc = pc]
      PROVE  \E r : /\ Moves(w, r)
                    /\ r.pc = pc /\ r.hand = None /\ r.queue = worker[w].queue
  <2> DEFINE r == [worker[w] EXCEPT !.pc = pc]
  <2>1. worker' = [worker EXCEPT ![w] = r]
    BY <1>1, <1>2 DEF WorkerInv
  <2>2. /\ r \in WorkerType /\ r.pc = pc /\ r.hand = None /\ r.queue = worker[w].queue
        /\ r.edge = worker[w].edge /\ r.conn = worker[w].conn
    BY <1>1 DEF WorkerType, WorkerPCs
  <2> HIDE DEF r
  <2>3. Pending(r) \subseteq Pending(worker[w])
    BY <1>1, <2>2 DEF Pending
  <2>4. Moves(w, r)
    BY <1>1, <2>1, <2>2, <2>3 DEF Moves, Sound
  <2> QED BY <2>2, <2>4
<1>3. CASE /\ worker[w].queue = <<>> /\ Unmap(w)
           /\ worker' = [worker EXCEPT ![w].pc = "done"]
  <2>1. PICK r : Moves(w, r) /\ r.pc = "done" /\ r.hand = None /\ r.queue = worker[w].queue
    BY <1>2, <1>3
  <2>2. Runs(worker[w]) /\ ~Runs(r)
    BY <1>1, <2>1 DEF Runs
  <2>3. MapInv'
    <3>1. /\ workers' \in [Edges -> Workers \cup {None}]
          /\ \A e \in Edges : workers[e] # w => workers'[e] = workers[e]
          /\ \A e \in Edges : workers'[e] # w
          /\ \A e \in Edges : workers'[e] \in {None, workers[e]}
      BY <1>3 DEF Unmap, MapInv, None, Workers
    <3> QED BY <2>1, <2>2, <3>1, MapEnds
  <2>4. StreamInv' /\ WorkerInv' /\ RelayedInv' /\ PerEdgeFIFO'
    BY <1>1, <2>1, <2>2, StreamStays, WorkersMove, RelayedStays
  <2>5. NoneDropped'
    <3>1. \A n \in DOMAIN sent : ~HoldsIt(w, n)
      BY <1>1, <1>3, EdgesOf DEF HoldsIt, Members
    <3> QED BY <1>1, <2>1, <3>1, EdgesOf, HeldOn
  <2> QED BY <2>3, <2>4, <2>5
<1>4. CASE worker' = [worker EXCEPT ![w].pc = "top"] /\ workers' = workers
  <2>1. PICK r : Moves(w, r) /\ r.pc = "top" /\ r.hand = None /\ r.queue = worker[w].queue
    BY <1>2, <1>4
  <2>2. Runs(worker[w]) /\ Runs(r)
    BY <1>1, <2>1 DEF Runs
  <2>3. StreamInv' /\ WorkerInv' /\ MapInv' /\ RelayedInv' /\ PerEdgeFIFO'
    BY <1>1, <1>4, <2>1, <2>2, StreamStays, WorkersMove, MapMoves, RelayedStays
  <2>4. NoneDropped'
    <3>1. \A n \in DOMAIN sent : HoldsIt(w, n) => n \in Members(r.queue)
      BY <1>1, <2>1, EdgesOf DEF HoldsIt
    <3> QED BY <1>1, <2>1, <3>1, EdgesOf, HeldOn
  <2> QED BY <2>3, <2>4
<1> QED BY <1>3, <1>4 DEF IdleReap

LEMMA Snoc ==
    ASSUME NEW q \in Seq(Indices), NEW n \in Indices
    PROVE  /\ Append(q, n) \in Seq(Indices)
           /\ Len(q) \in Nat /\ DOMAIN q = 1 .. Len(q)
           /\ DOMAIN Append(q, n) = 1 .. Len(q) + 1 /\ Append(q, n)[Len(q) + 1] = n
           /\ \A i \in DOMAIN q : Append(q, n)[i] = q[i]
           /\ Members(Append(q, n)) = Members(q) \cup {n}
<1>1. PICK c \in Nat : c = Len(q)
  OBVIOUS
<1>2. /\ DOMAIN q = 1 .. c /\ Append(q, n) \in Seq(Indices)
      /\ DOMAIN Append(q, n) = 1 .. c + 1 /\ Append(q, n)[c + 1] = n
      /\ \A i \in 1 .. c : Append(q, n)[i] = q[i]
  BY <1>1
<1>3. /\ c + 1 \in 1 .. c + 1
      /\ \A i \in 1 .. c + 1 : i = c + 1 \/ i \in 1 .. c
      /\ \A i \in 1 .. c : i \in 1 .. c + 1
  OBVIOUS
<1>4. Members(Append(q, n)) = Members(q) \cup {n}
  BY <1>2, <1>3 DEF Members
<1> QED BY <1>1, <1>2, <1>4

LEMMA RelayOK == ASSUME IInv, NEW w \in Workers, Relay(w) PROVE IInv'
<1> USE DEF IInv
<1>1. PICK n \in Indices \cup {None}, e \in Edges : n = worker[w].hand /\ e = worker[w].edge
  BY WorkerOf DEF WorkerType
<1> DEFINE r == [worker[w] EXCEPT !.pc = "top", !.hand = None]
<1>2. /\ worker[w] \in WorkerType /\ Sound(worker[w]) /\ worker[w].pc = "push"
      /\ UNCHANGED Unshared /\ workers' = workers
      /\ relayed' = [relayed EXCEPT ![e] = Append(@, n)]
  BY <1>1, WorkerOf DEF Relay, At
<1>3. n # None /\ n \in Indices /\ n \in Pending(worker[w])
  BY <1>1, <1>2 DEF Sound, Pending
<1>4. worker' = [worker EXCEPT ![w] = r]
  BY <1>2 DEF Relay, WorkerInv
<1>5. /\ r \in WorkerType /\ r.pc = "top" /\ r.hand = None /\ r.queue = worker[w].queue
      /\ r.edge = e /\ r.conn = worker[w].conn
  BY <1>1, <1>2 DEF WorkerType, WorkerPCs
<1> HIDE DEF r
<1>6. Moves(w, r)
  <2>1. Pending(r) \subseteq Pending(worker[w])
    BY <1>2, <1>5 DEF Pending
  <2> QED BY <1>1, <1>2, <1>4, <1>5, <2>1 DEF Moves, Sound
<1>7. Runs(worker[w]) /\ Runs(r)
  BY <1>2, <1>5 DEF Runs
<1>8. StreamInv' /\ WorkerInv' /\ MapInv'
  BY <1>2, <1>6, <1>7, StreamStays, WorkersMove, MapMoves
<1>9. PICK q \in Seq(Indices) : q = relayed[e]
  BY DEF RelayedInv
<1>10. /\ relayed' \in [Edges -> Seq(Indices)] /\ relayed'[e] = Append(q, n)
       /\ \A d \in Edges : d # e => relayed'[d] = relayed[d]
  BY <1>2, <1>3, <1>9, Snoc DEF RelayedInv
<1>11. Members(relayed'[e]) = Members(q) \cup {n}
  BY <1>3, <1>10, Snoc
<1>12. sent' = sent /\ Got' = Got
  BY <1>2 DEF Unshared, Got
<1>13. /\ n \in DOMAIN sent /\ n <= Got /\ sent[n].edge = e /\ sent[n].conn = worker[w].conn
  BY <1>1, <1>2, <1>3 DEF Sound
<1>14. \A m \in Members(q) : sent[m].conn = worker[w].conn => m < n
  BY <1>1, <1>3, <1>7, <1>9 DEF RelayedInv
<1>15. RelayedInv'
  <2>1. ASSUME NEW d \in Edges, NEW k \in Members(relayed'[d]), NEW v \in Workers, NEW u,
               u = worker'[v], Runs(u), u.edge = d, u.conn = sent[k].conn, NEW m \in Pending(u)
        PROVE  k < m
    <3>1. /\ Runs(worker[v]) /\ worker[v].edge = d /\ worker[v].conn = sent[k].conn
          /\ m \in Pending(worker[v]) /\ (v = w => u = r)
      <4>1. CASE v = w
        BY <4>1, <2>1, <1>6, <1>7, Others DEF Moves
      <4>2. CASE v # w
        BY <4>2, <2>1, <1>6, Others
      <4> QED BY <4>1, <4>2
    <3>2. CASE k \in Members(relayed[d])
      BY <3>1, <3>2 DEF RelayedInv
    <3>3. CASE d = e /\ k = n
      <4>1. v = w
        BY <3>1, <3>3, <1>1, <1>7, <1>13 DEF MapInv
      <4>2. m \in Members(worker[w].queue)
        BY <4>1, <3>1, <2>1, <1>5 DEF Pending
      <4> QED BY <4>2, <3>3, <1>1, <1>2, <1>3 DEF Sound
    <3> QED BY <2>1, <3>2, <3>3, <1>9, <1>10, <1>11
  <2>2. \A d \in Edges : \A k \in Members(relayed'[d]) : \A v \in Workers :
        Runs(worker'[v]) /\ worker'[v].edge = d /\ worker'[v].conn = sent[k].conn
           => \A m \in Pending(worker'[v]) : k < m
    BY <2>1
  <2>3. \A d \in Edges : \A k \in Members(relayed'[d]) :
            k \in DOMAIN sent /\ k <= Got /\ sent[k].edge = d
    <3>1. ASSUME NEW d \in Edges, NEW k \in Members(relayed'[d])
          PROVE  k \in Members(relayed[d]) \/ (d = e /\ k = n)
      <4>1. CASE d = e
        BY <4>1, <3>1, <1>9, <1>11
      <4>2. CASE d # e
        BY <4>2, <3>1, <1>10
      <4> QED BY <4>1, <4>2
    <3> QED BY <3>1, <1>13 DEF RelayedInv
  <2> QED BY <1>10, <1>12, <2>2, <2>3 DEF RelayedInv, Runs, Pending, Members
<1>16. PerEdgeFIFO'
  <2>1. ASSUME NEW d \in Edges, NEW i \in DOMAIN relayed'[d], NEW j \in DOMAIN relayed'[d],
               i < j, sent[relayed'[d][i]].conn = sent[relayed'[d][j]].conn
        PROVE  relayed'[d][i] < relayed'[d][j]
    <3>1. CASE d # e
      BY <3>1, <2>1, <1>10 DEF PerEdgeFIFO
    <3>2. CASE d = e
      <4>1. PICK c \in Nat : c = Len(q)
        OBVIOUS
      <4>2. i \in 1 .. c + 1 /\ j \in 1 .. c + 1
        BY <2>1, <3>2, <4>1, <1>3, <1>10, Snoc
      <4>3. i \in 1 .. c /\ i \in DOMAIN q /\ (j = c + 1 \/ j \in DOMAIN q)
        BY <2>1, <4>1, <4>2
      <4>4. relayed'[d][i] = q[i] /\ q[i] \in Members(q)
        BY <3>2, <4>3, <1>3, <1>10, Snoc DEF Members
      <4>5. CASE j = c + 1
        <5>1. relayed'[d][j] = n
          BY <3>2, <4>1, <4>5, <1>3, <1>10, Snoc
        <5> QED BY <5>1, <4>4, <2>1, <1>13, <1>14
      <4>6. CASE j \in DOMAIN q
        <5>1. relayed'[d][j] = q[j]
          BY <3>2, <4>6, <1>3, <1>10, Snoc
        <5> QED BY <5>1, <4>3, <4>4, <4>6, <2>1, <1>9 DEF PerEdgeFIFO
      <4> QED BY <4>3, <4>5, <4>6
    <3> QED BY <3>1, <3>2
  <2> QED BY <1>12, <2>1 DEF PerEdgeFIFO
<1>17. NoneDropped'
  <2>1. \A d \in Edges : Members(relayed[d]) \subseteq Members(relayed'[d])
    BY <1>9, <1>10, <1>11
  <2>2. \A m \in DOMAIN sent : HoldsIt(w, m) => \/ m \in Members(r.queue)
                                                \/ m \in Members(relayed'[sent[m].edge])
    BY <1>1, <1>5, <1>11, <1>13 DEF HoldsIt
  <2> QED BY <1>2, <1>5, <1>6, <2>1, <2>2, EdgesOf, HeldOn
<1> QED BY <1>8, <1>15, <1>16, <1>17

-----------------------------------------------------------------------------
(***************************************************************************)
(* The steps of the stream and of the consumer.                            *)
(***************************************************************************)
LEMMA LaterSound ==
    ASSUME NEW v \in WorkerType, Sound(v), conn \in Nat, conn' \in Nat, conn <= conn',
           Got \in Nat, Got' \in Nat, Got <= Got',
           \A n \in DOMAIN sent : n \in Nat /\ n \in DOMAIN sent' /\ sent'[n] = sent[n]
    PROVE  Sound(v)'
<1>1. v.conn \in Nat /\ v.conn <= conn
  BY DEF WorkerType, Sound
<1>2. v.conn <= conn'
  BY <1>1
<1>3. \A n \in Pending(v) : /\ n \in DOMAIN sent' /\ n <= Got'
                            /\ sent'[n].edge = v.edge /\ sent'[n].conn = v.conn
  <2> TAKE n \in Pending(v)
  <2>1. n \in DOMAIN sent /\ n <= Got /\ sent[n].edge = v.edge /\ sent[n].conn = v.conn
    BY DEF Sound
  <2> QED BY <2>1
<1> QED BY <1>2, <1>3 DEF Sound

LEMMA ConnNat == ASSUME StreamInv PROVE conn \in Nat /\ MaxConns \in Nat /\ MaxSent \in Nat
BY RelayAssumption DEF StreamInv

LEMMA ConnectOK == ASSUME IInv, Connect PROVE IInv'
<1> USE DEF IInv
<1>1. /\ ~up /\ conn < MaxConns /\ conn' = conn + 1 /\ up' = TRUE
      /\ workers' = [e \in Edges |-> None]
      /\ UNCHANGED <<sent, stream, signal, worker, relayed>>
  BY DEF Connect
<1>2. /\ conn \in Nat /\ conn' \in Nat /\ conn < conn' /\ Got' = Got /\ Got \in Nat
      /\ MaxConns \in Nat /\ conn' # 0 /\ conn' \in 0 .. MaxConns
      /\ Len(sent) \in Nat /\ DOMAIN sent = 1 .. Len(sent)
  BY <1>1, ConnNat, GotNat DEF Got
<1>3. \A n \in DOMAIN sent : sent[n].conn \in Nat /\ sent[n].conn < conn'
  <2> TAKE n \in DOMAIN sent
  <2> DEFINE Sent == [edge : Edges, kind : Kinds, conn : 1 .. MaxConns]
  <2>1. sent \in Seq(Sent) /\ sent[n].conn <= conn
    BY DEF StreamInv
  <2>2. sent[n] \in Sent
    <3> HIDE DEF Sent
    <3> QED BY <2>1
  <2>3. sent[n].conn \in Nat
    BY <2>2, <1>2
  <2> QED BY <1>2, <2>1, <2>3
<1>4. StreamInv'
  <2>1. \A n \in DOMAIN sent : sent[n].conn <= conn'
    BY <1>2, <1>3
  <2>2. stream = <<>> /\ DOMAIN stream = {}
    BY <1>1 DEF StreamInv
  <2> QED BY <1>1, <1>2, <2>1, <2>2 DEF StreamInv
<1>5. WorkerInv'
  <2>1. \A w \in Workers : worker[w] \in WorkerType /\ Sound(worker[w])
    BY WorkerOf
  <2>2. \A n \in DOMAIN sent : n \in Nat /\ n \in DOMAIN sent' /\ sent'[n] = sent[n]
    BY <1>1, <1>2
  <2>3. ASSUME NEW w \in Workers, NEW v, v = worker[w] PROVE Sound(v)'
    BY <1>2, <2>1, <2>2, <2>3, LaterSound
  <2>4. \A w \in Workers : Sound(worker[w])'
    BY <1>1, <2>3 DEF Sound
  <2> QED BY <1>1, <2>4 DEF WorkerInv
<1>6. MapInv'
  <2>1. \A w \in Workers : worker[w].conn # conn'
    <3> TAKE w \in Workers
    <3>1. worker[w].conn \in Nat /\ worker[w].conn <= conn
      BY <1>2, WorkerOf DEF WorkerType, Sound
    <3> QED BY <3>1, <1>2
  <2>2. MapOK'
    BY <1>1 DEF MapOK
  <2>3. workers' \in [Edges -> Workers \cup {None}]
    BY <1>1
  <2> QED BY <1>1, <2>1, <2>2, <2>3 DEF MapInv, Runs
<1>7. RelayedInv' /\ PerEdgeFIFO'
  BY <1>1, <1>2 DEF RelayedInv, PerEdgeFIFO, Runs, Pending, Members
<1>8. NoneDropped'
  BY <1>1, <1>2, <1>3 DEF NoneDropped
<1> QED BY <1>4, <1>5, <1>6, <1>7, <1>8

LEMMA DropOK == ASSUME IInv, Drop PROVE IInv'
<1> USE DEF IInv
<1>1. /\ up' = FALSE /\ stream' = <<>>
      /\ UNCHANGED <<conn, sent, workers, signal, worker, relayed>>
  BY DEF Drop
<1>2. /\ conn \in Nat /\ conn' = conn /\ Got \in Nat /\ Got' = Len(sent) /\ Got <= Got'
      /\ Len(sent) \in Nat /\ DOMAIN sent = 1 .. Len(sent)
  <2>1. stream \in Seq(Indices) /\ Len(stream) <= Len(sent) /\ Len(stream) \in Nat
    BY DEF StreamInv
  <2>2. Len(stream') = 0
    BY <1>1
  <2> QED BY <1>1, <2>1, <2>2, ConnNat, GotNat DEF Got
<1>3. StreamInv'
  <2>1. stream' \in Seq(Indices) /\ Len(stream') = 0 /\ DOMAIN stream' = {}
    BY <1>1
  <2>2. Len(stream') <= Len(sent)
    BY <1>2, <2>1
  <2>3. /\ conn \in 0 .. MaxConns /\ Len(sent) <= MaxSent
        /\ sent \in Seq([edge : Edges, kind : Kinds, conn : 1 .. MaxConns])
        /\ \A n \in DOMAIN sent : sent[n].conn <= conn
    BY DEF StreamInv
  <2> QED BY <1>1, <2>1, <2>2, <2>3 DEF StreamInv
<1>4. WorkerInv'
  <2>1. \A w \in Workers : worker[w] \in WorkerType /\ Sound(worker[w])
    BY WorkerOf
  <2>2. \A n \in DOMAIN sent : n \in Nat /\ n \in DOMAIN sent' /\ sent'[n] = sent[n]
    BY <1>1, <1>2
  <2>3. ASSUME NEW w \in Workers, NEW v, v = worker[w] PROVE Sound(v)'
    BY <1>2, <2>1, <2>2, <2>3, LaterSound
  <2>4. \A w \in Workers : Sound(worker[w])'
    BY <1>1, <2>3 DEF Sound
  <2> QED BY <1>1, <2>4 DEF WorkerInv
<1>5. MapInv'
  BY <1>1 DEF MapInv, MapOK, Runs
<1>6. RelayedInv'
  <2>1. \A e \in Edges : \A n \in Members(relayed[e]) : n \in DOMAIN sent /\ n <= Got'
    BY <1>2 DEF RelayedInv
  <2> QED BY <1>1, <2>1 DEF RelayedInv, Runs, Pending, Members
<1>7. PerEdgeFIFO' /\ NoneDropped'
  BY <1>1 DEF PerEdgeFIFO, NoneDropped
<1> QED BY <1>3, <1>4, <1>5, <1>6, <1>7

LEMMA WakeOK == ASSUME IInv, Wake PROVE IInv'
<1> USE DEF IInv
<1>1. PICK w \in Workers : w = signal
  BY DEF Wake, WorkerInv
<1>0. PICK r : r = [worker[w] EXCEPT !.wake = TRUE]
  OBVIOUS
<1>2. /\ signal' = None /\ UNCHANGED <<conn, up, sent, stream, workers, relayed>>
      /\ worker[w] \in WorkerType /\ Sound(worker[w]) /\ Got' = Got
  BY <1>1, WorkerOf DEF Wake, Got
<1>3. worker' = [worker EXCEPT ![w] = r]
  BY <1>0, <1>1 DEF Wake, WorkerInv
<1>4. /\ r \in WorkerType /\ r.wake /\ r.pc = worker[w].pc /\ r.hand = worker[w].hand
      /\ r.queue = worker[w].queue /\ r.edge = worker[w].edge /\ r.conn = worker[w].conn
  BY <1>0, <1>2 DEF WorkerType
<1>5. /\ worker' \in [Workers -> WorkerType] /\ worker'[w] = r
      /\ \A v \in Workers : v # w => worker'[v] = worker[v]
  BY <1>3, <1>4 DEF WorkerInv
<1>6. \A v \in Workers :
        /\ worker'[v].pc = worker[v].pc /\ worker'[v].hand = worker[v].hand
        /\ worker'[v].queue = worker[v].queue /\ worker'[v].edge = worker[v].edge
        /\ worker'[v].conn = worker[v].conn
  BY <1>4, <1>5
<1>7. worker[w].pc # "unborn" /\ r.pc # "unborn"
  BY <1>1, <1>4 DEF WorkerInv, Workers, None
<1>8. StreamInv'
  BY <1>2 DEF StreamInv, Got
<1>9. WorkerInv'
  <2>1. Sound(r)'
    <3>1. /\ r.pc = "push" <=> r.hand # None
          /\ r.conn <= conn' /\ Increasing(r.queue)
          /\ r.hand # None => \A m \in Members(r.queue) : r.hand < m
      BY <1>2, <1>4 DEF Sound
    <3>2. \A n \in Pending(r) : n \in DOMAIN sent /\ n <= Got /\ sent[n].edge = r.edge
                                  /\ sent[n].conn = r.conn
      BY <1>2, <1>4 DEF Sound, Pending
    <3> QED BY <1>2, <1>7, <3>1, <3>2 DEF Sound
  <2>2. ASSUME NEW v \in Workers, NEW u, u = worker'[v] PROVE Sound(u)'
    <3>1. CASE v = w
      BY <2>1, <2>2, <3>1, <1>5
    <3>2. CASE v # w
      <4>1. Sound(u)
        BY <2>2, <3>2, <1>5 DEF WorkerInv
      <4> QED BY <1>2, <4>1 DEF Sound
    <3> QED BY <3>1, <3>2
  <2>3. \A v \in Workers : Sound(worker[v])'
    BY <2>2 DEF Sound
  <2> QED BY <1>2, <1>5, <2>3 DEF WorkerInv
<1>10. MapInv'
  <2>1. MapOK'
    <3>1. \A e \in Edges : workers[e] # None => workers[e] \in Workers
      BY DEF MapInv
    <3> QED BY <1>2, <1>6, <3>1 DEF MapInv, MapOK
  <2> QED BY <1>2, <1>6, <2>1 DEF MapInv, Runs
<1>11. RelayedInv' /\ PerEdgeFIFO'
  <2>1. \A v \in Workers : Pending(worker'[v]) = Pending(worker[v])
    BY <1>6 DEF Pending
  <2>2. \A e \in Edges : \A n \in Members(relayed[e]) : \A v \in Workers :
          Runs(worker'[v]) /\ worker'[v].edge = e /\ worker'[v].conn = sent[n].conn
             => \A m \in Pending(worker'[v]) : n < m
    BY <1>6, <2>1 DEF RelayedInv, Runs
  <2> QED BY <1>2, <2>2 DEF RelayedInv, PerEdgeFIFO, Runs, Pending, Members
<1>12. NoneDropped'
  <2>1. ASSUME NEW n, Held(n) PROVE Held(n)'
    <3>1. PICK v \in Workers : HoldsIt(v, n)
      BY <2>1 DEF Held, HoldsIt
    <3>2. CASE v = w
      BY <3>1, <3>2, <1>4, <1>5 DEF HoldsIt, Held, Attended, At
    <3>3. CASE v # w
      BY <3>1, <3>3, <1>1, <1>5 DEF HoldsIt, Held, Attended, At
    <3> QED BY <3>2, <3>3
  <2>2. \A n : Superseded(n) => Superseded(n)'
    BY <1>2 DEF Superseded, IsDesired
  <2> QED BY <1>2, <2>1, <2>2 DEF NoneDropped
<1> QED BY <1>8, <1>9, <1>10, <1>11, <1>12

LEMMA ServerSendsOK ==
    ASSUME IInv, NEW e \in Edges, NEW k \in Kinds, ServerSends(e, k) PROVE IInv'
<1> USE DEF IInv
<1> DEFINE Sent == [edge : Edges, kind : Kinds, conn : 1 .. MaxConns]
<1>1. PICK L \in Nat, d \in Sent :
        /\ L = Len(sent) /\ L < MaxSent /\ DOMAIN sent = 1 .. L
        /\ d = [edge |-> e, kind |-> k, conn |-> conn]
  <2>1. conn \in 1 .. MaxConns
    BY ConnNat DEF ServerSends, StreamInv
  <2> QED BY <2>1, GotNat DEF ServerSends
<1>2. /\ up /\ sent' = Append(sent, d) /\ stream' = Append(stream, L + 1)
      /\ UNCHANGED <<conn, up, workers, signal, worker, relayed>>
  BY <1>1 DEF ServerSends
<1>3. L + 1 \in Indices
  BY <1>1, ConnNat DEF Indices
<1>4. /\ sent' \in Seq(Sent) /\ Len(sent') = L + 1 /\ DOMAIN sent' = 1 .. L + 1
      /\ \A n \in 1 .. L : sent'[n] = sent[n]
      /\ sent'[L + 1] = d
  <2>1. sent \in Seq(Sent)
    BY DEF StreamInv
  <2> HIDE DEF Sent
  <2> QED BY <1>1, <1>2, <2>1
<1> HIDE DEF Sent
<1>5. PICK c \in Nat : c = Len(stream) /\ DOMAIN stream = 1 .. c
  BY DEF StreamInv
<1>6. /\ stream' \in Seq(Indices) /\ Len(stream') = c + 1 /\ DOMAIN stream' = 1 .. c + 1
      /\ \A i \in 1 .. c : stream'[i] = stream[i]
      /\ stream'[c + 1] = L + 1
      /\ Members(stream') = Members(stream) \cup {L + 1}
  <2>1. stream \in Seq(Indices)
    BY DEF StreamInv
  <2> QED BY <1>2, <1>3, <1>5, <2>1, Snoc
<1>7. Got = L - c /\ Got' = Got /\ Got \in Nat /\ conn \in Nat
  BY <1>1, <1>4, <1>5, <1>6, GotNat, ConnNat DEF Got
<1>8. \A n \in DOMAIN sent : n \in Nat /\ n \in DOMAIN sent' /\ sent'[n] = sent[n]
  BY <1>1, <1>4
<1>9. StreamInv'
  <2>1. \A n \in 1 .. L + 1 : sent'[n].conn <= conn
    <3> TAKE n \in 1 .. L + 1
    <3>1. CASE n \in 1 .. L
      BY <3>1, <1>1, <1>4 DEF StreamInv
    <3>2. CASE n = L + 1
      BY <3>2, <1>1, <1>4, <1>7
    <3> QED BY <3>1, <3>2
  <2>2. \A i \in 1 .. c + 1 : stream'[i] = Got + i /\ sent'[stream'[i]].conn = conn
    <3> TAKE i \in 1 .. c + 1
    <3>1. CASE i \in 1 .. c
      <4>1. stream'[i] = Got + i /\ sent[Got + i].conn = conn
        BY <3>1, <1>5, <1>6 DEF StreamInv
      <4>2. Got + i \in 1 .. L
        BY <3>1, <1>7
      <4> QED BY <4>1, <4>2, <1>4
    <3>2. CASE i = c + 1
      BY <3>2, <1>1, <1>4, <1>6, <1>7
    <3> QED BY <3>1, <3>2
  <2>3. L + 1 <= MaxSent /\ c + 1 <= L + 1
    BY <1>1, <1>7, ConnNat
  <2>4. conn \in 0 .. MaxConns /\ conn # 0
    BY <1>2 DEF StreamInv
  <2> QED BY <1>2, <1>4, <1>6, <1>7, <2>1, <2>2, <2>3, <2>4 DEF StreamInv, Sent
<1>10. WorkerInv'
  <2>1. \A w \in Workers : worker[w] \in WorkerType /\ Sound(worker[w])
    BY WorkerOf
  <2>2. conn' = conn /\ conn <= conn /\ Got <= Got
    BY <1>2, <1>7
  <2>3. ASSUME NEW w \in Workers, NEW v, v = worker[w] PROVE Sound(v)'
    BY <1>7, <1>8, <2>1, <2>2, <2>3, LaterSound
  <2>4. \A w \in Workers : Sound(worker[w])'
    BY <1>2, <2>3 DEF Sound
  <2> QED BY <1>2, <2>4 DEF WorkerInv
<1>11. MapInv'
  BY <1>2 DEF MapInv, MapOK, Runs
<1>12. \A d0 \in Edges : \A n \in Members(relayed[d0]) : n \in DOMAIN sent
  BY DEF RelayedInv
<1>13. RelayedInv'
  <2>1. ASSUME NEW f \in Edges, NEW n \in Members(relayed[f])
        PROVE  n \in DOMAIN sent' /\ n <= Got /\ sent'[n] = sent[n] /\ sent[n].edge = f
    BY <1>8, <1>12 DEF RelayedInv
  <2>2. \A f \in Edges : \A n \in Members(relayed[f]) : \A v \in Workers :
          Runs(worker[v]) /\ worker[v].edge = f /\ worker[v].conn = sent'[n].conn
             => \A m \in Pending(worker[v]) : n < m
    BY <2>1 DEF RelayedInv
  <2>3. /\ relayed \in [Edges -> Seq(Indices)]
        /\ \A f \in Edges : \A n \in Members(relayed[f]) :
              n \in DOMAIN sent' /\ n <= Got /\ sent'[n].edge = f
    BY <2>1 DEF RelayedInv
  <2>4. relayed' = relayed /\ worker' = worker
    BY <1>2
  <2> QED BY <1>7, <2>2, <2>3, <2>4 DEF RelayedInv, Runs, Pending, Members
<1>14. PerEdgeFIFO'
  <2>1. \A f \in Edges : \A i \in DOMAIN relayed[f] : sent'[relayed[f][i]] = sent[relayed[f][i]]
    BY <1>8, <1>12 DEF Members
  <2>2. ASSUME NEW f \in Edges, NEW i \in DOMAIN relayed[f], NEW j \in DOMAIN relayed[f],
               i < j, sent'[relayed[f][i]].conn = sent'[relayed[f][j]].conn
        PROVE  relayed[f][i] < relayed[f][j]
    BY <2>1, <2>2 DEF PerEdgeFIFO
  <2>3. relayed' = relayed
    BY <1>2
  <2> QED BY <2>2, <2>3 DEF PerEdgeFIFO
<1>15. NoneDropped'
  <2>1. ASSUME NEW n \in DOMAIN sent, Superseded(n) PROVE Superseded(n)'
    <3>1. PICK m \in DOMAIN sent : /\ m > n /\ m \notin Members(stream)
                                   /\ sent[m].edge = sent[n].edge /\ sent[m].conn = sent[n].conn
                                   /\ sent[m].kind = "DESIRED_STATE"
      BY <2>1 DEF Superseded
    <3>2. m \notin Members(stream')
      <4>1. m # L + 1
        BY <1>1
      <4> QED BY <4>1, <3>1, <1>6
    <3> QED BY <3>1, <3>2, <2>1, <1>8 DEF Superseded, IsDesired
  <2>2. ASSUME NEW n \in DOMAIN sent, Held(n) PROVE Held(n)'
    BY <2>2, <1>2 DEF Held, Attended, At
  <2>3. ASSUME NEW n \in DOMAIN sent', n \notin Members(stream'), sent'[n].conn = conn
        PROVE  n \in Members(relayed[sent'[n].edge]) \/ Held(n)' \/ Superseded(n)'
    <3>1. n \in DOMAIN sent /\ n \notin Members(stream)
      BY <2>3, <1>1, <1>4, <1>6
    <3>2. sent'[n] = sent[n]
      BY <3>1, <1>8
    <3> QED BY <2>1, <2>2, <2>3, <3>1, <3>2, <1>2 DEF NoneDropped
  <2> QED BY <1>2, <2>3 DEF NoneDropped
<1> QED BY <1>9, <1>10, <1>11, <1>13, <1>14, <1>15

LEMMA ReceiveOK ==
    ASSUME StreamInv, stream # <<>>, stream' = Tail(stream), UNCHANGED <<conn, up, sent>>,
           NEW n, n = Head(stream)
    PROVE  /\ StreamInv'
           /\ n \in DOMAIN sent /\ n \in Indices /\ n = Got + 1 /\ sent[n].conn = conn
           /\ Got \in Nat /\ Got' = Got + 1
           /\ \A m \in DOMAIN sent : m \in Nat /\ (m \in Members(stream') <=> ~(m <= Got'))
<1>1. PICK L \in Nat, c \in Nat : /\ L = Len(sent) /\ c = Len(stream) /\ c <= L
                                  /\ DOMAIN sent = 1 .. L /\ DOMAIN stream = 1 .. c
  BY GotNat DEF StreamInv
<1>2. /\ c # 0 /\ 1 \in 1 .. c /\ n = stream[1] /\ stream' \in Seq(Indices)
      /\ Len(stream') = c - 1 /\ DOMAIN stream' = 1 .. c - 1 /\ c - 1 \in Nat
      /\ \A i \in 1 .. c - 1 : i + 1 \in 1 .. c /\ stream'[i] = stream[i + 1]
  <2>1. stream \in Seq(Indices)
    BY DEF StreamInv
  <2> QED BY <1>1, <2>1
<1>3. Got = L - c /\ Got \in Nat /\ Got' = Got + 1
  BY <1>1, <1>2 DEF Got
<1>4. \A i \in 1 .. c : stream[i] = Got + i /\ sent[stream[i]].conn = conn
  BY <1>1 DEF StreamInv
<1>5. n = Got + 1 /\ sent[n].conn = conn /\ n \in 1 .. L
  BY <1>1, <1>2, <1>3, <1>4
<1>6. n \in Indices
  <2>1. stream \in Seq(Indices)
    BY DEF StreamInv
  <2> QED BY <1>1, <1>2, <2>1
<1>7. \A i \in 1 .. c - 1 : stream'[i] = Got' + i /\ sent[stream'[i]].conn = conn
  <2> TAKE i \in 1 .. c - 1
  <2>1. i + 1 \in 1 .. c /\ stream'[i] = stream[i + 1]
    BY <1>2
  <2>2. stream[i + 1] = Got + (i + 1) /\ sent[stream[i + 1]].conn = conn
    BY <2>1, <1>4
  <2>3. Got + (i + 1) = Got' + i
    BY <1>3
  <2> QED BY <2>1, <2>2, <2>3
<1>8. StreamInv'
  <2>1. /\ conn \in 0 .. MaxConns /\ up \in BOOLEAN /\ (up => conn # 0)
        /\ sent \in Seq([edge : Edges, kind : Kinds, conn : 1 .. MaxConns])
        /\ L <= MaxSent /\ \A m \in DOMAIN sent : sent[m].conn <= conn
    BY <1>1 DEF StreamInv
  <2>2. up
    BY DEF StreamInv
  <2>3. c - 1 <= L
    BY <1>1
  <2> QED BY <1>1, <1>2, <1>7, <2>1, <2>2, <2>3 DEF StreamInv
<1>9. \A m \in 1 .. L : m \in Members(stream') <=> ~(m <= Got')
  <2>1. PICK s \in Seq(Indices) : s = stream'
    BY <1>2
  <2>2. Len(s) = c - 1 /\ c - 1 <= L /\ L - Len(s) = Got'
    BY <2>1, <1>1, <1>2, <1>3
  <2>3. \A i \in DOMAIN s : s[i] = (L - Len(s)) + i
    BY <2>1, <2>2, <1>2, <1>7
  <2> QED BY <2>1, <2>2, <2>3, Consecutive
<1> QED BY <1>1, <1>3, <1>5, <1>6, <1>8, <1>9

\* dispatch hands directive n to worker w, old or new, and leaves it as r.
Delivers(w, r, n) ==
    /\ up /\ stream # <<>> /\ signal = None /\ n = Head(stream)
    /\ stream' = Tail(stream) /\ signal' = w
    /\ UNCHANGED <<conn, up, sent, relayed>>
    /\ r \in WorkerType /\ worker' = [worker EXCEPT ![w] = r]
    /\ r.edge = sent[n].edge /\ r.conn = conn /\ r.hand = worker[w].hand
    /\ r.queue = Enqueue(worker[w].queue, n)
    /\ Runs(r) /\ (r.pc = "push" <=> r.hand # None)
    /\ \/ worker[w].edge = r.edge /\ worker[w].conn = r.conn /\ Runs(worker[w])
       \/ worker[w] = Unborn

LEMMA Delivered ==
    ASSUME IInv, NEW w \in Workers, NEW r, NEW n, Delivers(w, r, n)
    PROVE  /\ worker'[w] = r /\ \A v \in Workers : v # w => worker'[v] = worker[v]
           /\ worker' \in [Workers -> WorkerType]
           /\ Increasing(r.queue) /\ n \in Members(r.queue)
           /\ Pending(r) \subseteq Pending(worker[w]) \cup {n}
           /\ r.hand # None => \A m \in Members(r.queue) : r.hand < m
           /\ \A m \in Members(worker[w].queue) :
                 \/ m \in Members(r.queue)
                 \/ IsDesired(m) /\ sent[n].kind = "DESIRED_STATE"
           /\ \A m \in Pending(worker[w]) : /\ m \in DOMAIN sent /\ m <= Got /\ m < n
                                            /\ sent[m].edge = r.edge /\ sent[m].conn = r.conn
<1> USE DEF IInv
<1>1. /\ n \in DOMAIN sent /\ n \in Indices /\ n = Got + 1 /\ Got \in Nat
      /\ \A m \in DOMAIN sent : m \in Nat
  BY ReceiveOK DEF Delivers
<1>2. PICK q \in Seq(Indices) : q = worker[w].queue /\ Increasing(q) /\ Sound(worker[w])
  BY WorkerOf DEF Sound
<1>3. \A m \in Pending(worker[w]) : /\ m \in DOMAIN sent /\ m <= Got /\ m < n
                                    /\ sent[m].edge = r.edge /\ sent[m].conn = r.conn
  <2>1. CASE worker[w] = Unborn
    BY <2>1, UnbornType DEF Pending
  <2>2. CASE worker[w].edge = r.edge /\ worker[w].conn = r.conn
    <3> TAKE m \in Pending(worker[w])
    <3>1. /\ m \in DOMAIN sent /\ m <= Got
          /\ sent[m].edge = r.edge /\ sent[m].conn = r.conn
      BY <1>2, <2>2 DEF Sound
    <3>2. m \in Nat
      BY <1>1, <3>1
    <3> QED BY <1>1, <3>1, <3>2
  <2> QED BY <2>1, <2>2 DEF Delivers
<1>4. \A m \in Members(q) : m < n
  BY <1>2, <1>3 DEF Pending
<1>5. r.queue = Enqueue(q, n) /\ r.hand = worker[w].hand
  BY <1>2 DEF Delivers
<1>6. /\ Increasing(r.queue) /\ n \in Members(r.queue)
      /\ Members(r.queue) \subseteq Members(q) \cup {n}
      /\ \A m \in Members(q) : \/ m \in Members(r.queue)
                               \/ IsDesired(m) /\ sent[n].kind = "DESIRED_STATE"
  BY <1>1, <1>2, <1>4, <1>5, QEnqueue
<1>7. Pending(r) \subseteq Pending(worker[w]) \cup {n}
  BY <1>2, <1>5, <1>6 DEF Pending
<1>8. r.hand # None => \A m \in Members(r.queue) : r.hand < m
  <2>1. ASSUME r.hand # None, NEW m \in Members(r.queue) PROVE r.hand < m
    <3>1. CASE m \in Members(q)
      BY <2>1, <3>1, <1>2, <1>5 DEF Sound
    <3>2. CASE m = n
      BY <2>1, <3>2, <1>3, <1>5 DEF Pending
    <3> QED BY <2>1, <3>1, <3>2, <1>6
  <2> QED BY <2>1
<1>9. /\ worker'[w] = r /\ \A v \in Workers : v # w => worker'[v] = worker[v]
      /\ worker' \in [Workers -> WorkerType]
  BY DEF Delivers, WorkerInv
<1> QED BY <1>2, <1>3, <1>6, <1>7, <1>8, <1>9

LEMMA DeliveredWorkers ==
    ASSUME IInv, NEW w \in Workers, NEW r, NEW n, Delivers(w, r, n) PROVE WorkerInv'
<1> USE DEF IInv
<1>1. /\ n \in DOMAIN sent /\ n = Got + 1 /\ Got \in Nat /\ Got' = Got + 1
      /\ \A m \in DOMAIN sent : m \in Nat
      /\ conn' = conn /\ sent' = sent /\ conn \in Nat
  BY ReceiveOK, ConnNat DEF Delivers
<1>2. Sound(r)'
  <2>1. \A m \in Pending(r) : m \in DOMAIN sent /\ m <= Got' /\ sent[m].edge = r.edge
                                /\ sent[m].conn = r.conn
    <3> TAKE m \in Pending(r)
    <3>1. CASE m = n
      BY <3>1, <1>1, ReceiveOK DEF Delivers
    <3>2. CASE m \in Pending(worker[w])
      <4>1. m \in DOMAIN sent /\ m <= Got /\ sent[m].edge = r.edge /\ sent[m].conn = r.conn
        BY <3>2, Delivered
      <4> QED BY <4>1, <1>1
    <3> QED BY <3>1, <3>2, Delivered
  <2>2. r.pc # "unborn" /\ (r.pc = "push" <=> r.hand # None) /\ r.conn <= conn
    BY <1>1 DEF Delivers, Runs
  <2>3. Increasing(r.queue) /\ (r.hand # None => \A m \in Members(r.queue) : r.hand < m)
    BY Delivered
  <2> QED BY <1>1, <2>1, <2>2, <2>3 DEF Sound
<1>3. ASSUME NEW v \in Workers, NEW u, u = worker'[v] PROVE Sound(u)'
  <2>1. CASE v = w
    BY <2>1, <1>2, <1>3, Delivered
  <2>2. CASE v # w
    <3>1. u = worker[v]
      BY <2>2, <1>3, Delivered
    <3>2. Sound(u) /\ u \in WorkerType
      BY <3>1, WorkerOf
    <3>3. conn <= conn' /\ Got <= Got' /\ conn' \in Nat /\ Got' \in Nat
      BY <1>1
    <3>4. \A m \in DOMAIN sent : m \in Nat /\ m \in DOMAIN sent' /\ sent'[m] = sent[m]
      BY <1>1
    <3> QED BY <1>1, <3>2, <3>3, <3>4, LaterSound
  <2> QED BY <2>1, <2>2
<1>4. \A v \in Workers : Sound(worker[v])'
  BY <1>3 DEF Sound
<1>5. worker' \in [Workers -> WorkerType] /\ worker'[w] = r
  BY Delivered
<1>6. signal' = w /\ r.pc # "unborn"
  BY DEF Delivers, Runs
<1> QED BY <1>4, <1>5, <1>6 DEF WorkerInv

LEMMA DeliveredRelayed ==
    ASSUME IInv, NEW w \in Workers, NEW r, NEW n, Delivers(w, r, n)
    PROVE  RelayedInv' /\ PerEdgeFIFO'
<1> USE DEF IInv
<1>1. /\ n = Got + 1 /\ Got \in Nat /\ Got' = Got + 1
      /\ \A m \in DOMAIN sent : m \in Nat
      /\ sent' = sent /\ relayed' = relayed
  BY ReceiveOK DEF Delivers
<1>2. PerEdgeFIFO'
  BY <1>1 DEF PerEdgeFIFO
<1>3. /\ relayed \in [Edges -> Seq(Indices)]
      /\ \A e \in Edges : \A k \in Members(relayed[e]) :
            k \in DOMAIN sent /\ k <= Got /\ k <= Got' /\ k < n /\ sent[k].edge = e
  <2>1. \A e \in Edges : \A k \in Members(relayed[e]) :
            k \in DOMAIN sent /\ k <= Got /\ sent[k].edge = e
    BY DEF RelayedInv
  <2>2. \A k \in DOMAIN sent : k <= Got => k <= Got' /\ k < n
    BY <1>1
  <2> QED BY <2>1, <2>2 DEF RelayedInv
<1>4. ASSUME NEW e \in Edges, NEW k \in Members(relayed[e]), NEW v \in Workers, NEW u,
             u = worker'[v], Runs(u), u.edge = e, u.conn = sent[k].conn, NEW m \in Pending(u)
      PROVE  k < m
  <2>1. CASE v # w
    <3>1. u = worker[v]
      BY <2>1, <1>4, Delivered
    <3> QED BY <3>1, <1>4 DEF RelayedInv
  <2>2. CASE v = w
    <3>1. u = r
      BY <2>2, <1>4, Delivered
    <3>2. CASE m = n
      BY <3>2, <1>3
    <3>3. CASE m \in Pending(worker[w])
      <4>1. worker[w] # Unborn
        BY <3>3, UnbornType DEF Pending
      <4>2. worker[w].edge = e /\ worker[w].conn = sent[k].conn /\ Runs(worker[w])
        BY <4>1, <3>1, <1>4 DEF Delivers
      <4> QED BY <4>2, <3>3 DEF RelayedInv
    <3> QED BY <3>1, <3>2, <3>3, <1>4, Delivered
  <2> QED BY <2>1, <2>2
<1>5. \A e \in Edges : \A k \in Members(relayed[e]) : \A v \in Workers :
        Runs(worker'[v]) /\ worker'[v].edge = e /\ worker'[v].conn = sent[k].conn
           => \A m \in Pending(worker'[v]) : k < m
  BY <1>4
<1>6. RelayedInv'
  BY <1>1, <1>3, <1>5 DEF RelayedInv, Runs, Pending, Members
<1> QED BY <1>2, <1>6

LEMMA DeliveredHeld ==
    ASSUME IInv, NEW w \in Workers, NEW r, NEW n, Delivers(w, r, n) PROVE NoneDropped'
<1> USE DEF IInv
<1>1. /\ n \in DOMAIN sent /\ n = Got + 1 /\ Got \in Nat /\ Got' = Got + 1
      /\ \A m \in DOMAIN sent : m \in Nat /\ (m \in Members(stream') <=> ~(m <= Got'))
      /\ \A m \in DOMAIN sent : m \in Members(stream) <=> ~(m <= Got)
      /\ sent' = sent /\ relayed' = relayed /\ conn' = conn /\ up' = up
      /\ signal = None /\ signal' = w /\ w # None
  BY ReceiveOK, GotNat DEF Delivers, Workers, None
<1>2. n \notin Members(stream') /\ \A m \in Members(stream') \cap DOMAIN sent : m \in Members(stream)
  <2>1. \A m \in DOMAIN sent : ~(m <= Got') => ~(m <= Got)
    BY <1>1
  <2> QED BY <1>1, <2>1
<1>3. r.pc # "done" /\ worker'[w] = r
  BY Delivered DEF Delivers, Runs
<1>4. Held(n)'
  BY <1>1, <1>3, Delivered DEF Held, Attended, At
<1>5. ASSUME NEW m \in DOMAIN sent, Superseded(m) PROVE Superseded(m)'
  <2>1. PICK k \in DOMAIN sent : /\ k > m /\ k \notin Members(stream)
                                 /\ sent[k].edge = sent[m].edge /\ sent[k].conn = sent[m].conn
                                 /\ sent[k].kind = "DESIRED_STATE"
    BY <1>5 DEF Superseded
  <2>2. k \notin Members(stream')
    BY <2>1, <1>2
  <2> QED BY <2>1, <2>2, <1>1, <1>5 DEF Superseded, IsDesired
<1>6. ASSUME NEW m \in DOMAIN sent, Held(m) PROVE Held(m)' \/ Superseded(m)'
  <2>1. PICK v \in Workers : HoldsIt(v, m)
    BY <1>6 DEF Held, HoldsIt
  <2>2. CASE v # w
    <3>1. worker'[v] = worker[v]
      BY <2>2, Delivered
    <3> QED BY <2>1, <3>1, <1>1 DEF HoldsIt, Held, Attended, At, Workers, None
  <2>3. CASE v = w /\ worker[w].hand = m
    BY <2>3, <1>3 DEF Delivers, Held
  <2>4. CASE v = w /\ m \in Members(worker[w].queue)
    <3>1. CASE m \in Members(r.queue)
      BY <3>1, <1>1, <1>3 DEF Held, Attended, At
    <3>2. CASE IsDesired(m) /\ sent[n].kind = "DESIRED_STATE"
      <4>1. m \in Pending(worker[w])
        BY <2>4 DEF Pending
      <4>2. m < n /\ sent[m].edge = r.edge /\ sent[m].conn = r.conn
        BY <4>1, Delivered
      <4>3. r.edge = sent[n].edge /\ r.conn = sent[n].conn
        BY ReceiveOK DEF Delivers
      <4>4. n > m
        BY <4>2, <1>1
      <4> QED BY <3>2, <4>2, <4>3, <4>4, <1>1, <1>2 DEF Superseded, IsDesired
    <3> QED BY <2>4, <3>1, <3>2, Delivered
  <2> QED BY <2>1, <2>2, <2>3, <2>4 DEF HoldsIt
<1>7. ASSUME NEW m \in DOMAIN sent, up, sent[m].conn = conn, m \notin Members(stream')
      PROVE  m \in Members(relayed[sent[m].edge]) \/ Held(m)' \/ Superseded(m)'
  <2>1. CASE m = n
    BY <2>1, <1>4
  <2>2. CASE m # n
    <3>1. m <= Got
      BY <2>2, <1>1, <1>7
    <3>2. m \notin Members(stream)
      BY <3>1, <1>1
    <3> QED BY <3>2, <1>5, <1>6, <1>7 DEF NoneDropped
  <2> QED BY <2>1, <2>2
<1> QED BY <1>1, <1>7 DEF NoneDropped

LEMMA DispatchOK == ASSUME IInv, Dispatch PROVE IInv'
<1> USE DEF IInv
<1>1. PICK n \in Indices, e \in Edges : n = Head(stream) /\ e = sent[n].edge
  <2>1. /\ stream # <<>> /\ stream' = Tail(stream) /\ UNCHANGED <<conn, up, sent>>
    BY DEF Dispatch
  <2>2. Head(stream) \in Indices /\ Head(stream) \in DOMAIN sent
    BY <2>1, ReceiveOK
  <2> QED BY <2>2, EdgesOf
<1>2. /\ up /\ stream # <<>> /\ signal = None /\ stream' = Tail(stream)
      /\ UNCHANGED <<conn, up, sent, relayed>> /\ conn \in 0 .. MaxConns
  BY DEF Dispatch, StreamInv
<1>3. StreamInv'
  BY <1>1, <1>2, ReceiveOK
<1>4. CASE /\ workers[e] # None
           /\ worker' = [worker EXCEPT ![workers[e]].queue = Enqueue(@, n)]
           /\ signal' = workers[e] /\ UNCHANGED workers
  <2>1. PICK w \in Workers : /\ w = workers[e] /\ worker[w].edge = e /\ worker[w].conn = conn
                             /\ Runs(worker[w])
    BY <1>2, <1>4 DEF MapInv, MapOK, Runs
  <2>2. PICK r : r = [worker[w] EXCEPT !.queue = Enqueue(worker[w].queue, n)]
    OBVIOUS
  <2>3. worker' = [worker EXCEPT ![w] = r]
    BY <1>4, <2>1, <2>2 DEF WorkerInv
  <2>4. Enqueue(worker[w].queue, n) \in Seq(Indices)
    <3>1. PICK q \in Seq(Indices) : q = worker[w].queue /\ Increasing(q) /\ Sound(worker[w])
      BY WorkerOf DEF Sound
    <3>2. \A m \in Members(q) : m < n
      <4> TAKE m \in Members(q)
      <4>1. m \in DOMAIN sent /\ m <= Got
        BY <3>1 DEF Sound, Pending
      <4>2. n = Got + 1 /\ Got \in Nat /\ m \in Nat
        BY <4>1, <1>1, <1>2, ReceiveOK
      <4> QED BY <4>1, <4>2
    <3> QED BY <1>1, <3>1, <3>2, QEnqueue
  <2>5. /\ r \in WorkerType /\ r.pc = worker[w].pc /\ r.hand = worker[w].hand
        /\ r.queue = Enqueue(worker[w].queue, n)
        /\ r.edge = worker[w].edge /\ r.conn = worker[w].conn
    BY <2>2, <2>4, WorkerOf DEF WorkerType
  <2>6. Runs(r) /\ (r.pc = "push" <=> r.hand # None)
    BY <2>1, <2>5, WorkerOf DEF Runs, Sound
  <2>7. Delivers(w, r, n)
    BY <1>1, <1>2, <1>4, <2>1, <2>3, <2>5, <2>6 DEF Delivers
  <2>8. \A v \in Workers :
          /\ worker'[v].edge = worker[v].edge /\ worker'[v].conn = worker[v].conn
          /\ worker'[v].pc = worker[v].pc
    <3>1. /\ worker'[w] = r /\ \A v \in Workers : v # w => worker'[v] = worker[v]
      BY <2>7, Delivered
    <3> QED BY <2>5, <3>1
  <2>9. MapInv'
    <3>1. MapOK'
      <4>1. \A d \in Edges : workers[d] # None => workers[d] \in Workers
        BY DEF MapInv
      <4> QED BY <1>2, <1>4, <2>8, <4>1 DEF MapInv, MapOK
    <3> QED BY <1>2, <1>4, <2>8, <3>1 DEF MapInv, Runs
  <2> QED BY <1>3, <2>7, <2>9, DeliveredWorkers, DeliveredRelayed, DeliveredHeld
<1>5. ASSUME NEW w \in Workers, workers[e] = None, worker[w] = Unborn,
             worker' = [worker EXCEPT ![w] = Started(n)],
             workers' = [workers EXCEPT ![e] = w], signal' = w
      PROVE  IInv'
  <2>1. PICK r : r = Started(n)
    OBVIOUS
  <2>2. Unborn.queue = <<>> /\ Unborn.hand = None
    BY DEF Unborn
  <2>3. Enqueue(<<>>, n) \in Seq(Indices)
    <3>1. <<>> \in Seq(Indices) /\ Increasing(<<>>) /\ Members(<<>>) = {}
      BY DEF Increasing, Members
    <3> QED BY <1>1, <3>1, QEnqueue
  <2>4. /\ r \in WorkerType /\ r.pc = "top" /\ r.hand = None /\ r.queue = Enqueue(<<>>, n)
        /\ r.edge = e /\ r.conn = conn
    BY <1>1, <1>2, <2>1, <2>3 DEF Started, WorkerType, WorkerPCs
  <2>5. Delivers(w, r, n)
    BY <1>1, <1>2, <1>5, <2>1, <2>2, <2>4 DEF Delivers, Runs
  <2>6. worker'[w] = r /\ \A v \in Workers : v # w => worker'[v] = worker[v]
    BY <2>5, Delivered
  <2>7. Runs(r) /\ w # None
    BY <2>4 DEF Runs, Workers, None
  <2>8. /\ workers' \in [Edges -> Workers \cup {None}] /\ workers'[e] = w
        /\ \A d \in Edges : d # e => workers'[d] = workers[d]
    BY <1>5 DEF MapInv
  <2>9. \A v \in Workers : worker[v].conn = conn /\ Runs(worker[v]) => worker[v].edge # e
    BY <1>2, <1>5 DEF MapInv, Workers, None
  <2>10. MapOK'
    <3>1. ASSUME NEW d \in Edges, workers'[d] # None
          PROVE  LET v == worker'[workers'[d]]
                 IN  v.edge = d /\ v.conn = conn /\ v.pc \notin {"unborn", "done"}
      <4>1. CASE d = e
        BY <4>1, <2>4, <2>6, <2>8
      <4>2. CASE d # e
        <5>1. PICK v \in Workers : v = workers[d] /\ workers'[d] = v
          BY <3>1, <4>2, <2>8 DEF MapInv
        <5>2. worker[v].edge = d /\ worker[v].conn = conn /\ worker[v].pc \notin {"unborn", "done"}
          BY <5>1, <1>2, <2>7 DEF MapInv, MapOK, None, Workers
        <5>3. worker'[v] = worker[v]
          BY <5>2, <4>2, <2>6, <1>5, <2>2 DEF Unborn
        <5> QED BY <5>1, <5>2, <5>3
      <4> QED BY <4>1, <4>2
    <3> QED BY <1>2, <3>1 DEF MapOK
  <2>11. \A v \in Workers : worker'[v].conn = conn /\ Runs(worker'[v])
            => workers'[worker'[v].edge] = v
    <3> TAKE v \in Workers
    <3>1. CASE v = w
      BY <3>1, <2>4, <2>6, <2>8
    <3>2. CASE v # w
      <4>1. worker'[v] = worker[v] /\ worker[v].edge \in Edges
        BY <3>2, <2>6, WorkerOf DEF WorkerType
      <4> QED BY <4>1, <1>2, <2>8, <2>9 DEF MapInv
    <3> QED BY <3>1, <3>2
  <2>12. \A u, v \in Workers :
            Runs(worker'[u]) /\ Runs(worker'[v]) /\ worker'[u].edge = worker'[v].edge
                /\ worker'[u].conn = worker'[v].conn => u = v
    <3> TAKE u, v \in Workers
    <3>1. CASE u # w /\ v # w
      BY <3>1, <2>6 DEF MapInv
    <3>2. CASE u = w \/ v = w
      BY <3>2, <2>4, <2>6, <2>9
    <3> QED BY <3>1, <3>2
  <2>13. MapInv'
    BY <1>2, <2>8, <2>10, <2>11, <2>12 DEF MapInv, Runs
  <2> QED BY <1>3, <2>5, <2>13, DeliveredWorkers, DeliveredRelayed, DeliveredHeld
<1> QED BY <1>1, <1>4, <1>5 DEF Dispatch

-----------------------------------------------------------------------------
LEMMA StepOK == ASSUME IInv, [Next]_vars PROVE IInv'
<1>1. CASE UNCHANGED vars
  <2>1. \A n : (Held(n) => Held(n)') /\ (Superseded(n) => Superseded(n)')
    BY <1>1 DEF vars, Held, Superseded, Attended, At, IsDesired
  <2>2. NoneDropped'
    BY <1>1, <2>1 DEF IInv, NoneDropped, vars
  <2>3. StreamInv' /\ MapInv' /\ PerEdgeFIFO'
    BY <1>1 DEF IInv, StreamInv, Got, MapInv, MapOK, Runs, PerEdgeFIFO, vars
  <2>4. WorkerInv'
    BY <1>1 DEF IInv, WorkerInv, Sound, Got, vars
  <2>5. RelayedInv'
    BY <1>1 DEF IInv, RelayedInv, Got, Runs, Pending, Members, vars
  <2> QED BY <2>2, <2>3, <2>4, <2>5 DEF IInv
<1>2. CASE \E w \in Workers : WorkerNext(w)
  BY <1>2, DequeueOK, RelayOK, QueueEmptyOK, WokenOK, CtxDoneOK, IdleReapOK DEF WorkerNext
<1>3. CASE \E e \in Edges, k \in Kinds : ServerSends(e, k)
  BY <1>3, ServerSendsOK
<1>4. CASE Connect
  BY <1>4, ConnectOK
<1>5. CASE Drop
  BY <1>5, DropOK
<1>6. CASE Dispatch
  BY <1>6, DispatchOK
<1>7. CASE Wake
  BY <1>7, WakeOK
<1> QED BY <1>1, <1>2, <1>3, <1>4, <1>5, <1>6, <1>7 DEF Next

LEMMA Inductive == Spec => []IInv
<1>1. Init => IInv
  BY InitOK
<1>2. IInv /\ [Next]_vars => IInv'
  BY StepOK
<1> QED BY <1>1, <1>2, PTL DEF Spec

(***************************************************************************)
(* An entry of the map of an open connection is a worker of that edge that   *)
(* still runs: dispatch never enqueues to one that has left (watchclient.go, *)
(* the double check of the idle reap under both locks).                     *)
(***************************************************************************)
THEOREM RelayTyped == Spec => []TypeOK
<1>1. IInv => TypeOK
  BY DEF IInv, StreamInv, WorkerInv, WorkerType, MapInv, RelayedInv, TypeOK
<1> QED BY <1>1, Inductive, PTL

(***************************************************************************)
(* The directives of an edge and a connection reach the agent in the order   *)
(* the server sent them, none twice, across the workers that carried them.  *)
(***************************************************************************)
THEOREM RelayFIFO == Spec => []PerEdgeFIFO
<1>1. IInv => PerEdgeFIFO
  BY DEF IInv
<1> QED BY <1>1, Inductive, PTL

(***************************************************************************)
(* What the consumer received on the open connection is relayed, or a        *)
(* worker that will come to it has it, or a later full snapshot replaced it. *)
(***************************************************************************)
THEOREM RelayNoneDropped == Spec => []NoneDropped
<1>1. IInv => NoneDropped
  BY DEF IInv
<1> QED BY <1>1, Inductive, PTL
=============================================================================
