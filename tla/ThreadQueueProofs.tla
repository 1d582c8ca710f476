-------------------------- MODULE ThreadQueueProofs --------------------------
(***************************************************************************)
(* What the queue operators return, whatever the queues hold.              *)
(***************************************************************************)
EXTENDS ThreadQueue, WellFoundedInduction, FiniteSetTheorems, SequenceTheorems,
        TLAPS

-----------------------------------------------------------------------------
(* A thread is not the index that stands for none.                         *)
LEMMA NoneIsNoThread == None \notin Thread
  BY QueueAssumption DEF None, Thread

(* Every operator maps index arrays to index arrays.                       *)
LEMMA EnqueueType ==
  ASSUME NEW l \in Links, NEW q \in Queue, NEW i \in Thread
  PROVE  Enqueue(l, q, i) \in Links
  BY DEF Enqueue, Links, Index

LEMMA EnqueueFirstType ==
  ASSUME NEW l \in Links, NEW q \in Queue, NEW i \in Thread
  PROVE  EnqueueFirst(l, q, i) \in Links
  BY DEF EnqueueFirst, Links, Index

LEMMA UnlinkType ==
  ASSUME NEW l \in Links, NEW q \in Queue, NEW i \in Thread
  PROVE  Unlink(l, q, i) \in Links
  BY DEF Unlink, Links, Index

LEMMA PopFrontType ==
  ASSUME NEW l \in Links, NEW q \in Queue
  PROVE  PopFront(l, q) \in Links
  <1>1. l.head[q] \in Index  BY DEF Links
  <1> QED BY <1>1, UnlinkType DEF PopFront, Index

LEMMA EnqueueByPriorityType ==
  ASSUME NEW l \in Links, NEW p \in [Thread -> Priority],
         NEW q \in Queue, NEW i \in Thread
  PROVE  EnqueueByPriority(l, p, q, i) \in Links
  <1> DEFINE at == FirstWorse(l, p, q, i)
  <1> HIDE DEF at
  <1>1. ASSUME at \in Thread PROVE InsertBefore(l, q, at, i) \in Links
    BY <1>1 DEF InsertBefore, Links, Index
  <1> QED BY <1>1, EnqueueType DEF EnqueueByPriority, at

-----------------------------------------------------------------------------
(* Where each thread is, and that no chain of next indices is a circle.    *)
Places == [Thread -> Queue \cup {Nowhere}]

Ranked(l) ==
    \E r \in [Thread -> Nat] :
        \A t \in Thread : l.next[t] # None => r[t] < r[l.next[t]]

LEMMA NowhereIsNoQueue == Nowhere \notin Queue
  BY QueueAssumption DEF Nowhere, Queue, Priority

(* A thread that is in no queue joins one at its tail or its head; a       *)
(* thread leaves the queue it is in.                                       *)
LEMMA EnqueueLinked ==
  ASSUME NEW l \in Links, NEW q \in Queue, NEW i \in Thread, NEW w \in Places,
         LinkedAs(l, w), w[i] = Nowhere
  PROVE  LinkedAs(Enqueue(l, q, i), [w EXCEPT ![i] = q])
  BY NoneIsNoThread, NowhereIsNoQueue DEF LinkedAs, Enqueue, Links, Index, Places

LEMMA EnqueueFirstLinked ==
  ASSUME NEW l \in Links, NEW q \in Queue, NEW i \in Thread, NEW w \in Places,
         LinkedAs(l, w), w[i] = Nowhere
  PROVE  LinkedAs(EnqueueFirst(l, q, i), [w EXCEPT ![i] = q])
  BY NoneIsNoThread, NowhereIsNoQueue DEF LinkedAs, EnqueueFirst, Links, Index, Places

LEMMA UnlinkLinked ==
  ASSUME NEW l \in Links, NEW q \in Queue, NEW i \in Thread, NEW w \in Places,
         LinkedAs(l, w), w[i] = q
  PROVE  LinkedAs(Unlink(l, q, i), [w EXCEPT ![i] = Nowhere])
  BY NoneIsNoThread, NowhereIsNoQueue DEF LinkedAs, Unlink, Links, Index, Places

LEMMA InsertBeforeLinked ==
  ASSUME NEW l \in Links, NEW q \in Queue, NEW i \in Thread, NEW at \in Thread,
         NEW w \in Places, LinkedAs(l, w), w[i] = Nowhere, w[at] = q
  PROVE  LinkedAs(InsertBefore(l, q, at, i), [w EXCEPT ![i] = q])
  BY NoneIsNoThread, NowhereIsNoQueue DEF LinkedAs, InsertBefore, Links, Index, Places

(* The same operators keep the chains free of circles.                     *)
LEMMA EnqueueRanked ==
  ASSUME NEW l \in Links, NEW q \in Queue, NEW i \in Thread, NEW w \in Places,
         LinkedAs(l, w), Ranked(l), w[i] = Nowhere
  PROVE  Ranked(Enqueue(l, q, i))
  <1>1. PICK r \in [Thread -> Nat] :
          \A t \in Thread : l.next[t] # None => r[t] < r[l.next[t]]
    BY DEF Ranked
  <1> DEFINE m == Enqueue(l, q, i)
             last == l.tail[q]
             n == IF last = None THEN 0 ELSE r[last] + 1
             s == [r EXCEPT ![i] = n]
  <1>2. last \in Index /\ n \in Nat  BY DEF Links, Index
  <1>3. s \in [Thread -> Nat]  BY <1>2
  <1>4. \A t \in Thread : l.next[t] # i
    BY NoneIsNoThread, NowhereIsNoQueue DEF LinkedAs, Links, Index
  <1>5. last # i  BY NoneIsNoThread, NowhereIsNoQueue DEF LinkedAs
  <1>6. ASSUME NEW t \in Thread, m.next[t] # None
        PROVE  s[t] < s[m.next[t]]
    <2>1. m.next[t] = IF t = last THEN i ELSE IF t = i THEN None ELSE l.next[t]
      BY DEF Enqueue
    <2> QED BY <1>1, <1>2, <1>4, <1>5, <1>6, <2>1, NoneIsNoThread DEF Links, Index
  <1> QED BY <1>3, <1>6 DEF Ranked

LEMMA EnqueueFirstRanked ==
  ASSUME NEW l \in Links, NEW q \in Queue, NEW i \in Thread, NEW w \in Places,
         LinkedAs(l, w), Ranked(l), w[i] = Nowhere
  PROVE  Ranked(EnqueueFirst(l, q, i))
  <1>1. PICK r \in [Thread -> Nat] :
          \A t \in Thread : l.next[t] # None => r[t] < r[l.next[t]]
    BY DEF Ranked
  <1> DEFINE m == EnqueueFirst(l, q, i)
             s == [t \in Thread |-> IF t = i THEN 0 ELSE r[t] + 1]
  <1>2. s \in [Thread -> Nat]  OBVIOUS
  <1>3. \A t \in Thread : l.next[t] # i
    BY NoneIsNoThread, NowhereIsNoQueue DEF LinkedAs, Links, Index
  <1>4. l.head[q] # i /\ l.head[q] \in Index
    BY NoneIsNoThread, NowhereIsNoQueue DEF LinkedAs, Links
  <1>5. ASSUME NEW t \in Thread, m.next[t] # None
        PROVE  s[t] < s[m.next[t]]
    <2>1. m.next[t] = IF t = i THEN l.head[q] ELSE l.next[t]
      BY DEF EnqueueFirst, Links
    <2> QED BY <1>1, <1>3, <1>4, <1>5, <2>1 DEF Links, Index
  <1> QED BY <1>2, <1>5 DEF Ranked

LEMMA UnlinkRanked ==
  ASSUME NEW l \in Links, NEW q \in Queue, NEW i \in Thread, NEW w \in Places,
         LinkedAs(l, w), Ranked(l)
  PROVE  Ranked(Unlink(l, q, i))
  <1>1. PICK r \in [Thread -> Nat] :
          \A t \in Thread : l.next[t] # None => r[t] < r[l.next[t]]
    BY DEF Ranked
  <1> DEFINE m == Unlink(l, q, i)
  <1>2. ASSUME NEW t \in Thread, m.next[t] # None
        PROVE  r[t] < r[m.next[t]]
    <2>1. m.next[t] = IF t = i THEN None
                      ELSE IF t = l.prev[i] THEN l.next[i] ELSE l.next[t]
      BY DEF Unlink
    <2>2. CASE t # i /\ t = l.prev[i]
      <3>1. l.next[t] = i /\ l.next[i] # None /\ l.next[i] \in Thread
        BY <1>2, <2>1, <2>2, NoneIsNoThread DEF LinkedAs, Links, Index
      <3>2. r[t] < r[i] /\ r[i] < r[l.next[i]]
        BY <1>1, <3>1, NoneIsNoThread
      <3> QED BY <2>1, <2>2, <3>1, <3>2
    <2> QED BY <1>1, <1>2, <2>1, <2>2
  <1> QED BY <1>2 DEF Ranked

LEMMA InsertBeforeRanked ==
  ASSUME NEW l \in Links, NEW q \in Queue, NEW i \in Thread, NEW at \in Thread,
         NEW w \in Places, LinkedAs(l, w), Ranked(l), w[i] = Nowhere, w[at] = q
  PROVE  Ranked(InsertBefore(l, q, at, i))
  <1>1. PICK r \in [Thread -> Nat] :
          \A t \in Thread : l.next[t] # None => r[t] < r[l.next[t]]
    BY DEF Ranked
  <1> DEFINE m == InsertBefore(l, q, at, i)
             s == [t \in Thread |-> IF t = i THEN 2 * r[at] ELSE 2 * r[t] + 1]
  <1>2. s \in [Thread -> Nat]  OBVIOUS
  <1>3. \A t \in Thread : l.next[t] # i
    BY NoneIsNoThread, NowhereIsNoQueue DEF LinkedAs, Links, Index
  <1>4. l.prev[at] \in Thread => l.next[l.prev[at]] = at
    BY NoneIsNoThread DEF LinkedAs
  <1>5. at # i /\ l.prev[at] # i
    BY NoneIsNoThread, NowhereIsNoQueue DEF LinkedAs
  <1>6. ASSUME NEW t \in Thread, m.next[t] # None
        PROVE  s[t] < s[m.next[t]]
    <2>1. m.next[t] = IF t = l.prev[at] THEN i ELSE IF t = i THEN at ELSE l.next[t]
      BY DEF InsertBefore
    <2>2. CASE t = l.prev[at]
      <3>1. r[t] < r[at]  BY <1>1, <1>4, <2>2, NoneIsNoThread
      <3> QED BY <1>5, <2>1, <2>2, <3>1
    <2>3. CASE t # l.prev[at] /\ t = i
      BY <1>5, <2>1, <2>3
    <2>4. CASE t # l.prev[at] /\ t # i
      <3>1. l.next[t] \in Thread /\ l.next[t] # i /\ r[t] < r[l.next[t]]
        BY <1>1, <1>3, <1>6, <2>1, <2>4 DEF Links, Index
      <3> QED BY <2>1, <2>4, <3>1
    <2> QED BY <2>2, <2>3, <2>4
  <1> QED BY <1>2, <1>6 DEF Ranked

(* A set of natural numbers that is not empty has a least element.         *)
LEMMA LeastOf ==
  ASSUME NEW S \in SUBSET Nat, S # {}
  PROVE  \E x \in S : \A y \in S : x <= y
  <1> DEFINE Less == {ss \in Nat \X Nat : ss[1] < ss[2]}
  <1>1. IsWellFoundedOn(Less, Nat)  BY NatLessThanWellFounded, Zenon DEF OpToRel
  <1>2. PICK x \in S : \A y \in S : ~ (<<y, x>> \in Less)
    <2> HIDE DEF Less
    <2> QED BY <1>1, WFMin
  <1>3. ASSUME NEW y \in S, y < x  PROVE FALSE
    <2>1. <<y, x>> \in Nat \X Nat  OBVIOUS
    <2>2. <<y, x>>[1] < <<y, x>>[2]  BY <1>3
    <2> QED BY <1>2, <2>1, <2>2, Zenon
  <1> QED BY <1>3

(* A queue that some thread is in has a head.                              *)
LEMMA QueueHasHead ==
  ASSUME NEW l \in Links, NEW w \in Places, LinkedAs(l, w), Ranked(l),
         NEW t \in Thread, w[t] # Nowhere
  PROVE  l.head[w[t]] # None
  <1>1. PICK r \in [Thread -> Nat] :
          \A u \in Thread : l.next[u] # None => r[u] < r[l.next[u]]
    BY DEF Ranked
  <1> DEFINE S == {r[u] : u \in {v \in Thread : w[v] = w[t]}}
  <1>2. PICK x \in S : \A y \in S : x <= y
    <2>1. S \in SUBSET Nat /\ S # {}  OBVIOUS
    <2> QED BY <2>1, LeastOf
  <1>3. PICK u \in Thread : w[u] = w[t] /\ r[u] = x  BY <1>2
  <1>4. l.prev[u] = None
    <2> SUFFICES ASSUME l.prev[u] # None PROVE FALSE  OBVIOUS
    <2>1. l.prev[u] \in Thread  BY DEF Links, Index
    <2>2. w[l.prev[u]] = w[t] /\ l.next[l.prev[u]] = u
      BY <1>3, NoneIsNoThread DEF LinkedAs
    <2>3. r[l.prev[u]] < r[u]  BY <1>1, <2>1, <2>2, NoneIsNoThread
    <2>4. r[l.prev[u]] \in S  BY <2>1, <2>2
    <2> QED BY <1>2, <1>3, <2>1, <2>3, <2>4
  <1>5. l.head[w[t]] = u  BY <1>3, <1>4 DEF LinkedAs
  <1> QED BY <1>5, NoneIsNoThread

(* The walk of enqueueByPriority ends past the queue's end or at one of    *)
(* its threads.  What its recursion gives at n is shown by taking the      *)
(* least n for which it fails.                                             *)
LEMMA FirstWorseThere ==
  ASSUME NEW l \in Links, NEW w \in Places, LinkedAs(l, w),
         NEW p \in [Thread -> Priority], NEW q \in Queue, NEW i \in Thread,
         FirstWorse(l, p, q, i) \in Thread
  PROVE  w[FirstWorse(l, p, q, i)] = q
  <1> DEFINE Walk(f, n) == IF n = 0 THEN l.head[q]
                           ELSE LET at == f[n - 1]
                                IN  IF at = None \/ p[at] > p[i] THEN at ELSE l.next[at]
             Whole(f, m) == f = [n \in 0 .. m |-> Walk(f, n)]
             At == CHOOSE f : f = [n \in 0 .. NumThreads |-> Walk(f, n)]
  <1>1. FirstWorse(l, p, q, i) = At[NumThreads]
    BY DEF FirstWorse
  <1>2. NumThreads \in Nat  BY QueueAssumption
  <1>3. \A m \in Nat : \E f : Whole(f, m)
    <2> DEFINE Bad == {m \in Nat : ~ \E f : Whole(f, m)}
    <2> SUFFICES ASSUME Bad # {} PROVE FALSE  OBVIOUS
    <2>1. PICK m \in Bad : \A n \in Bad : m <= n  BY LeastOf
    <2>2. m # 0
      <3> DEFINE f == [n \in 0 .. 0 |-> l.head[q]]
      <3>1. Whole(f, 0)  OBVIOUS
      <3> QED BY <2>1, <3>1
    <2>3. m - 1 \in Nat /\ m - 1 \notin Bad  BY <2>1, <2>2
    <2>4. PICK f : Whole(f, m - 1)  BY <2>3
    <2> DEFINE g == [n \in 0 .. m |-> IF n < m THEN f[n] ELSE Walk(f, m)]
    <2>5. ASSUME NEW n \in 0 .. m  PROVE g[n] = Walk(g, n)
      <3>1. n # 0 => g[n - 1] = f[n - 1]  BY <2>1, <2>5
      <3>2. Walk(g, n) = Walk(f, n)  BY <3>1
      <3>3. n < m => f[n] = Walk(f, n)  BY <2>3, <2>4, <2>5
      <3>4. g[n] = IF n < m THEN f[n] ELSE Walk(f, m)  BY <2>5
      <3>5. n < m \/ n = m  BY <2>1, <2>5
      <3> HIDE DEF Walk, g
      <3> QED BY <3>2, <3>3, <3>4, <3>5
    <2>6. Whole(g, m)  BY <2>5
    <2> QED BY <2>1, <2>6
  <1>4. Whole(At, NumThreads)  BY <1>2, <1>3
  <1> HIDE DEF At
  <1>5. \A n \in 0 .. NumThreads : At[n] = Walk(At, n)  BY <1>4
  <1>6. \A n \in 0 .. NumThreads : At[n] = None \/ (At[n] \in Thread /\ w[At[n]] = q)
    <2> DEFINE Bad == {n \in 0 .. NumThreads :
                         ~(At[n] = None \/ (At[n] \in Thread /\ w[At[n]] = q))}
    <2> SUFFICES ASSUME Bad # {} PROVE FALSE  OBVIOUS
    <2>1. PICK n \in Bad : \A m \in Bad : n <= m
      <3>1. Bad \in SUBSET Nat  BY <1>2
      <3> QED BY <3>1, LeastOf
    <2>2. n # 0
      <3>1. 0 \in 0 .. NumThreads  BY <1>2
      <3>2. At[0] = l.head[q]  BY <1>5, <3>1
      <3>3. At[0] = None \/ (At[0] \in Thread /\ w[At[0]] = q)
        BY <3>2 DEF LinkedAs, Links, Index
      <3> QED BY <2>1, <3>3
    <2>3. n - 1 \in 0 .. NumThreads /\ n - 1 \notin Bad  BY <1>2, <2>1, <2>2
    <2>4. At[n - 1] = None \/ (At[n - 1] \in Thread /\ w[At[n - 1]] = q)  BY <2>3
    <2>5. At[n] = IF At[n - 1] = None \/ p[At[n - 1]] > p[i] THEN At[n - 1]
                  ELSE l.next[At[n - 1]]
      BY <1>5, <2>1, <2>2
    <2>6. At[n] = None \/ (At[n] \in Thread /\ w[At[n]] = q)
      BY <2>4, <2>5 DEF LinkedAs, Links, Index
    <2> QED BY <2>1, <2>6
  <1> QED BY <1>1, <1>2, <1>6, NoneIsNoThread

(* enqueueByPriority puts a thread into the queue, wherever it puts it.    *)
LEMMA EnqueueByPriorityLinked ==
  ASSUME NEW l \in Links, NEW p \in [Thread -> Priority], NEW q \in Queue,
         NEW i \in Thread, NEW w \in Places,
         LinkedAs(l, w), Ranked(l), w[i] = Nowhere
  PROVE  /\ LinkedAs(EnqueueByPriority(l, p, q, i), [w EXCEPT ![i] = q])
         /\ Ranked(EnqueueByPriority(l, p, q, i))
  <1> DEFINE at == FirstWorse(l, p, q, i)
  <1>1. at \in Thread => w[at] = q  BY FirstWorseThere
  <1>2. EnqueueByPriority(l, p, q, i)
          = IF at \in Thread THEN InsertBefore(l, q, at, i) ELSE Enqueue(l, q, i)
    BY DEF EnqueueByPriority
  <1> HIDE DEF at
  <1> QED BY <1>1, <1>2, InsertBeforeLinked, InsertBeforeRanked, EnqueueLinked,
             EnqueueRanked

-----------------------------------------------------------------------------
(* Thread slots are finitely many.                                         *)
LEMMA ThreadsFinite ==
  /\ IsFiniteSet(Thread) /\ Cardinality(Thread) = NumThreads
  /\ \A S \in SUBSET Thread : IsFiniteSet(S)
  <1>1. NumThreads \in Nat /\ NumThreads - 1 \in Int /\ 0 \in Int
    BY QueueAssumption
  <1>2. IsFiniteSet(Thread) /\ Cardinality(Thread) = NumThreads
    BY <1>1, FS_Interval, QueueAssumption DEF Thread
  <1> QED BY <1>2, FS_Subset

(* s lists queue q: it starts at the head and follows next to its end.     *)
Listed(l, q, s) ==
    /\ s \in Seq(Thread)
    /\ l.head[q] = IF s = <<>> THEN None ELSE s[1]
    /\ \A n \in 1 .. Len(s) : l.next[s[n]] = IF n = Len(s) THEN None ELSE s[n + 1]

(* The start of such a list: s follows next from t, but may stop short.    *)
Started(l, t, s) ==
    /\ s \in Seq(Thread)
    /\ s # <<>> => s[1] = t
    /\ \A n \in 1 .. Len(s) - 1 : l.next[s[n]] = s[n + 1]

Follows(l, t, s) == IF s = <<>> THEN t ELSE l.next[s[Len(s)]]

(* It meets no thread twice, as ranks grow along next, so it has an end.   *)
LEMMA StartedShort ==
  ASSUME NEW l \in Links, Ranked(l), NEW t0, NEW s, Started(l, t0, s)
  PROVE  Len(s) \in Nat /\ Len(s) <= NumThreads
  <1> DEFINE k == Len(s)
  <1>1. s \in [1 .. k -> Thread] /\ k \in Nat  BY DEF Started
  <1>2. \A n \in 1 .. k - 1 : l.next[s[n]] = s[n + 1]  BY DEF Started
  <1>3. NumThreads \in Nat  BY QueueAssumption
  <1> HIDE DEF k
  <1>4. PICK r \in [Thread -> Nat] :
          \A t \in Thread : l.next[t] # None => r[t] < r[l.next[t]]
    BY DEF Ranked
  <1>5. \A n, m \in 1 .. k : n < m => r[s[n]] < r[s[m]]
    <2> SUFFICES ASSUME NEW n \in 1 .. k
                 PROVE  \A m \in 1 .. k : n < m => r[s[n]] < r[s[m]]
      OBVIOUS
    <2> DEFINE Bad == {m \in 1 .. k : n < m /\ ~(r[s[n]] < r[s[m]])}
    <2> SUFFICES ASSUME Bad # {} PROVE FALSE  OBVIOUS
    <2>1. PICK m \in Bad : \A x \in Bad : m <= x
      <3>1. Bad \in SUBSET Nat  BY <1>1
      <3> QED BY <3>1, LeastOf
    <2>2. m - 1 \in 1 .. k /\ m - 1 # k /\ (m - 1 = n \/ n < m - 1) /\ m - 1 \notin Bad
      BY <1>1, <2>1
    <2>3. s[m - 1] \in Thread /\ s[m] \in Thread /\ l.next[s[m - 1]] = s[m]
      <3>1. (m - 1) + 1 = m /\ m \in 1 .. k /\ m - 1 \in 1 .. k - 1
        BY <1>1, <2>1, <2>2
      <3>2. l.next[s[m - 1]] = s[(m - 1) + 1]  BY <1>2, <3>1
      <3> QED BY <1>1, <2>2, <3>1, <3>2
    <2>4. r[s[m - 1]] < r[s[m]]  BY <1>4, <2>3, NoneIsNoThread
    <2>5. r[s[n]] \in Nat /\ r[s[m - 1]] \in Nat /\ r[s[m]] \in Nat  BY <1>1, <2>3
    <2>6. m - 1 # n => r[s[n]] < r[s[m - 1]]  BY <2>2
    <2>7. r[s[n]] < r[s[m]]
      <3> HIDE DEF Bad
      <3> QED BY <2>4, <2>5, <2>6
    <2> QED BY <2>1, <2>7
  <1>6. ~(NumThreads < k)
    <2> SUFFICES ASSUME NumThreads < k PROVE FALSE  OBVIOUS
    <2> DEFINE Steps == 1 .. k
    <2>0. 1 \in Int /\ k \in Int /\ ~(1 > k) /\ k - 1 + 1 = k
      BY <1>1, <1>3
    <2>1. IsFiniteSet(Steps) /\ Cardinality(Steps) = k
      BY <2>0, FS_Interval
    <2>2. s \in [Steps -> Thread]  BY <1>1
    <2> HIDE DEF Steps
    <2>3. Cardinality(Thread) < Cardinality(Steps)
      BY <2>1, ThreadsFinite
    <2>4. \E x, y \in Steps : x # y /\ s[x] = s[y]
      <3>1. IsFiniteSet(Thread)  BY ThreadsFinite
      <3> QED BY <2>1, <2>2, <2>3, <3>1, FS_PigeonHole
    <2>5. PICK n, m \in 1 .. k : n # m /\ s[n] = s[m]  BY <2>4 DEF Steps
    <2>6. r[s[n]] \in Nat /\ r[s[n]] = r[s[m]]  BY <1>1, <2>5
    <2>7. n < m \/ m < n  BY <1>1, <2>5
    <2> QED BY <1>5, <2>5, <2>6, <2>7
  <1> QED BY <1>1, <1>3, <1>6 DEF k

(* The walk of Contents lists the queue: what its recursion gives at n is  *)
(* shown by taking the least n for which it fails.                         *)
LEMMA ContentsListed ==
  ASSUME NEW l \in Links, Ranked(l), NEW q \in Queue
  PROVE  Listed(l, q, Contents(l, q))
  <1> DEFINE Step(f, n) == [t \in Index |-> IF t = None \/ n = 0 THEN <<>>
                                            ELSE <<t>> \o f[n - 1][l.next[t]]]
             Whole(f, m) == f = [n \in 0 .. m |-> Step(f, n)]
             Walk == CHOOSE f : f = [n \in 0 .. NumThreads + 1 |-> Step(f, n)]
  <1>1. Contents(l, q) = Walk[NumThreads + 1][l.head[q]]
    BY DEF Contents
  <1>2. NumThreads \in Nat  BY QueueAssumption
  <1>3. \A m \in Nat : \E f : Whole(f, m)
    <2> DEFINE Bad == {m \in Nat : ~ \E f : Whole(f, m)}
    <2>1. ASSUME NEW m \in Bad, \A n \in Bad : m <= n  PROVE FALSE
      <3>1. CASE m = 0
        <4> DEFINE f == [n \in 0 .. 0 |-> [t \in Index |-> <<>>]]
        <4>1. Whole(f, 0)  OBVIOUS
        <4> QED BY <2>1, <3>1, <4>1
      <3>2. CASE m # 0
        <4>1. m \in Nat /\ m - 1 \in Nat /\ ~(m <= m - 1)  BY <3>2
        <4>2. m - 1 \notin Bad
          <5> HIDE DEF Bad
          <5> QED BY <2>1, <4>1
        <4>3. PICK f : Whole(f, m - 1)  BY <4>1, <4>2
        <4> DEFINE g == [n \in 0 .. m |-> IF n < m THEN f[n] ELSE Step(f, m)]
        <4>4. ASSUME NEW n \in 0 .. m  PROVE g[n] = Step(g, n)
          <5>1. n # 0 => g[n - 1] = f[n - 1]  BY <4>1
          <5>2. Step(g, n) = Step(f, n)
            <6> HIDE DEF g
            <6>1. CASE n = 0  BY <6>1
            <6>2. CASE n # 0  BY <5>1, <6>2
            <6> QED BY <6>1, <6>2
          <5>3. n < m => n \in 0 .. (m - 1)  BY <4>1
          <5>4. g[n] = IF n < m THEN f[n] ELSE Step(f, m)  OBVIOUS
          <5>5. n < m \/ n = m  BY <4>1
          <5>6. n < m => f[n] = Step(f, n)
            <6> DEFINE T == [x \in 0 .. m - 1 |-> Step(f, x)]
            <6>1. f = T  BY <4>3
            <6>2. n < m => T[n] = Step(f, n)  BY <5>3
            <6> HIDE DEF T, Step
            <6> QED BY <6>1, <6>2
          <5> HIDE DEF Step, g, Whole
          <5> QED BY <5>2, <5>4, <5>5, <5>6
        <4> DEFINE G(x) == Step(g, x)
        <4>5. g = [x \in 0 .. m |-> G(x)]
          <5>1. \A x \in 0 .. m : g[x] = G(x)  BY <4>4
          <5>2. g = [x \in 0 .. m |-> g[x]]  OBVIOUS
          <5> HIDE DEF G, g
          <5> QED BY <5>1, <5>2
        <4>6. Whole(g, m)  BY <4>5
        <4> QED BY <4>6
      <3> QED BY <3>1, <3>2
    <2>2. Bad = {}
      <3>1. Bad \in SUBSET Nat  OBVIOUS
      <3> HIDE DEF Bad
      <3> QED BY <2>1, <3>1, LeastOf
    <2> HIDE DEF Whole
    <2> QED BY <2>2
  <1>4. Whole(Walk, NumThreads + 1)
    <2>1. NumThreads + 1 \in Nat  BY <1>2
    <2>2. PICK f : Whole(f, NumThreads + 1)  BY <1>3, <2>1
    <2> QED BY <2>2
  <1> HIDE DEF Walk
  <1>5. \A n \in 0 .. NumThreads + 1 : Walk[n] = Step(Walk, n)  BY <1>4
  <1> DEFINE Reached(n, t, s) == /\ Started(l, t, s)
                                 /\ Len(s) = n \/ Follows(l, t, s) = None
             Good(n) == \A t \in Index : Reached(n, t, Walk[n][t])
  <1>6. Good(0)
    <2>1. 0 \in 0 .. NumThreads + 1  BY <1>2
    <2>2. Walk[0] = Step(Walk, 0)  BY <1>5, <2>1
    <2>3. \A t \in Index : Walk[0][t] = <<>>  BY <2>2
    <2>4. \A t \in Index : Started(l, t, <<>>) /\ Len(<<>>) = 0
      <3> DEFINE e == <<>>
      <3>1. e \in Seq(Thread) /\ Len(e) = 0 /\ 1 .. Len(e) - 1 = {}
        OBVIOUS
      <3> HIDE DEF e
      <3>2. \A t \in Index : (e # <<>> => e[1] = t)  BY DEF e
      <3>3. \A t \in Index : Started(l, t, e) /\ Len(e) = 0
        BY <3>1, <3>2 DEF Started
      <3> QED BY <3>3 DEF e
    <2>5. ASSUME NEW t \in Index  PROVE Reached(0, t, Walk[0][t])
      BY <2>3, <2>4
    <2> HIDE DEF Reached
    <2> QED BY <2>5
  <1>7. ASSUME NEW n \in 1 .. NumThreads + 1, Good(n - 1)
        PROVE  Good(n)
    <2>1. n \in 0 .. NumThreads + 1 /\ n # 0 /\ n \in Nat  BY <1>2
    <2> SUFFICES ASSUME NEW t \in Index PROVE Reached(n, t, Walk[n][t])
      OBVIOUS
    <2>2. Walk[n][t] = IF t = None THEN <<>> ELSE <<t>> \o Walk[n - 1][l.next[t]]
      BY <1>5, <2>1
    <2>3. CASE t = None
      <3>1. Walk[n][t] = <<>>  BY <2>2, <2>3
      <3> QED BY <2>3, <3>1 DEF Started, Follows
    <2>4. CASE t # None
      <3> DEFINE u == l.next[t]
                 v == Walk[n - 1][u]
                 s == <<t>> \o v
      <3>1. t \in Thread /\ u \in Index  BY <2>4 DEF Index, Links
      <3>2. Reached(n - 1, u, v)  BY <1>7, <3>1
      <3> HIDE DEF v
      <3>3. v \in Seq(Thread) /\ Len(v) \in Nat  BY <3>2 DEF Started
      <3>4. s \in Seq(Thread) /\ Len(s) = Len(v) + 1 /\ s[1] = t
            /\ \A x \in 1 .. Len(v) : s[x + 1] = v[x]
        BY <3>1, <3>3
      <3> HIDE DEF s
      <3>5. v # <<>> => v[1] = u  BY <3>2 DEF Started
      <3>6. ASSUME NEW x \in 1 .. Len(s) - 1  PROVE l.next[s[x]] = s[x + 1]
        <4>1. x \in 1 .. Len(v)  BY <3>3, <3>4
        <4>2. CASE x = 1
          <5>1. v # <<>>  BY <4>1, <4>2
          <5> QED BY <3>4, <3>5, <4>1, <4>2, <5>1
        <4>3. CASE x # 1
          <5>1. x - 1 \in 1 .. Len(v) - 1 /\ x - 1 \in 1 .. Len(v) /\ (x - 1) + 1 = x
            BY <3>3, <4>1, <4>3
          <5>2. l.next[v[x - 1]] = v[(x - 1) + 1]  BY <3>2, <5>1 DEF Started
          <5>3. s[(x - 1) + 1] = v[x - 1]  BY <3>4, <5>1
          <5>4. s[x + 1] = v[x]  BY <3>4, <4>1
          <5> QED BY <5>1, <5>2, <5>3, <5>4
        <4> QED BY <4>2, <4>3
      <3>7. s # <<>>  BY <3>3, <3>4
      <3>8. Started(l, t, s)  BY <3>4, <3>6 DEF Started
      <3>9. Len(s) = n \/ Follows(l, t, s) = None
        <4>1. CASE Len(v) = n - 1  BY <2>1, <3>4, <4>1
        <4>2. CASE Follows(l, u, v) = None
          <5>1. CASE v = <<>>
            <6>1. Len(v) + 1 = 1 /\ u = None  BY <4>2, <5>1 DEF Follows
            <6>2. s[Len(s)] = t  BY <3>4, <6>1
            <6> QED BY <3>7, <6>1, <6>2 DEF Follows
          <5>2. CASE v # <<>>
            <6>1. Len(v) \in 1 .. Len(v) /\ l.next[v[Len(v)]] = None
              BY <3>3, <4>2, <5>2 DEF Follows
            <6>2. s[Len(s)] = v[Len(v)]  BY <3>4, <6>1
            <6> QED BY <3>7, <6>1, <6>2 DEF Follows
          <5> QED BY <5>1, <5>2
        <4> QED BY <3>2, <4>1, <4>2
      <3>10. Walk[n][t] = s  BY <2>2, <2>4 DEF s, v
      <3> QED BY <3>8, <3>9, <3>10
    <2> QED BY <2>3, <2>4
  <1>8. Good(NumThreads + 1)
    <2> DEFINE Bad == {n \in 0 .. NumThreads + 1 : ~Good(n)}
    <2>1. Bad = {}
      <3> SUFFICES ASSUME Bad # {} PROVE FALSE  OBVIOUS
      <3>1. PICK n \in Bad : \A m \in Bad : n <= m
        <4>1. Bad \in SUBSET Nat  BY <1>2
        <4> QED BY <4>1, LeastOf
      <3>2. n # 0  BY <1>6, <3>1
      <3> HIDE DEF Good
      <3>3. n \in 1 .. NumThreads + 1 /\ n - 1 \in 0 .. NumThreads + 1
            /\ ~(n <= n - 1)
        BY <1>2, <3>1, <3>2
      <3>4. Good(n - 1)  BY <3>1, <3>3
      <3> QED BY <1>7, <3>1, <3>3, <3>4
    <2> HIDE DEF Good
    <2> QED BY <1>2, <2>1
  <1> DEFINE t0 == l.head[q]
             s == Walk[NumThreads + 1][t0]
  <1>9. Started(l, t0, s) /\ (Len(s) = NumThreads + 1 \/ Follows(l, t0, s) = None)
    <2>1. t0 \in Index  BY DEF Links
    <2> QED BY <1>8, <2>1
  <1> HIDE DEF s
  <1>10. Follows(l, t0, s) = None  BY <1>2, <1>9, StartedShort
  <1>11. Listed(l, q, s)
    <2>1. s \in Seq(Thread) /\ Len(s) \in Nat  BY <1>9 DEF Started
    <2>2. l.head[q] = IF s = <<>> THEN None ELSE s[1]
      BY <1>9, <1>10 DEF Started, Follows
    <2>3. ASSUME NEW n \in 1 .. Len(s)
          PROVE  l.next[s[n]] = IF n = Len(s) THEN None ELSE s[n + 1]
      <3>1. CASE n = Len(s)
        <4>1. s # <<>>  BY <2>1, <3>1
        <4> QED BY <1>10, <3>1, <4>1 DEF Follows
      <3>2. CASE n # Len(s)
        <4>1. n \in 1 .. Len(s) - 1  BY <2>1, <3>2
        <4> QED BY <1>9, <3>2, <4>1 DEF Started
      <3> QED BY <3>1, <3>2
    <2> QED BY <2>1, <2>2, <2>3 DEF Listed
  <1> QED BY <1>1, <1>11 DEF s

(* The threads of a list, and those that are in a queue.                   *)
Met(s) == {s[n] : n \in 1 .. Len(s)}
InQueue(w, q) == {t \in Thread : w[t] = q}

(* The list of a queue holds the threads that are in the queue, each once. *)
LEMMA ListedHolds ==
  ASSUME NEW l \in Links, NEW w \in Places, LinkedAs(l, w), Ranked(l),
         NEW q \in Queue, NEW s, Listed(l, q, s)
  PROVE  /\ Met(s) = InQueue(w, q) /\ Len(s) = Cardinality(InQueue(w, q))
         /\ \A n, m \in 1 .. Len(s) : s[n] = s[m] => n = m
  <1> DEFINE k == Len(s)
  <1>1. s \in [1 .. k -> Thread] /\ k \in Nat  BY DEF Listed
  <1>2. l.head[q] = IF k = 0 THEN None ELSE s[1]  BY DEF Listed
  <1>3. \A n \in 1 .. k : l.next[s[n]] = IF n = k THEN None ELSE s[n + 1]
    BY DEF Listed
  <1> HIDE DEF k
  <1>4. PICK r \in [Thread -> Nat] :
          \A t \in Thread : l.next[t] # None => r[t] < r[l.next[t]]
    BY DEF Ranked
  <1>5. \A n \in 1 .. k : w[s[n]] = q
    <2> DEFINE Bad == {n \in 1 .. k : w[s[n]] # q}
    <2> SUFFICES ASSUME Bad # {} PROVE FALSE  OBVIOUS
    <2>1. PICK n \in Bad : \A m \in Bad : n <= m
      <3>1. Bad \in SUBSET Nat  BY <1>1
      <3> QED BY <3>1, LeastOf
    <2>2. n # 1
      <3>1. k # 0  BY <1>1, <2>1
      <3>2. 1 \in 1 .. k /\ l.head[q] = s[1] /\ s[1] \in Thread
        BY <1>1, <1>2, <3>1
      <3>3. w[s[1]] = q  BY <3>2, NoneIsNoThread DEF LinkedAs
      <3> QED BY <2>1, <3>3
    <2>3. n - 1 \in 1 .. k /\ n - 1 # k /\ n - 1 \notin Bad  BY <1>1, <2>1, <2>2
    <2>4. s[n - 1] \in Thread /\ s[n] \in Thread /\ l.next[s[n - 1]] = s[n]
      BY <1>1, <1>3, <2>1, <2>3
    <2>5. w[s[n]] = w[s[n - 1]]  BY <2>4, NoneIsNoThread DEF LinkedAs
    <2> QED BY <2>1, <2>3, <2>5
  <1>6. \A n, m \in 1 .. k : n < m => r[s[n]] < r[s[m]]
    <2> SUFFICES ASSUME NEW n \in 1 .. k
                 PROVE  \A m \in 1 .. k : n < m => r[s[n]] < r[s[m]]
      OBVIOUS
    <2> DEFINE Bad == {m \in 1 .. k : n < m /\ ~(r[s[n]] < r[s[m]])}
    <2> SUFFICES ASSUME Bad # {} PROVE FALSE  OBVIOUS
    <2>1. PICK m \in Bad : \A x \in Bad : m <= x
      <3>1. Bad \in SUBSET Nat  BY <1>1
      <3> QED BY <3>1, LeastOf
    <2>2. m - 1 \in 1 .. k /\ m - 1 # k /\ (m - 1 = n \/ n < m - 1) /\ m - 1 \notin Bad
      BY <1>1, <2>1
    <2>3. s[m - 1] \in Thread /\ s[m] \in Thread /\ l.next[s[m - 1]] = s[m]
      <3>1. (m - 1) + 1 = m /\ m \in 1 .. k  BY <1>1, <2>1
      <3>2. l.next[s[m - 1]] = s[(m - 1) + 1]  BY <1>3, <2>2
      <3> QED BY <1>1, <2>2, <3>1, <3>2
    <2>4. r[s[m - 1]] < r[s[m]]  BY <1>4, <2>3, NoneIsNoThread
    <2>5. r[s[n]] \in Nat /\ r[s[m - 1]] \in Nat /\ r[s[m]] \in Nat  BY <1>1, <2>3
    <2>6. m - 1 # n => r[s[n]] < r[s[m - 1]]  BY <2>2
    <2>7. r[s[n]] < r[s[m]]
      <3> HIDE DEF Bad
      <3> QED BY <2>4, <2>5, <2>6
    <2> QED BY <2>1, <2>7
  <1>7. \A n, m \in 1 .. k : s[n] = s[m] => n = m
    <2> SUFFICES ASSUME NEW n \in 1 .. k, NEW m \in 1 .. k, s[n] = s[m], n # m
                 PROVE  FALSE
      OBVIOUS
    <2>1. r[s[n]] \in Nat /\ r[s[n]] = r[s[m]]  BY <1>1
    <2>2. n < m \/ m < n  BY <1>1
    <2> QED BY <1>6, <2>1, <2>2
  <1> DEFINE there == {t \in Thread : w[t] = q}
  <1>8. \A t \in there : \E n \in 1 .. k : s[n] = t
    <2> DEFINE Missed == {t \in there : \A n \in 1 .. k : s[n] # t}
               S == {r[t] : t \in Missed}
    <2> SUFFICES ASSUME Missed # {} PROVE FALSE  OBVIOUS
    <2>1. PICK x \in S : \A y \in S : x <= y
      <3>1. S \in SUBSET Nat /\ S # {}  OBVIOUS
      <3> QED BY <3>1, LeastOf
    <2>2. PICK t \in Missed : r[t] = x  BY <2>1
    <2>3. t \in Thread /\ w[t] = q /\ q # Nowhere  BY <2>2, NowhereIsNoQueue
    <2>4. l.prev[t] # None
      <3> SUFFICES ASSUME l.prev[t] = None PROVE FALSE  OBVIOUS
      <3>1. l.head[q] = t  BY <2>3 DEF LinkedAs
      <3>2. k # 0 /\ s[1] = t  BY <1>2, <2>3, <3>1, NoneIsNoThread
      <3>3. 1 \in 1 .. k  BY <1>1, <3>2
      <3> QED BY <2>2, <3>2, <3>3
    <2>5. l.prev[t] \in Thread /\ w[l.prev[t]] = q /\ l.next[l.prev[t]] = t
      BY <2>3, <2>4 DEF LinkedAs, Links, Index
    <2>6. r[l.prev[t]] < r[t]  BY <1>4, <2>3, <2>5, NoneIsNoThread
    <2>7. l.prev[t] \notin Missed
      <3>1. r[l.prev[t]] \in Nat /\ r[t] \in Nat  BY <2>3, <2>5
      <3>2. r[l.prev[t]] \notin S
        <4> HIDE DEF S
        <4> QED BY <2>1, <2>2, <2>6, <3>1
      <3> QED BY <3>2
    <2>8. PICK n \in 1 .. k : s[n] = l.prev[t]
      <3>1. l.prev[t] \in there  BY <2>5
      <3> HIDE DEF there, S
      <3> QED BY <2>7, <3>1
    <2>9. n # k /\ s[n + 1] = t  BY <1>3, <2>3, <2>5, <2>8, NoneIsNoThread
    <2>10. n + 1 \in 1 .. k  BY <1>1, <2>9
    <2> QED BY <2>2, <2>9, <2>10
  <1>9. {s[n] : n \in 1 .. k} = there  BY <1>1, <1>5, <1>8
  <1>10. Cardinality(there) = k
    <2>1. s \in Bijection(1 .. k, there)
      <3>1. s \in [1 .. k -> there]  BY <1>1, <1>5
      <3> HIDE DEF there
      <3> QED BY <1>7, <1>8, <3>1 DEF Bijection, Injection, Surjection, IsInjective
    <2>2. ExistsBijection(1 .. k, there)  BY <2>1 DEF ExistsBijection
    <2> HIDE DEF there
    <2> QED BY <1>1, <2>2, FS_CountingElements
  <1> QED BY <1>7, <1>9, <1>10 DEF k, Met, InQueue

(* Contents meets the threads of a queue, each once.                       *)
LEMMA ContentsHold ==
  ASSUME NEW l \in Links, NEW w \in Places, LinkedAs(l, w), Ranked(l),
         NEW q \in Queue
  PROVE  LET walk == Contents(l, q)
             there == {t \in Thread : w[t] = q}
         IN  {walk[n] : n \in DOMAIN walk} = there /\ Len(walk) = Cardinality(there)
  <1>1. Listed(l, q, Contents(l, q))  BY ContentsListed
  <1> DEFINE walk == Contents(l, q)
  <1>2. Listed(l, q, walk)  BY <1>1
  <1> HIDE DEF walk
  <1>3. DOMAIN walk = 1 .. Len(walk)  BY <1>2 DEF Listed
  <1>4. Met(walk) = InQueue(w, q) /\ Len(walk) = Cardinality(InQueue(w, q))
    BY <1>2, ListedHolds
  <1> QED BY <1>3, <1>4 DEF walk, Met, InQueue

(* A queue has one list.                                                   *)
LEMMA ListedUnique ==
  ASSUME NEW l \in Links, NEW q \in Queue, NEW s, NEW u,
         Listed(l, q, s), Listed(l, q, u)
  PROVE  s = u
  <1>1. /\ s \in [1 .. Len(s) -> Thread] /\ Len(s) \in Nat
        /\ u \in [1 .. Len(u) -> Thread] /\ Len(u) \in Nat
        /\ s = [n \in 1 .. Len(s) |-> s[n]] /\ u = [n \in 1 .. Len(u) |-> u[n]]
    BY DEF Listed
  <1>2. /\ l.head[q] = IF Len(s) = 0 THEN None ELSE s[1]
        /\ l.head[q] = IF Len(u) = 0 THEN None ELSE u[1]
    BY DEF Listed
  <1>3. /\ \A n \in 1 .. Len(s) : l.next[s[n]] = IF n = Len(s) THEN None ELSE s[n + 1]
        /\ \A n \in 1 .. Len(u) : l.next[u[n]] = IF n = Len(u) THEN None ELSE u[n + 1]
    BY DEF Listed
  <1> DEFINE Agree(n) == (n \in 1 .. Len(s) <=> n \in 1 .. Len(u))
                         /\ (n \in 1 .. Len(s) => s[n] = u[n])
  <1>4. \A n \in Nat : Agree(n)
    <2> DEFINE Bad == {n \in Nat : ~Agree(n)}
    <2> SUFFICES ASSUME Bad # {} PROVE FALSE  OBVIOUS
    <2>1. PICK n \in Bad : \A m \in Bad : n <= m  BY LeastOf
    <2>2. n # 0  BY <1>1, <2>1
    <2>3. n # 1
      <3>1. 1 \in 1 .. Len(s) <=> Len(s) # 0  BY <1>1
      <3>2. 1 \in 1 .. Len(u) <=> Len(u) # 0  BY <1>1
      <3>3. Len(s) # 0 => s[1] \in Thread  BY <1>1, <3>1
      <3>4. Len(u) # 0 => u[1] \in Thread  BY <1>1, <3>2
      <3>5. Agree(1)  BY <1>2, <3>1, <3>2, <3>3, <3>4, NoneIsNoThread
      <3> QED BY <2>1, <3>5
    <2>4. n - 1 \in Nat /\ (n - 1) + 1 = n /\ n - 1 # 0 /\ n - 1 \notin Bad
      BY <2>1, <2>2, <2>3
    <2>5. Agree(n - 1)  BY <2>4
    <2>6. n \in 1 .. Len(s) => n - 1 \in 1 .. Len(s) /\ n - 1 # Len(s)
      BY <1>1, <2>4
    <2>7. n \in 1 .. Len(u) => n - 1 \in 1 .. Len(u) /\ n - 1 # Len(u)
      BY <1>1, <2>4
    <2>8. n - 1 \in 1 .. Len(s) /\ n - 1 # Len(s) => n \in 1 .. Len(s)
      BY <1>1, <2>4
    <2>9. n - 1 \in 1 .. Len(u) /\ n - 1 # Len(u) => n \in 1 .. Len(u)
      BY <1>1, <2>4
    <2>10. n - 1 \in 1 .. Len(s) =>
             l.next[s[n - 1]] = IF n - 1 = Len(s) THEN None ELSE s[n]
      BY <1>3, <2>4
    <2>11. n - 1 \in 1 .. Len(u) =>
             l.next[u[n - 1]] = IF n - 1 = Len(u) THEN None ELSE u[n]
      BY <1>3, <2>4
    <2>12. /\ n \in 1 .. Len(s) => s[n] # None
           /\ n \in 1 .. Len(u) => u[n] # None
      BY <1>1, NoneIsNoThread
    <2>13. Agree(n)
      BY <2>5, <2>6, <2>7, <2>8, <2>9, <2>10, <2>11, <2>12
    <2> QED BY <2>1, <2>13
  <1>5. Len(s) = Len(u)
    <2>1. Len(s) # 0 => Len(s) \in 1 .. Len(s)  BY <1>1
    <2>2. Len(u) # 0 => Len(u) \in 1 .. Len(u)  BY <1>1
    <2>3. Len(s) <= Len(u)  BY <1>1, <1>4, <2>1
    <2>4. Len(u) <= Len(s)  BY <1>1, <1>4, <2>2
    <2>5. Len(s) \in Nat /\ Len(u) \in Nat  BY <1>1
    <2> QED BY <2>3, <2>4, <2>5
  <1>6. \A n \in 1 .. Len(s) : s[n] = u[n]
    <2>1. \A n \in 1 .. Len(s) : n \in Nat  BY <1>1
    <2> QED BY <1>4, <2>1
  <1> DEFINE k == Len(s)
  <1>7. s = [n \in 1 .. k |-> s[n]] /\ u = [n \in 1 .. k |-> u[n]]
    BY <1>1, <1>5
  <1>8. \A n \in 1 .. k : s[n] = u[n]  BY <1>6
  <1> HIDE DEF k
  <1>9. [n \in 1 .. k |-> s[n]] = [n \in 1 .. k |-> u[n]]  BY <1>8
  <1> QED BY <1>7, <1>9

-----------------------------------------------------------------------------
(* A list with x put in behind its first n elements, and one with its n-th *)
(* element taken out.                                                      *)
PutIn(s, n, x) == SubSeq(s, 1, n) \o <<x>> \o SubSeq(s, n + 1, Len(s))
TakenOut(s, n) == SubSeq(s, 1, n - 1) \o SubSeq(s, n + 1, Len(s))

LEMMA PutInIs ==
  ASSUME NEW S, NEW s \in Seq(S), NEW n \in 0 .. Len(s), NEW x \in S
  PROVE  /\ PutIn(s, n, x) \in Seq(S) /\ Len(PutIn(s, n, x)) = Len(s) + 1
         /\ \A j \in 1 .. Len(s) + 1 :
              PutIn(s, n, x)[j] = IF j <= n THEN s[j]
                                  ELSE IF j = n + 1 THEN x ELSE s[j - 1]
  <1> DEFINE a == SubSeq(s, 1, n)
             b == SubSeq(s, n + 1, Len(s))
             m == <<x>>
  <1>1. Len(s) \in Nat /\ \A j \in 1 .. Len(s) : s[j] \in S
    BY LenProperties, ElementOfSeq
  <1>2. a \in Seq(S) /\ Len(a) = n /\ \A j \in 1 .. n : a[j] = s[j]
    BY <1>1, SubSeqProperties
  <1>3. /\ b \in Seq(S) /\ Len(b) = Len(s) - n
        /\ \A j \in 1 .. Len(s) - n : b[j] = s[n + j]
    BY <1>1, SubSeqProperties
  <1>4. m \in Seq(S) /\ Len(m) = 1 /\ m[1] = x
    OBVIOUS
  <1> HIDE DEF a, b, m
  <1>5. /\ a \o m \in Seq(S) /\ Len(a \o m) = n + 1
        /\ \A j \in 1 .. n + 1 : (a \o m)[j] = IF j <= n THEN a[j] ELSE m[j - n]
    <2>1. /\ a \o m \in Seq(S) /\ Len(a \o m) = Len(a) + Len(m)
          /\ \A j \in 1 .. Len(a) + Len(m) :
               (a \o m)[j] = IF j <= Len(a) THEN a[j] ELSE m[j - Len(a)]
      BY <1>2, <1>4, ConcatProperties
    <2>2. Len(a) + Len(m) = n + 1 /\ Len(a) = n  BY <1>2, <1>4
    <2> HIDE DEF m
    <2> QED BY <2>1, <2>2
  <1> DEFINE c == a \o m
  <1> HIDE DEF c
  <1>6. /\ c \in Seq(S) /\ Len(c) = n + 1
        /\ \A j \in 1 .. n + 1 : c[j] = IF j <= n THEN s[j] ELSE x
    BY <1>1, <1>2, <1>4, <1>5 DEF c
  <1>7. /\ c \o b \in Seq(S) /\ Len(c \o b) = Len(c) + Len(b)
        /\ \A j \in 1 .. Len(c) + Len(b) :
             (c \o b)[j] = IF j <= Len(c) THEN c[j] ELSE b[j - Len(c)]
    BY <1>3, <1>6, ConcatProperties
  <1>8. PutIn(s, n, x) = c \o b  BY DEF PutIn, a, b, c, m
  <1>9. Len(c) + Len(b) = Len(s) + 1  BY <1>1, <1>3, <1>6
  <1>10. \A j \in 1 .. Len(s) + 1 : ~(j <= n + 1) => b[j - (n + 1)] = s[j - 1]
    BY <1>1, <1>3
  <1> QED BY <1>1, <1>6, <1>7, <1>8, <1>9, <1>10

LEMMA TakenOutIs ==
  ASSUME NEW S, NEW s \in Seq(S), NEW n \in 1 .. Len(s)
  PROVE  /\ TakenOut(s, n) \in Seq(S) /\ Len(TakenOut(s, n)) = Len(s) - 1
         /\ \A j \in 1 .. Len(s) - 1 :
              TakenOut(s, n)[j] = IF j < n THEN s[j] ELSE s[j + 1]
  <1> DEFINE a == SubSeq(s, 1, n - 1)
             b == SubSeq(s, n + 1, Len(s))
  <1>1. Len(s) \in Nat /\ \A j \in 1 .. Len(s) : s[j] \in S
    BY LenProperties, ElementOfSeq
  <1>2. a \in Seq(S) /\ Len(a) = n - 1 /\ \A j \in 1 .. n - 1 : a[j] = s[j]
    BY <1>1, SubSeqProperties
  <1>3. /\ b \in Seq(S) /\ Len(b) = Len(s) - n
        /\ \A j \in 1 .. Len(s) - n : b[j] = s[n + j]
    BY <1>1, SubSeqProperties
  <1> HIDE DEF a, b
  <1>7. /\ a \o b \in Seq(S) /\ Len(a \o b) = Len(a) + Len(b)
        /\ \A j \in 1 .. Len(a) + Len(b) :
             (a \o b)[j] = IF j <= Len(a) THEN a[j] ELSE b[j - Len(a)]
    BY <1>2, <1>3, ConcatProperties
  <1>8. TakenOut(s, n) = a \o b  BY DEF TakenOut, a, b
  <1>9. Len(a) + Len(b) = Len(s) - 1  BY <1>1, <1>2, <1>3
  <1>10. ASSUME NEW j \in 1 .. Len(s) - 1
         PROVE  (a \o b)[j] = IF j < n THEN s[j] ELSE s[j + 1]
    <2>1. j \in 1 .. Len(a) + Len(b)  BY <1>9
    <2>2. CASE j < n
      <3>1. j \in 1 .. n - 1 /\ j <= Len(a)  BY <1>1, <1>2, <2>2
      <3> QED BY <1>2, <1>7, <2>1, <2>2, <3>1
    <2>3. CASE ~(j < n)
      <3> DEFINE y == j - (n - 1)
      <3>1. /\ ~(j <= Len(a)) /\ j - Len(a) = y /\ y \in 1 .. Len(s) - n
            /\ n + y = j + 1
        BY <1>1, <1>2, <2>3
      <3> HIDE DEF y
      <3> QED BY <1>3, <1>7, <2>1, <2>3, <3>1
    <2> QED BY <2>2, <2>3
  <1> QED BY <1>7, <1>8, <1>9, <1>10

(* What is put in a list is all that it gains.                             *)
LEMMA PutInMeets ==
  ASSUME NEW S, NEW s \in Seq(S), NEW n \in 0 .. Len(s), NEW x \in S
  PROVE  Met(PutIn(s, n, x)) = Met(s) \cup {x}
  <1> DEFINE u == PutIn(s, n, x)
  <1>1. Len(s) \in Nat  BY LenProperties
  <1>2. /\ Len(u) = Len(s) + 1
        /\ \A j \in 1 .. Len(s) + 1 : u[j] = IF j <= n THEN s[j]
                                             ELSE IF j = n + 1 THEN x ELSE s[j - 1]
    BY PutInIs
  <1> HIDE DEF u
  <1>3. Met(u) \subseteq Met(s) \cup {x}
    <2> SUFFICES ASSUME NEW j \in 1 .. Len(s) + 1, u[j] # x
                 PROVE  \E m \in 1 .. Len(s) : u[j] = s[m]
      BY <1>2 DEF Met
    <2>1. CASE j <= n
      BY <1>1, <1>2, <2>1
    <2>2. CASE ~(j <= n)
      <3>1. j - 1 \in 1 .. Len(s) /\ u[j] = s[j - 1]
        BY <1>1, <1>2, <2>2
      <3> QED BY <3>1
    <2> QED BY <2>1, <2>2
  <1>4. x \in Met(u)
    <2>1. n + 1 \in 1 .. Len(s) + 1 /\ u[n + 1] = x  BY <1>1, <1>2
    <2> QED BY <1>2, <2>1 DEF Met
  <1>5. ASSUME NEW m \in 1 .. Len(s) PROVE s[m] \in Met(u)
    <2>1. CASE m <= n
      <3>1. m \in 1 .. Len(s) + 1 /\ u[m] = s[m]  BY <1>1, <1>2, <2>1
      <3> QED BY <1>2, <3>1 DEF Met
    <2>2. CASE ~(m <= n)
      <3>1. m + 1 \in 1 .. Len(s) + 1 /\ u[m + 1] = s[m]
        BY <1>1, <1>2, <2>2
      <3> QED BY <1>2, <3>1 DEF Met
    <2> QED BY <2>1, <2>2
  <1> QED BY <1>3, <1>4, <1>5 DEF Met, u

LEMMA HeadIs ==
  ASSUME NEW S, NEW s \in Seq(S), s # <<>>
  PROVE  Head(s) = s[1]
  OBVIOUS

(* The list of a queue, followed backwards, and its end.                   *)
LEMMA ListedBack ==
  ASSUME NEW l \in Links, NEW w \in Places, LinkedAs(l, w), Ranked(l),
         NEW q \in Queue, NEW s, Listed(l, q, s)
  PROVE  /\ Len(s) \in Nat
         /\ \A n \in 1 .. Len(s) :
              /\ s[n] \in Thread /\ w[s[n]] = q
              /\ l.prev[s[n]] = IF n = 1 THEN None ELSE s[n - 1]
         /\ l.tail[q] = IF s = <<>> THEN None ELSE s[Len(s)]
  <1>1. Len(s) \in Nat /\ \A n \in 1 .. Len(s) : s[n] \in Thread
    BY LenProperties, ElementOfSeq DEF Listed
  <1>2. \A n \in 1 .. Len(s) : w[s[n]] = q
    <2>1. Met(s) = InQueue(w, q)  BY ListedHolds
    <2> QED BY <2>1 DEF Met, InQueue
  <1>3. \A n \in 1 .. Len(s) : n # 1 => l.prev[s[n]] = s[n - 1]
    <2> SUFFICES ASSUME NEW n \in 1 .. Len(s), n # 1 PROVE l.prev[s[n]] = s[n - 1]
      OBVIOUS
    <2>1. n - 1 \in 1 .. Len(s) /\ n - 1 # Len(s) /\ (n - 1) + 1 = n
      BY <1>1
    <2>2. l.next[s[n - 1]] = s[n]  BY <2>1 DEF Listed
    <2>3. s[n - 1] \in Thread /\ s[n] # None  BY <1>1, <2>1, NoneIsNoThread
    <2> QED BY <2>2, <2>3 DEF LinkedAs
  <1>4. Len(s) # 0 => s # <<>>  OBVIOUS
  <1>5. \A n \in 1 .. Len(s) : n = 1 => l.prev[s[n]] = None
    <2> SUFFICES ASSUME 1 \in 1 .. Len(s) PROVE l.prev[s[1]] = None
      OBVIOUS
    <2>1. l.head[q] = s[1] /\ s[1] \in Thread  BY <1>1, <1>4 DEF Listed
    <2> QED BY <2>1, NoneIsNoThread DEF LinkedAs
  <1>6. s = <<>> => l.tail[q] = None
    BY DEF Listed, LinkedAs
  <1>7. s # <<>> => l.tail[q] = s[Len(s)]
    <2> SUFFICES ASSUME s # <<>> PROVE l.tail[q] = s[Len(s)]  OBVIOUS
    <2>1. Len(s) \in 1 .. Len(s)  BY <1>1, EmptySeq DEF Listed
    <2>2. l.next[s[Len(s)]] = None  BY <2>1 DEF Listed
    <2> QED BY <1>1, <1>2, <2>1, <2>2, NowhereIsNoQueue DEF LinkedAs
  <1> QED BY <1>1, <1>2, <1>3, <1>5, <1>6, <1>7

(* What unlink, enqueue and the insertion of enqueueByPriority make of the *)
(* list of the queue they are given.                                       *)
LEMMA UnlinkListed ==
  ASSUME NEW l \in Links, NEW w \in Places, LinkedAs(l, w), Ranked(l),
         NEW q \in Queue, NEW s, Listed(l, q, s), NEW n \in 1 .. Len(s)
  PROVE  Listed(Unlink(l, q, s[n]), q, TakenOut(s, n))
  <1> DEFINE u == TakenOut(s, n)
             m == Unlink(l, q, s[n])
  <1>1. s \in Seq(Thread)  BY DEF Listed
  <1>2. /\ u \in Seq(Thread) /\ Len(u) = Len(s) - 1
        /\ \A j \in 1 .. Len(s) - 1 : u[j] = IF j < n THEN s[j] ELSE s[j + 1]
    BY <1>1, TakenOutIs
  <1>3. /\ Len(s) \in Nat
        /\ \A j \in 1 .. Len(s) :
              /\ s[j] \in Thread /\ s[j] # None
              /\ l.prev[s[j]] = IF j = 1 THEN None ELSE s[j - 1]
              /\ l.next[s[j]] = IF j = Len(s) THEN None ELSE s[j + 1]
    BY ListedBack, NoneIsNoThread DEF Listed
  <1>4. \A j, k \in 1 .. Len(s) : s[j] = s[k] => j = k
    BY ListedHolds
  <1>5. /\ \A t \in Thread :
             m.next[t] = IF t = s[n] THEN None
                         ELSE IF t = l.prev[s[n]] THEN l.next[s[n]] ELSE l.next[t]
        /\ m.head[q] = IF l.prev[s[n]] = None THEN l.next[s[n]] ELSE l.head[q]
    BY <1>3 DEF Unlink, Links
  <1>6. l.head[q] = s[1]
    BY <1>3, EmptySeq DEF Listed
  <1> HIDE DEF u, m
  <1>7. u = <<>> <=> Len(s) = 1
    BY <1>2, <1>3, EmptySeq
  <1>8. m.head[q] = IF u = <<>> THEN None ELSE u[1]
    <2>1. CASE n = 1
      <3>a. l.prev[s[n]] = None /\ l.next[s[n]] = IF n = Len(s) THEN None ELSE s[n + 1]
        BY <2>1, <1>3
      <3>1. m.head[q] = IF 1 = Len(s) THEN None ELSE s[2]
        BY <2>1, <3>a, <1>5
      <3> QED BY <2>1, <3>1, <1>2, <1>3, <1>7
    <2>2. CASE n # 1
      <3>1. m.head[q] = s[1]  BY <2>2, <1>3, <1>5, <1>6
      <3>2. u[1] = s[1] /\ Len(s) # 1  BY <2>2, <1>2, <1>3
      <3> QED BY <3>1, <3>2, <1>7
    <2> QED BY <2>1, <2>2
  <1>9. ASSUME NEW j \in 1 .. Len(u)
        PROVE  m.next[u[j]] = IF j = Len(u) THEN None ELSE u[j + 1]
    <2>1. CASE j < n - 1
      <3>1. u[j] = s[j] /\ u[j + 1] = s[j + 1] /\ j # Len(u)
        BY <2>1, <1>2, <1>3, <1>9
      <3>2. s[j] # s[n] /\ (n # 1 => s[j] # s[n - 1]) /\ n # 1
        BY <2>1, <1>2, <1>3, <1>4, <1>9
      <3>3. l.next[s[j]] = s[j + 1] /\ s[j] \in Thread
        BY <2>1, <1>2, <1>3, <1>9
      <3>4. l.prev[s[n]] = s[n - 1]  BY <3>2, <1>3
      <3> QED BY <3>1, <3>2, <3>3, <3>4, <1>5
    <2>2. CASE j = n - 1
      <3>1. u[j] = s[n - 1] /\ n # 1 /\ n - 1 \in 1 .. Len(s)
        BY <2>2, <1>2, <1>3, <1>9
      <3>2. s[n - 1] # s[n] /\ s[n - 1] \in Thread
        BY <3>1, <1>3, <1>4
      <3>3. m.next[u[j]] = IF n = Len(s) THEN None ELSE s[n + 1]
        BY <3>1, <3>2, <1>3, <1>5
      <3>4. (j = Len(u)) <=> (n = Len(s))  BY <2>2, <1>2, <1>3
      <3>5. n # Len(s) => u[j + 1] = s[n + 1]
        BY <2>2, <1>2, <1>3
      <3> QED BY <3>3, <3>4, <3>5
    <2>3. CASE j >= n
      <3>1. u[j] = s[j + 1] /\ j + 1 \in 1 .. Len(s) /\ s[j + 1] \in Thread
        BY <2>3, <1>2, <1>3, <1>9
      <3>2. s[j + 1] # s[n] /\ (n # 1 => s[j + 1] # s[n - 1])
        <4>1. j + 1 # n /\ (n # 1 => n - 1 \in 1 .. Len(s) /\ j + 1 # n - 1)
          BY <2>3, <1>3
        <4> QED BY <3>1, <4>1, <1>4
      <3>3. m.next[s[j + 1]] = l.next[s[j + 1]]
        BY <3>1, <3>2, <1>3, <1>5, NoneIsNoThread
      <3>4. l.next[s[j + 1]] = IF j + 1 = Len(s) THEN None ELSE s[(j + 1) + 1]
        BY <3>1, <1>3
      <3>5. (j = Len(u)) <=> (j + 1 = Len(s))  BY <1>2, <1>3
      <3>6. j # Len(u) => u[j + 1] = s[(j + 1) + 1]
        BY <2>3, <1>2, <1>3, <1>9
      <3> QED BY <3>1, <3>3, <3>4, <3>5, <3>6
    <2>4. j < n - 1 \/ j = n - 1 \/ j >= n  BY <1>2, <1>3, <1>9
    <2> QED BY <2>1, <2>2, <2>3, <2>4
  <1> QED BY <1>2, <1>8, <1>9 DEF Listed, u, m

LEMMA EnqueueListed ==
  ASSUME NEW l \in Links, NEW w \in Places, LinkedAs(l, w), Ranked(l),
         NEW q \in Queue, NEW s, Listed(l, q, s), NEW i \in Thread, w[i] = Nowhere
  PROVE  Listed(Enqueue(l, q, i), q, PutIn(s, Len(s), i))
  <1> DEFINE u == PutIn(s, Len(s), i)
             m == Enqueue(l, q, i)
  <1>1. s \in Seq(Thread) /\ Len(s) \in 0 .. Len(s)
    BY LenProperties DEF Listed
  <1>2. /\ u \in Seq(Thread) /\ Len(u) = Len(s) + 1
        /\ \A j \in 1 .. Len(s) + 1 : u[j] = IF j <= Len(s) THEN s[j]
                                             ELSE IF j = Len(s) + 1 THEN i ELSE s[j - 1]
    <2>1. ASSUME NEW n \in 0 .. Len(s)
          PROVE  /\ PutIn(s, n, i) \in Seq(Thread) /\ Len(PutIn(s, n, i)) = Len(s) + 1
                 /\ \A j \in 1 .. Len(s) + 1 :
                      PutIn(s, n, i)[j] = IF j <= n THEN s[j]
                                          ELSE IF j = n + 1 THEN i ELSE s[j - 1]
      BY <1>1, PutInIs
    <2> QED BY <1>1, <2>1
  <1>3. /\ Len(s) \in Nat
        /\ \A j \in 1 .. Len(s) :
              /\ s[j] \in Thread /\ s[j] # None /\ s[j] # i
              /\ l.next[s[j]] = IF j = Len(s) THEN None ELSE s[j + 1]
        /\ l.tail[q] = IF s = <<>> THEN None ELSE s[Len(s)]
    BY ListedBack, NoneIsNoThread, NowhereIsNoQueue DEF Listed
  <1>4. \A j, k \in 1 .. Len(s) : s[j] = s[k] => j = k
    BY ListedHolds
  <1>5. /\ \A t \in Thread : m.next[t] = IF t = l.tail[q] THEN i
                                         ELSE IF t = i THEN None ELSE l.next[t]
        /\ m.head[q] = IF l.tail[q] = None THEN i ELSE l.head[q]
    BY DEF Enqueue, Links
  <1>6. (s = <<>> <=> Len(s) = 0) /\ l.head[q] = IF s = <<>> THEN None ELSE s[1]
    BY <1>1, EmptySeq DEF Listed
  <1> HIDE DEF u, m
  <1>7. u # <<>>  BY <1>2, <1>3, EmptySeq
  <1>8. m.head[q] = u[1]
    <2>1. CASE Len(s) = 0
      BY <2>1, <1>2, <1>3, <1>5, <1>6
    <2>2. CASE Len(s) # 0
      <3>1. l.tail[q] = s[Len(s)] /\ l.tail[q] # None
        BY <2>2, <1>3, <1>6
      <3> QED BY <3>1, <2>2, <1>2, <1>3, <1>5, <1>6
    <2> QED BY <2>1, <2>2
  <1>9. ASSUME NEW j \in 1 .. Len(u)
        PROVE  m.next[u[j]] = IF j = Len(u) THEN None ELSE u[j + 1]
    <2>1. CASE j = Len(u)
      <3>1. u[j] = i  BY <2>1, <1>2, <1>3
      <3>2. i # l.tail[q]
        BY <1>3, <1>6, NoneIsNoThread
      <3> QED BY <2>1, <3>1, <3>2, <1>5
    <2>2. CASE j = Len(s)
      <3>1. u[j] = s[j] /\ u[j + 1] = i /\ j # Len(u) /\ j \in 1 .. Len(s)
        BY <2>2, <1>2, <1>3, <1>9
      <3>2. l.tail[q] = s[j]  BY <2>2, <3>1, <1>3, <1>6
      <3> QED BY <3>1, <3>2, <1>3, <1>5
    <2>3. CASE j < Len(s)
      <3>1. /\ u[j] = s[j] /\ u[j + 1] = s[j + 1] /\ j # Len(u)
            /\ j \in 1 .. Len(s) /\ Len(s) \in 1 .. Len(s) /\ j # Len(s)
        BY <2>3, <1>2, <1>3, <1>9
      <3>2. s[j] # l.tail[q]
        BY <3>1, <1>3, <1>4, <1>6
      <3> QED BY <3>1, <3>2, <1>3, <1>5
    <2> QED BY <2>1, <2>2, <2>3, <1>2, <1>3, <1>9
  <1> QED BY <1>2, <1>7, <1>8, <1>9 DEF Listed, u, m

LEMMA InsertBeforeListed ==
  ASSUME NEW l \in Links, NEW w \in Places, LinkedAs(l, w), Ranked(l),
         NEW q \in Queue, NEW s, Listed(l, q, s), NEW i \in Thread, w[i] = Nowhere,
         NEW n \in 1 .. Len(s)
  PROVE  Listed(InsertBefore(l, q, s[n], i), q, PutIn(s, n - 1, i))
  <1> DEFINE u == PutIn(s, n - 1, i)
             m == InsertBefore(l, q, s[n], i)
  <1>1. s \in Seq(Thread) /\ n - 1 \in 0 .. Len(s)
    BY LenProperties DEF Listed
  <1>2. /\ u \in Seq(Thread) /\ Len(u) = Len(s) + 1
        /\ \A j \in 1 .. Len(s) + 1 : u[j] = IF j <= n - 1 THEN s[j]
                                             ELSE IF j = (n - 1) + 1 THEN i ELSE s[j - 1]
    <2>1. ASSUME NEW k \in 0 .. Len(s)
          PROVE  /\ PutIn(s, k, i) \in Seq(Thread) /\ Len(PutIn(s, k, i)) = Len(s) + 1
                 /\ \A j \in 1 .. Len(s) + 1 :
                      PutIn(s, k, i)[j] = IF j <= k THEN s[j]
                                          ELSE IF j = k + 1 THEN i ELSE s[j - 1]
      BY <1>1, PutInIs
    <2> QED BY <1>1, <2>1
  <1>3. /\ Len(s) \in Nat
        /\ \A j \in 1 .. Len(s) :
              /\ s[j] \in Thread /\ s[j] # None /\ s[j] # i
              /\ l.prev[s[j]] = IF j = 1 THEN None ELSE s[j - 1]
              /\ l.next[s[j]] = IF j = Len(s) THEN None ELSE s[j + 1]
    <2>1. /\ Len(s) \in Nat
          /\ \A j \in 1 .. Len(s) :
              /\ s[j] \in Thread /\ w[s[j]] = q
              /\ l.prev[s[j]] = IF j = 1 THEN None ELSE s[j - 1]
      BY ListedBack
    <2>2. \A j \in 1 .. Len(s) : l.next[s[j]] = IF j = Len(s) THEN None ELSE s[j + 1]
      BY DEF Listed
    <2> QED BY <2>1, <2>2, NoneIsNoThread, NowhereIsNoQueue
  <1>4. \A j, k \in 1 .. Len(s) : s[j] = s[k] => j = k
    BY ListedHolds
  <1>5. /\ \A t \in Thread : m.next[t] = IF t = l.prev[s[n]] THEN i
                                         ELSE IF t = i THEN s[n] ELSE l.next[t]
        /\ m.head[q] = IF l.prev[s[n]] = None THEN i ELSE l.head[q]
    BY DEF InsertBefore, Links
  <1>6. l.head[q] = s[1]
    BY <1>1, <1>3, EmptySeq DEF Listed
  <1> HIDE DEF u, m
  <1>7. u # <<>>  BY <1>2, <1>3, EmptySeq
  <1>8. m.head[q] = u[1]
    <2>1. CASE n = 1
      BY <2>1, <1>2, <1>3, <1>5
    <2>2. CASE n # 1
      <3>1. l.prev[s[n]] = s[n - 1] /\ l.prev[s[n]] # None
        BY <2>2, <1>3
      <3>2. u[1] = s[1]  BY <2>2, <1>2, <1>3
      <3> QED BY <3>1, <3>2, <1>5, <1>6
    <2> QED BY <2>1, <2>2
  <1>9. ASSUME NEW j \in 1 .. Len(u)
        PROVE  m.next[u[j]] = IF j = Len(u) THEN None ELSE u[j + 1]
    <2>1. CASE j = n
      <3>1. u[j] = i /\ u[j + 1] = s[n] /\ j # Len(u)
        BY <2>1, <1>2, <1>3
      <3>2. i # l.prev[s[n]]
        <4>1. n = 1 => l.prev[s[n]] = None  BY <1>3
        <4>2. n # 1 => n - 1 \in 1 .. Len(s) /\ l.prev[s[n]] = s[n - 1]
          BY <1>3
        <4> QED BY <4>1, <4>2, <1>3, NoneIsNoThread
      <3> QED BY <3>1, <3>2, <1>5
    <2>2. CASE j = n - 1
      <3>1. u[j] = s[j] /\ u[j + 1] = i /\ j # Len(u) /\ n # 1
        BY <2>2, <1>2, <1>3, <1>9
      <3>2. l.prev[s[n]] = s[j] /\ s[j] \in Thread  BY <2>2, <3>1, <1>3
      <3> QED BY <3>1, <3>2, <1>5
    <2>3. CASE j < n - 1
      <3>1. /\ u[j] = s[j] /\ u[j + 1] = s[j + 1] /\ j # Len(u) /\ n # 1
            /\ j \in 1 .. Len(s) /\ n - 1 \in 1 .. Len(s) /\ j # n - 1 /\ j # Len(s)
        <4>1. /\ j \in Nat /\ j >= 1 /\ n \in Nat /\ n >= 1 /\ n <= Len(s)
              /\ j < n - 1 /\ Len(s) \in Nat /\ Len(u) = Len(s) + 1
          BY <2>3, <1>2, <1>3, <1>9
        <4>2. /\ j # Len(u) /\ n # 1 /\ j \in 1 .. Len(s) /\ n - 1 \in 1 .. Len(s)
              /\ j # n - 1 /\ j # Len(s) /\ j <= n - 1 /\ j + 1 <= n - 1
              /\ j \in 1 .. Len(s) + 1 /\ j + 1 \in 1 .. Len(s) + 1
          BY <4>1
        <4> QED BY <4>2, <1>2
      <3>2. s[j] # l.prev[s[n]]
        BY <3>1, <1>3, <1>4
      <3>3. l.next[s[j]] = s[j + 1] /\ s[j] \in Thread /\ s[j] # i
        BY <3>1, <1>3
      <3> QED BY <3>1, <3>2, <3>3, <1>5
    <2>4. CASE j > n
      <3>1. j # Len(u) => u[j + 1] = s[j]
        <4>1. ASSUME j # Len(u)
              PROVE  j + 1 \in 1 .. Len(s) + 1 /\ j + 1 > n /\ (j + 1) - 1 = j
          BY <4>1, <2>4, <1>2, <1>3, <1>9
        <4> QED BY <4>1, <2>4, <1>2, <1>9
      <3>2. u[j] = s[j - 1] /\ j - 1 \in 1 .. Len(s)
        BY <2>4, <1>2, <1>3, <1>9
      <3>3. n # 1 => n - 1 \in 1 .. Len(s) /\ j - 1 # n - 1
        BY <2>4, <1>3
      <3>4. s[j - 1] # l.prev[s[n]] /\ s[j - 1] # i
        BY <3>2, <3>3, <1>3, <1>4
      <3>5. m.next[u[j]] = IF j - 1 = Len(s) THEN None ELSE s[(j - 1) + 1]
        <4>1. \A y \in 1 .. Len(s) : s[y] # l.prev[s[n]] /\ s[y] # i =>
                m.next[s[y]] = IF y = Len(s) THEN None ELSE s[y + 1]
          BY <1>3, <1>5
        <4> DEFINE y == j - 1
        <4> HIDE DEF y
        <4>2. /\ y \in 1 .. Len(s) /\ u[j] = s[y] /\ s[y] # l.prev[s[n]] /\ s[y] # i
          BY <3>2, <3>4 DEF y
        <4>3. m.next[u[j]] = IF y = Len(s) THEN None ELSE s[y + 1]
          BY <4>1, <4>2
        <4> QED BY <4>3 DEF y
      <3>6. (j - 1 = Len(s)) <=> (j = Len(u))  BY <1>2, <1>3, <1>9
      <3> QED BY <3>1, <3>2, <3>5, <3>6
    <2> QED BY <2>1, <2>2, <2>3, <2>4, <1>2, <1>3, <1>9
  <1> QED BY <1>2, <1>7, <1>8, <1>9 DEF Listed, u, m

(* enqueueByPriority puts the thread somewhere in the list.                *)
LEMMA EnqueueByPriorityListed ==
  ASSUME NEW l \in Links, NEW w \in Places, LinkedAs(l, w), Ranked(l),
         NEW p \in [Thread -> Priority],
         NEW q \in Queue, NEW s, Listed(l, q, s), NEW i \in Thread, w[i] = Nowhere
  PROVE  \E n \in 0 .. Len(s) :
            Listed(EnqueueByPriority(l, p, q, i), q, PutIn(s, n, i))
  <1> DEFINE at == FirstWorse(l, p, q, i)
  <1>1. Len(s) \in Nat  BY LenProperties DEF Listed
  <1>2. CASE at \in Thread
    <2>1. w[at] = q  BY <1>2, FirstWorseThere
    <2>2. Met(s) = InQueue(w, q)  BY ListedHolds
    <2>3. PICK n \in 1 .. Len(s) : s[n] = at
      BY <1>2, <2>1, <2>2 DEF Met, InQueue
    <2>4. Listed(InsertBefore(l, q, at, i), q, PutIn(s, n - 1, i))
      BY <2>3, InsertBeforeListed
    <2>5. n - 1 \in 0 .. Len(s)  BY <1>1
    <2> QED BY <1>2, <2>4, <2>5 DEF EnqueueByPriority
  <1>3. CASE at \notin Thread
    <2>1. Listed(Enqueue(l, q, i), q, PutIn(s, Len(s), i))
      BY EnqueueListed
    <2>2. Len(s) \in 0 .. Len(s)  BY <1>1
    <2> QED BY <1>3, <2>1, <2>2 DEF EnqueueByPriority
  <1> QED BY <1>2, <1>3

-----------------------------------------------------------------------------
(* No index from outside the threads M of queue q leads to one of them.    *)
Secluded(l, q, M) ==
    /\ l \in Links /\ M \subseteq Thread
    /\ \A t \in Thread \ M : l.next[t] \notin M /\ l.prev[t] \notin M
    /\ \A p \in Queue \ {q} : l.head[p] \notin M /\ l.tail[p] \notin M

(* The part of l that queue q, of the threads M, consists of is m's too.   *)
KeepsList(l, m, q, M) ==
    /\ Secluded(m, q, M)
    /\ m.head[q] = l.head[q] /\ \A t \in M : m.next[t] = l.next[t]

LEMMA LinkedSecluded ==
  ASSUME NEW l \in Links, NEW w \in Places, LinkedAs(l, w), NEW q \in Queue
  PROVE  Secluded(l, q, InQueue(w, q))
  BY NoneIsNoThread DEF Secluded, InQueue, LinkedAs, Links, Index

(* What is done to other queues and their threads keeps a queue's list.    *)
LEMMA OthersKeepList ==
  ASSUME NEW l, NEW q \in Queue, NEW M, Secluded(l, q, M), NEW p \in Queue \ {q},
         NEW i \in Thread \ M
  PROVE  /\ KeepsList(l, Enqueue(l, p, i), q, M)
         /\ KeepsList(l, EnqueueFirst(l, p, i), q, M)
         /\ KeepsList(l, Unlink(l, p, i), q, M)
         /\ \A at \in Thread \ M : KeepsList(l, InsertBefore(l, p, at, i), q, M)
  <1>0. l \in Links /\ M \subseteq Thread /\ None \notin M
    BY NoneIsNoThread DEF Secluded
  <1>1. KeepsList(l, Enqueue(l, p, i), q, M)
    BY <1>0, EnqueueType DEF KeepsList, Secluded, Enqueue, Links
  <1>2. KeepsList(l, EnqueueFirst(l, p, i), q, M)
    BY <1>0, EnqueueFirstType DEF KeepsList, Secluded, EnqueueFirst, Links
  <1>3. KeepsList(l, Unlink(l, p, i), q, M)
    BY <1>0, UnlinkType DEF KeepsList, Secluded, Unlink, Links
  <1>4. ASSUME NEW at \in Thread \ M
        PROVE  KeepsList(l, InsertBefore(l, p, at, i), q, M)
    BY <1>0 DEF KeepsList, Secluded, InsertBefore, Links, Index
  <1> QED BY <1>1, <1>2, <1>3, <1>4

LEMMA PopOtherKeepsList ==
  ASSUME NEW l, NEW q \in Queue, NEW M, Secluded(l, q, M), NEW p \in Queue \ {q}
  PROVE  KeepsList(l, PopFront(l, p), q, M)
  <1>1. CASE l.head[p] = None
    BY <1>1 DEF PopFront, KeepsList
  <1>2. CASE l.head[p] # None
    <2>1. l.head[p] \in Thread \ M
      BY <1>2 DEF Secluded, Links, Index
    <2> QED BY <1>2, <2>1, OthersKeepList DEF PopFront
  <1> QED BY <1>1, <1>2

LEMMA KeepsListTwice ==
  ASSUME NEW k, NEW l, NEW m, NEW q, NEW M, KeepsList(k, l, q, M), KeepsList(l, m, q, M)
  PROVE  KeepsList(k, m, q, M)
  BY DEF KeepsList

LEMMA KeptListed ==
  ASSUME NEW l, NEW m, NEW q, NEW M, KeepsList(l, m, q, M),
         NEW s, Listed(l, q, s), Met(s) \subseteq M
  PROVE  Listed(m, q, s)
  BY DEF KeepsList, Listed, Met
=============================================================================
