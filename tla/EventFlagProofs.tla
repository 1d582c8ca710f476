--------------------------- MODULE EventFlagProofs ---------------------------
(***************************************************************************)
(* Theorems about THREADMAN's event flags.                                 *)
(*                                                                         *)
(* The argument.  A set call's walk is the one thing in progress while it  *)
(* lasts: in an interrupt a wake only stages, and in a thread it switches  *)
(* away only at the last waiter.  So what lies ahead of the walk is the    *)
(* rest of the flag's list, from the thread it is at to the tail, and the  *)
(* waiters that are not ahead are unsatisfied.  That a wake leaves the     *)
(* rest of the list as it was is what the first part shows.                *)
(***************************************************************************)
EXTENDS EventFlag, SchedulerProofs

-----------------------------------------------------------------------------
(* The order of a list.  An operator on one queue leaves the neighbours of *)
(* the threads of the others as they were.                                 *)
SameNeighbours(l, m, x) == m.next[x] = l.next[x] /\ m.prev[x] = l.prev[x]

LEMMA EnqueueApart ==
  ASSUME NEW l \in Links, NEW w \in Places, LinkedAs(l, w), NEW q \in Queue,
         NEW i \in Thread, NEW x \in Thread, x # i, w[x] # q
  PROVE  /\ SameNeighbours(l, Enqueue(l, q, i), x)
         /\ SameNeighbours(l, EnqueueFirst(l, q, i), x)
  BY NoneIsNoThread
  DEF SameNeighbours, Enqueue, EnqueueFirst, LinkedAs, Links, Index, Places

LEMMA UnlinkApart ==
  ASSUME NEW l \in Links, NEW w \in Places, LinkedAs(l, w), NEW q \in Queue,
         NEW i \in Thread, NEW x \in Thread, w[x] # w[i]
  PROVE  SameNeighbours(l, Unlink(l, q, i), x)
  BY NoneIsNoThread
  DEF SameNeighbours, Unlink, LinkedAs, Links, Index, Places

(* A thread goes from queue p to another ready queue.                      *)
LEMMA PassOverApart ==
  ASSUME NEW l \in Links, NEW w \in Places, LinkedAs(l, w),
         NEW c \in Thread, w[c] = Nowhere, NEW q \in Queue,
         NEW i \in Thread, i # c, NEW p \in Queue, w[i] = p,
         NEW x \in Thread, x # c, x # i, w[x] # q, w[x] # p,
         NEW m \in {Enqueue(l, q, c), EnqueueFirst(l, q, c)}
  PROVE  SameNeighbours(l, Unlink(m, p, i), x)
  <1> DEFINE v == [w EXCEPT ![c] = q]
  <1>1. SameNeighbours(l, m, x)  BY EnqueueApart
  <1>2. m \in Links /\ LinkedAs(m, v)
    BY EnqueueType, EnqueueFirstType, EnqueueLinked, EnqueueFirstLinked
  <1>3. v \in Places /\ v[x] # v[i]  BY DEF Places
  <1> HIDE DEF v
  <1>4. SameNeighbours(m, Unlink(m, p, i), x)  BY <1>2, <1>3, UnlinkApart
  <1> QED BY <1>1, <1>4 DEF SameNeighbours

LEMMA SwitchLinks ==
  ASSUME NEW k \in KernelType, k.pending \in Thread, k.pending # k.current
  PROVE  SwitchNow(k).links = k.links
  <1> DEFINE a == [k EXCEPT !.answer[k.current] = "Ok"]
  <1>1. a.links = k.links /\ a.pending = k.pending /\ a.current = k.current
        /\ DOMAIN a = DOMAIN k
    BY DEF KernelType
  <1>2. SwitchNow(k) = Reschedule(a)  BY DEF SwitchNow
  <1> HIDE DEF a
  <1>3. Reschedule(a) = [a EXCEPT !.pending = k.pending, !.current = k.pending,
                                  !.state[k.pending] = "Run"]
    BY <1>1, NoneIsNoThread, Zenon DEF Reschedule, NewContext
  <1> QED BY <1>1, <1>2, <1>3 DEF KernelType

(* The tails of wake.                                                      *)
LEMMA HandOffApart ==
  ASSUME NEW k, Queues(k, PlaceOf(k)), Runs(k), k.pending = k.current,
         NEW i \in Thread, k.state[i] = "Ready",
         NEW x \in Thread, k.state[x] = "Wait", k.wait[x] \in Object
  PROVE  /\ SameNeighbours(k.links, HandOffIfBetter(k, i).links, x)
         /\ k.priority[i] >= k.priority[k.current]
              => HandOffIfBetter(k, i).current = k.current
  <1> DEFINE c == k.current
             w == PlaceOf(k)
             q == k.priority[c]
             p == k.priority[i]
             l == Enqueue(k.links, q, c)
             r == HandOffIfBetter(k, i)
  <1>1. /\ k \in KernelType /\ c \in Thread /\ k.state[c] = "Run" /\ i # c
        /\ k.links \in Links /\ w \in Places /\ LinkedAs(k.links, w)
        /\ q \in Priority /\ p \in Priority /\ q \in Queue /\ p \in Queue
    BY QueueKinds DEF Queues, Runs, KernelType
  <1>2. CASE p >= q
    BY <1>2 DEF HandOffIfBetter, SameNeighbours
  <1>3. CASE ~(p >= q)
    <2>1. w[c] = Nowhere /\ w[i] = p /\ w[x] # q /\ w[x] # p /\ x # c /\ x # i
      BY <1>1, ObjectsApart DEF PlaceOf
    <2>2. SameNeighbours(k.links, Unlink(l, p, i), x)
      BY <1>1, <2>1, PassOverApart
    <2> DEFINE y == [k EXCEPT !.state[c] = "Ready", !.links = Enqueue(@, q, c),
                              !.readyBits = @ \cup {q}]
               m == [TakeOffReady(y, i) EXCEPT !.pending = i]
    <2>3. y.links = l /\ y.priority = k.priority /\ y.current = c
          /\ y \in KernelType
      <3>1. l \in Links  BY <1>1, EnqueueType
      <3>2. [k.state EXCEPT ![c] = "Ready"] \in [Thread -> State]
        BY <1>1, StateNames DEF KernelType
      <3>3. k.readyBits \cup {q} \subseteq Priority  BY <1>1 DEF KernelType
      <3>4. y = [k EXCEPT !.state[c] = "Ready", !.links = l,
                          !.readyBits = @ \cup {q}]
        OBVIOUS
      <3> HIDE DEF l, q
      <3> QED BY <1>1, <3>1, <3>2, <3>3, <3>4 DEF KernelType
    <2> HIDE DEF y
    <2>4. TakeOffReady(y, i) \in KernelType
      BY <2>3, TakeOffReadyType
    <2>5. /\ TakeOffReady(y, i).links = Unlink(l, p, i)
          /\ TakeOffReady(y, i).current = c
      BY <2>3 DEF TakeOffReady, Dequeued, KernelType
    <2>6. m \in KernelType /\ m.pending = i /\ m.current = c
          /\ m.links = Unlink(l, p, i)
      BY <2>4, <2>5 DEF KernelType, Index
    <2>7. r = SwitchNow(m)  BY <1>3 DEF HandOffIfBetter, y
    <2> HIDE DEF m, r
    <2>8. r.links = Unlink(l, p, i)
      BY <1>1, <2>6, <2>7, SwitchLinks
    <2> QED BY <1>3, <2>2, <2>8 DEF r
  <1> QED BY <1>2, <1>3

LEMMA StageApart ==
  ASSUME NEW k, Queues(k, PlaceOf(k)), Runs(k),
         NEW i \in Thread, k.state[i] = "Ready", i # k.current, i # k.pending,
         NEW x \in Thread, k.state[x] = "Wait", k.wait[x] \in Object
  PROVE  SameNeighbours(k.links, StageIfBetter(k, i).links, x)
  <1> DEFINE c == k.current
             h == k.pending
             w == PlaceOf(k)
             q == k.priority[h]
             p == k.priority[i]
             d == IF h \in {None, c} THEN MakeReadyFirst(k, c) ELSE MakeReady(k, h)
             r == StageIfBetter(k, i)
             better == /\ p < k.priority[c]
                       /\ h \in {None, c} \/ p < q
  <1>1. /\ k \in KernelType /\ c \in Thread /\ h \in Thread /\ h # None
        /\ k.links \in Links /\ w \in Places /\ LinkedAs(k.links, w)
        /\ q \in Priority /\ p \in Priority /\ q \in Queue /\ p \in Queue
    BY QueueKinds, NoneIsNoThread DEF Queues, Runs, KernelType
  <1>2. CASE ~better
    BY <1>2 DEF StageIfBetter, SameNeighbours
  <1>3. CASE better
    <2>1. w[h] = Nowhere /\ w[i] = p /\ w[x] # q /\ w[x] # p /\ x # h /\ x # i
      BY <1>1, ObjectsApart DEF PlaceOf, Runs
    <2>2. /\ d.links \in {Enqueue(k.links, q, h), EnqueueFirst(k.links, q, h)}
          /\ d.priority = k.priority /\ DOMAIN d = DOMAIN k
      BY <1>1 DEF MakeReady, MakeReadyFirst, Readied, KernelType
    <2>3. r = [TakeOffReady(d, i) EXCEPT !.pending = i]
      BY <1>3 DEF StageIfBetter
    <2> HIDE DEF d
    <2>4. r.links = Unlink(d.links, p, i)
      BY <1>1, <2>2, <2>3 DEF TakeOffReady, Dequeued, KernelType
    <2> HIDE DEF r
    <2>5. SameNeighbours(k.links, Unlink(d.links, p, i), x)
      <3> DEFINE m == d.links
      <3> HIDE DEF m
      <3>1. m \in {Enqueue(k.links, q, h), EnqueueFirst(k.links, q, h)}
        BY <2>2 DEF m
      <3>2. i # h  OBVIOUS
      <3> HIDE DEF q, p, h, w
      <3>3. SameNeighbours(k.links, Unlink(m, p, i), x)
        BY <1>1, <2>1, <3>1, <3>2, PassOverApart
      <3> QED BY <3>3 DEF m
    <2> QED BY <2>4, <2>5 DEF r
  <1> QED BY <1>2, <1>3

(* wake closes the list over the woken thread and leaves it otherwise as   *)
(* it was.  Outside interrupts it switches away only to a better thread.   *)
Closed(l, m, i, x) ==
    /\ m.next[x] = IF x = l.prev[i] THEN l.next[i] ELSE l.next[x]
    /\ m.prev[x] = IF x = l.next[i] THEN l.prev[i] ELSE l.prev[x]

LEMMA WakeApart ==
  ASSUME NEW k, Sound(k), NEW i \in Thread, k.state[i] = "Wait",
         NEW a \in Answer, NEW interrupt \in BOOLEAN,
         interrupt \/ k.pending = k.current,
         NEW x \in Thread, x # i, k.wait[x] \in Object
  PROVE  LET r == Wake(k, i, a, interrupt)
         IN  /\ Closed(k.links, r.links, i, x)
             /\ ~interrupt /\ k.priority[i] >= k.priority[k.current]
                  => r.current = k.current
  <1> DEFINE w == PlaceOf(k)
             e == LeaveWait(k, i)
             f == [e EXCEPT !.answer[i] = a]
             g == MakeReady(f, i)
             v == [w EXCEPT ![i] = Nowhere]
             u == [v EXCEPT ![i] = k.priority[i]]
             r == Wake(k, i, a, interrupt)
  <1>1. /\ k \in KernelType /\ w \in Places /\ i # k.pending /\ i # k.current
        /\ k.links \in Links /\ LinkedAs(k.links, w) /\ Queues(k, w)
        /\ Threads(k) /\ Runs(k)
    <2>1. Queues(k, w) /\ Threads(k) /\ Runs(k)  BY DEF Sound
    <2> HIDE DEF w
    <2> QED BY <2>1 DEF Queues, Runs, KernelType
  <1>2. w[i] = IF k.wait[i] \in k.inUse THEN k.wait[i] ELSE Nowhere
    BY <1>1 DEF PlaceOf, Threads, KernelType
  <1>3. k.state[x] = "Wait" /\ w[x] \in Object
    <2>1. k.state[x] = "Wait"  BY <1>1, ObjectsApart DEF Threads
    <2> QED BY <2>1 DEF PlaceOf
  <1>4. /\ Queues(e, v) /\ Quiet(k, e) /\ e.state = k.state
        /\ e.wait = [k.wait EXCEPT ![i] = "NotWaiting"]
        /\ e.delayed = IF k.wait[i] = "Delay" THEN k.delayed \ {i} ELSE k.delayed
        /\ e.current = k.current /\ e.pending = k.pending
    <2>1. Queues(k, w)  BY <1>1
    <2> HIDE DEF w
    <2> QED BY <1>2, <2>1, LeaveWaitQueues
  <1>5. Closed(k.links, e.links, i, x)
    <2> DEFINE left == [k EXCEPT !.wait[i] = "NotWaiting",
                                 !.delayed = IF k.wait[i] = "Delay" THEN @ \ {i} ELSE @]
    <2>1. CASE k.wait[i] \in k.inUse
      <3>1. e = [left EXCEPT !.links = Unlink(@, k.wait[i], i),
                             !.waiters[k.wait[i]] = @ - 1]
        BY <2>1 DEF LeaveWait
      <3>2. left.links = k.links /\ DOMAIN left = DOMAIN k
        BY <1>1 DEF KernelType
      <3> HIDE DEF left
      <3>3. e.links = Unlink(k.links, k.wait[i], i)
        BY <1>1, <3>1, <3>2 DEF KernelType
      <3> HIDE DEF e
      <3> QED BY <1>1, <3>3 DEF Unlink, Closed, Links
    <2>2. CASE k.wait[i] \notin k.inUse
      <3>1. e = left  BY <2>2 DEF LeaveWait
      <3>2. left.links = k.links  BY <1>1 DEF KernelType
      <3> HIDE DEF e, left
      <3>3. k.links.next[i] = None /\ k.links.prev[i] = None
        BY <1>1, <1>2, <2>2 DEF LinkedAs
      <3> QED BY <3>1, <3>2, <3>3, NoneIsNoThread DEF Closed
    <2> QED BY <2>1, <2>2
  <1> HIDE DEF e
  <1>6. /\ f \in KernelType /\ f.links = e.links /\ f.readyBits = e.readyBits
        /\ Still(e, f) /\ f.pending = e.pending
    <2>1. e \in KernelType  BY <1>4 DEF Queues
    <2>2. [e.answer EXCEPT ![i] = a] \in [Thread -> Answer]
      BY <2>1 DEF KernelType
    <2> QED BY <2>1, <2>2 DEF KernelType, Still, Quiet
  <1> HIDE DEF f
  <1>7. Queues(f, v)  BY <1>4, <1>6 DEF Queues
  <1>8. /\ Queues(g, [v EXCEPT ![i] = f.priority[i]]) /\ Quiet(f, g)
        /\ g.state = [f.state EXCEPT ![i] = "Ready"]
        /\ g.wait = [f.wait EXCEPT ![i] = "NotWaiting"]
        /\ g.current = f.current /\ g.pending = f.pending
    <2>1. v[i] = Nowhere  BY <1>1 DEF Places
    <2> HIDE DEF v
    <2>2. Readies(f, v, i, g)  BY <1>7, <2>1, MakeReadyQueues
    <2> HIDE DEF g
    <2> QED BY <2>2 DEF Readies
  <1>9. SameNeighbours(e.links, g.links, x)
    <2>1. g.links = Enqueue(f.links, f.priority[i], i)
      BY <1>6 DEF MakeReady, Readied, KernelType
    <2>2. /\ f.links \in Links /\ v \in Places /\ LinkedAs(f.links, v)
          /\ f.priority[i] \in Priority /\ f.priority[i] \in Queue
      BY <1>6, <1>7, QueueKinds DEF Queues, KernelType
    <2>3. v[x] = w[x]  BY <1>1 DEF Places
    <2>4. v[x] # f.priority[i]  BY <1>3, <2>2, <2>3, ObjectsApart
    <2> HIDE DEF v, g
    <2> QED BY <1>6, <2>1, <2>2, <2>4, EnqueueApart
  <1> HIDE DEF g, r, u, v
  <1>10. /\ Queues(g, u) /\ Quiet(k, g)
         /\ g.state = [k.state EXCEPT ![i] = "Ready"]
         /\ g.wait = [k.wait EXCEPT ![i] = "NotWaiting"]
         /\ g.current = k.current /\ g.pending = k.pending
    <2>1. [[k.wait EXCEPT ![i] = "NotWaiting"] EXCEPT ![i] = "NotWaiting"]
            = [k.wait EXCEPT ![i] = "NotWaiting"]
      BY <1>1 DEF KernelType
    <2> QED BY <1>4, <1>6, <1>8, <2>1 DEF Still, Quiet, u
  <1>11. PlaceOf(g) = u
    BY <1>1, <1>10 DEF PlaceOf, Quiet, KernelType, u, v
  <1>12. Runs(g)
    BY <1>1, <1>10 DEF Runs, KernelType
  <1>13. /\ g.state[i] = "Ready" /\ g.state[x] = "Wait" /\ g.wait[x] \in Object
         /\ i # g.current /\ i # g.pending
    BY <1>1, <1>3, <1>10 DEF KernelType
  <1>14. r = IF interrupt THEN StageIfBetter(g, i) ELSE HandOffIfBetter(g, i)
    BY DEF Wake, r, g, f, e
  <1>15. SameNeighbours(g.links, r.links, x)
    <2>1. CASE interrupt
      BY <1>10, <1>11, <1>12, <1>13, <1>14, <2>1, StageApart
    <2>2. CASE ~interrupt
      BY <1>10, <1>11, <1>12, <1>13, <1>14, <2>2, HandOffApart
    <2> QED BY <2>1, <2>2
  <1>16. ASSUME ~interrupt, k.priority[i] >= k.priority[k.current]
         PROVE  r.current = k.current
    BY <1>10, <1>11, <1>12, <1>13, <1>14, <1>16, HandOffApart DEF Quiet
  <1>17. Closed(k.links, r.links, i, x)
    BY <1>5, <1>9, <1>15 DEF SameNeighbours, Closed
  <1> QED BY <1>16, <1>17 DEF r

-----------------------------------------------------------------------------
Unmet(t) == wait[t] \in Object => ~Satisfied(flags[wait[t]], need[t])

(* A walk over flag e that is at thread a has the threads S still ahead:   *)
(* the flag's list from a on.  Nobody else waits for what is already       *)
(* there, and the caller of a plain call meets a better thread last.       *)
Ahead(S, e, a) ==
    /\ a \in S /\ \A t \in S : t \in Thread /\ wait[t] = e
    /\ \A t \in S : links.next[t] = None \/ links.next[t] \in S
    /\ \A t \in S \ {a} : links.prev[t] \in S
    /\ links.prev[a] \notin S
    /\ \A t \in Thread \ S : Unmet(t)
    /\ mode = "thread" =>
         \A t \in S : priority[t] < priority[current] => links.next[t] = None

(* The inductive invariant: the scheduler's, and at most one walk, which   *)
(* is that of whoever executes.                                            *)
FlagInv ==
    /\ Serving
    /\ flags \in [Object -> SUBSET Bit] /\ need \in [Thread -> Needs]
    /\ walk \in [Index -> Walk]
    /\ \A c \in Index : c # Running => walk[c] = NoWalk
    /\ Walking => /\ InEither
                  /\ \E S : Ahead(S, walk[Running].flag, walk[Running].at)
    /\ ~Walking => \A t \in Thread : Unmet(t)

LEMMA RunningTyped ==
  ASSUME Serving
  PROVE  Running \in Index /\ (mode = "thread" => Running = current)
  BY KernelTyped, KernelFields DEF Serving, Steady, Running, Index

(* No condition is met by a flag without bits, nor by fewer bits if not by *)
(* more.                                                                   *)
LEMMA NothingSatisfies ==
  ASSUME NEW n \in Needs
  PROVE  /\ ~Satisfied({}, n)
         /\ \A b, c : b \subseteq c /\ ~Satisfied(c, n) => ~Satisfied(b, n)
  <1>1. n.bits # {}  BY EventFlagAssumption DEF Need
  <1> QED BY <1>1 DEF Satisfied

LEMMA NoWalkKept ==
  ASSUME FlagInv, ~Walking, Serving', walk' = walk,
         flags' \in [Object -> SUBSET Bit], need' \in [Thread -> Needs],
         \A t \in Thread : Unmet(t)'
  PROVE  FlagInv'
  <1>1. \A c \in Index : walk[c] = NoWalk
    BY RunningTyped DEF FlagInv, Walking
  <1>2. Running' \in Index
    <2>1. Kernel' \in KernelType  BY DEF Serving, Steady, Sound, Queues
    <2>2. current' \in Thread  BY <2>1 DEF Kernel, KernelType
    <2> QED BY <2>2 DEF Running, Index
  <1>3. ~Walking'  BY <1>1, <1>2 DEF Walking
  <1>4. \A c \in Index : walk'[c] = NoWalk  BY <1>1
  <1> QED BY <1>3, <1>4 DEF FlagInv

LEMMA SchedKeepsFlags ==
  ASSUME FlagInv, ~Walking, Serving', UNCHANGED eventVars,
         \A t \in Thread : wait'[t] \in Object => wait'[t] = wait[t]
  PROVE  FlagInv'
  <1>1. \A t \in Thread : Unmet(t)'  BY DEF FlagInv, Unmet, eventVars
  <1> QED BY <1>1, NoWalkKept DEF FlagInv, eventVars

LEMMA CreateKeepsFlags ==
  ASSUME FlagInv, ~Walking, NEW e \in Object, NEW bits \in SUBSET Bit,
         NEW shared \in BOOLEAN, CreateEventFlag(e, bits, shared)
  PROVE  FlagInv'
  <1>1. Serving' /\ wait' = wait /\ \A t \in Thread : wait[t] # e
    BY CreatedServes DEF CreateEventFlag, FlagInv
  <1>2. /\ flags' = [flags EXCEPT ![e] = bits] /\ need' = need /\ walk' = walk
    BY DEF CreateEventFlag
  <1>3. flags' \in [Object -> SUBSET Bit]  BY <1>2 DEF FlagInv
  <1>4. \A t \in Thread : Unmet(t)'  BY <1>1, <1>2 DEF FlagInv, Unmet
  <1> QED BY <1>1, <1>2, <1>3, <1>4, NoWalkKept DEF FlagInv

(* clearEventFlag, and a wait that is met at once and clears.              *)
LEMMA ClearKeepsFlags ==
  ASSUME FlagInv, ~Walking, NEW e \in Object, UNCHANGED <<schedVars, need, walk>>,
         NEW bits, bits \subseteq flags[e], flags' = [flags EXCEPT ![e] = bits]
  PROVE  FlagInv'
  <1>1. Becomes(Kernel) /\ mode' = mode
    BY DEF schedVars, Becomes, Kernel
  <1>2. Serving' /\ wait' = wait  BY <1>1, NothingServes DEF FlagInv
  <1>3. flags' \in [Object -> SUBSET Bit] /\ need' = need /\ walk' = walk
    BY DEF FlagInv
  <1>4. ASSUME NEW t \in Thread
        PROVE  Unmet(t)'
    <2>1. need[t] \in Needs /\ Unmet(t)  BY DEF FlagInv
    <2>2. CASE wait[t] = e
      BY <1>2, <1>3, <2>1, <2>2, NothingSatisfies DEF Unmet, FlagInv
    <2>3. CASE wait[t] # e
      BY <1>2, <1>3, <2>1, <2>3 DEF Unmet, FlagInv
    <2> QED BY <2>2, <2>3
  <1> QED BY <1>2, <1>3, <1>4, NoWalkKept DEF FlagInv

LEMMA WaitKeepsFlags ==
  ASSUME FlagInv, ~Walking, NEW e \in Object, NEW n \in Needs, WaitEventFlag(e, n)
  PROVE  FlagInv'
  <1>1. /\ InThread /\ e \in inUse /\ ~Satisfied(flags[e], n)
        /\ need' = [need EXCEPT ![current] = n]
        /\ Becomes(BlockCurrent([Kernel EXCEPT !.links = Enqueue(@, e, current),
                                               !.waiters[e] = @ + 1], e))
        /\ mode' = mode /\ flags' = flags /\ walk' = walk
    BY DEF WaitEventFlag
  <1> DEFINE l == Enqueue(links, e, current)
  <1>2. Becomes(BlockCurrent([Kernel EXCEPT !.links = l, !.waiters[e] = @ + 1], e))
    BY <1>1, KernelFields
  <1>3. Serving' /\ wait' = [wait EXCEPT ![current] = e]
    <2>1. l \in {Enqueue(links, e, current),
                 EnqueueByPriority(links, priority, e, current)}
      OBVIOUS
    <2> HIDE DEF l
    <2> QED BY <1>1, <1>2, <2>1, JoinQueueServes DEF FlagInv
  <1>4. wait \in [Thread -> WaitReason] /\ current \in Thread
    BY KernelTyped, KernelFields DEF FlagInv, Serving, KernelType
  <1>5. need' \in [Thread -> Needs]  BY <1>1 DEF FlagInv
  <1>6. \A t \in Thread : Unmet(t)'
    BY <1>1, <1>3, <1>4 DEF Unmet, FlagInv
  <1> QED BY <1>1, <1>3, <1>5, <1>6, NoWalkKept DEF FlagInv

(* The neighbours of a flag's waiter are its waiters.                      *)
LEMMA WaiterNeighbours ==
  ASSUME Steady, NEW e \in Object, NEW t \in Thread, wait[t] = e
  PROVE  /\ links.next[t] # None
              => /\ links.next[t] \in Thread /\ wait[links.next[t]] = e
                 /\ links.prev[links.next[t]] = t
         /\ links.prev[t] # None
              => /\ links.prev[t] \in Thread /\ wait[links.prev[t]] = e
                 /\ links.next[links.prev[t]] = t
         /\ links.prev[t] = None <=> links.head[e] = t
         /\ state[t] = "Wait"
  <1> DEFINE k == Kernel
             w == PlaceOf(k)
  <1>1. /\ k \in KernelType /\ Queues(k, w) /\ Threads(k) /\ e \in Queue
        /\ k.links \in Links /\ w \in Places /\ LinkedAs(k.links, w)
    BY QueueKinds DEF Steady, Sound, Queues, KernelType
  <1>2. \A x \in Thread : w[x] = e <=> k.wait[x] = e
    <2> TAKE x \in Thread
    <2>1. k.priority[x] \in Priority  BY <1>1 DEF KernelType
    <2>2. k.wait[x] = e => k.state[x] = "Wait"
      BY <1>1, ObjectsApart DEF Threads
    <2> QED BY <2>1, <2>2, ObjectsApart DEF PlaceOf
  <1>3. w[t] = e /\ e # Nowhere /\ k.state[t] = "Wait"
    BY <1>1, <1>2, KernelFields, ObjectsApart DEF Threads
  <1> HIDE DEF w, k
  <1>4. /\ k.links.next[t] \in Index /\ k.links.prev[t] \in Index
        /\ k.links.next[t] # None
             => w[k.links.next[t]] = e /\ k.links.prev[k.links.next[t]] = t
        /\ k.links.prev[t] # None
             => w[k.links.prev[t]] = e /\ k.links.next[k.links.prev[t]] = t
        /\ k.links.prev[t] = None <=> k.links.head[e] = t
    BY <1>1, <1>3, NoneIsNoThread DEF LinkedAs, Links
  <1> QED BY <1>2, <1>3, <1>4, KernelFields DEF Index, k

LEMMA SetKeepsFlags ==
  ASSUME FlagInv, ~Walking, Unsafe = {}, NEW e \in Object,
         NEW bits \in SUBSET Bit, SetEventFlag(e, bits)
  PROVE  FlagInv'
  <1>1. Becomes(Kernel) /\ mode' = mode
    BY DEF SetEventFlag, schedVars, Becomes, Kernel
  <1>2. Serving' /\ UNCHANGED schedVars /\ need' = need /\ InEither
    BY <1>1, NothingServes DEF FlagInv, SetEventFlag
  <1>3. /\ flags' = [flags EXCEPT ![e] = flags[e] \cup bits]
        /\ flags' \in [Object -> SUBSET Bit]
    BY DEF SetEventFlag, FlagInv
  <1>4. /\ wait' = wait /\ mode' = mode /\ links' = links /\ current' = current
        /\ priority' = priority /\ closing' = closing /\ Running' = Running
        /\ Running \in Index
    BY <1>2, RunningTyped DEF schedVars, Running, FlagInv
  <1>5. ASSUME NEW t \in Thread, wait[t] # e
        PROVE  Unmet(t)'
    BY <1>2, <1>3, <1>4, <1>5 DEF FlagInv, Unmet
  <1>6. CASE links.head[e] = None
    <2>1. walk' = walk
      BY <1>4, <1>6 DEF SetEventFlag, FlagInv, Walking
    <2>2. \A t \in Thread : wait[t] # e
      BY <1>6, WaitersListed DEF FlagInv, Serving
    <2> QED BY <1>2, <1>3, <1>5, <2>1, <2>2, NoWalkKept DEF FlagInv
  <1>7. CASE links.head[e] # None
    <2> DEFINE a == links.head[e]
               S == {t \in Thread : wait[t] = e}
    <2>1. walk' = [walk EXCEPT ![Running] = [flag |-> e, at |-> a]]
      BY <1>7 DEF SetEventFlag
    <2>2. a \in Thread /\ wait[a] = e /\ links.prev[a] = None
      BY <1>7, WaitersListed, WaiterNeighbours DEF FlagInv, Serving
    <2>3. walk' \in [Index -> Walk]  BY <2>1, <2>2 DEF FlagInv, Walk
    <2>4. \A t \in S : /\ t \in Thread /\ wait[t] = e
                       /\ links.next[t] = None \/ links.next[t] \in S
      BY WaiterNeighbours DEF FlagInv, Serving
    <2>5. \A t \in S \ {a} : links.prev[t] \in S
      BY WaiterNeighbours DEF FlagInv, Serving
    <2>6. mode = "thread" =>
            \A t \in S : priority[t] < priority[current] => links.next[t] = None
      BY DEF SetEventFlag, InInterrupt
    <2>7. PICK T : T = S  OBVIOUS
    <2>8. a \in T /\ None \notin T /\ \A t \in Thread \ T : wait[t] # e
      BY <2>2, <2>7, NoneIsNoThread
    <2>9. \A t \in Thread \ T : Unmet(t)'  BY <1>5, <2>8
    <2> HIDE DEF S, a
    <2>10. PICK b : b = a  OBVIOUS
    <2>11. Ahead(T, e, b)'
      BY <1>4, <2>2, <2>4, <2>5, <2>6, <2>7, <2>8, <2>9, <2>10 DEF Ahead
    <2>12. walk'[Running'] = [flag |-> e, at |-> b]
      BY <1>4, <2>1, <2>10 DEF FlagInv
    <2>13. Walking'
      BY <1>4, <2>2, <2>10, <2>12, NoneIsNoThread DEF Walking, NoWalk
    <2>14. InEither'
      BY <1>2, <1>4 DEF InEither, InThread, InInterrupt
    <2>15. \A c \in Index : c # Running' => walk'[c] = NoWalk
      BY <1>4, <2>1 DEF FlagInv
    <2> QED BY <1>2, <1>3, <2>3, <2>11, <2>12, <2>13, <2>14, <2>15 DEF FlagInv
  <1> QED BY <1>6, <1>7

(* A walk at a thread with nothing behind it has nothing else ahead.       *)
LEMMA NothingBehind ==
  ASSUME Steady, NEW e \in Object, NEW S, NEW a, Ahead(S, e, a),
         links.next[a] = None
  PROVE  S = {a}
  <1> SUFFICES ASSUME S \ {a} # {} PROVE FALSE  BY DEF Ahead
  <1>1. PICK r \in [Thread -> Nat] :
          \A t \in Thread : links.next[t] # None => r[t] < r[links.next[t]]
    BY KernelFields DEF Steady, Sound, Queues, Ranked
  <1> DEFINE R == {r[t] : t \in S \ {a}}
  <1>2. PICK n \in R : \A m \in R : n <= m
    <2>1. R \in SUBSET Nat /\ R # {}  BY DEF Ahead
    <2> QED BY <2>1, LeastOf
  <1>3. PICK t \in S \ {a} : r[t] = n  BY <1>2
  <1>4. t \in Thread /\ wait[t] = e /\ links.prev[t] \in S
        /\ links.prev[t] \in Thread
    BY <1>3 DEF Ahead
  <1>5. links.next[links.prev[t]] = t
    BY <1>4, WaiterNeighbours, NoneIsNoThread
  <1>6. links.prev[t] # a  BY <1>4, <1>5, NoneIsNoThread
  <1>7. r[links.prev[t]] < r[t]  BY <1>1, <1>4, <1>5, NoneIsNoThread
  <1>8. r[links.prev[t]] \in R  BY <1>4, <1>6
  <1>9. r[t] \in Nat /\ r[links.prev[t]] \in Nat  BY <1>4
  <1>10. n <= r[links.prev[t]]  BY <1>2, <1>8
  <1> HIDE DEF R
  <1> QED BY <1>3, <1>7, <1>9, <1>10

(* The waiters T, of which n is the first, stay in the list as they were.  *)
RestKept(T, n) ==
    \A x \in T : /\ links'.next[x] = links.next[x] /\ wait'[x] = wait[x]
                 /\ x # n => links'.prev[x] = links.prev[x]

(* What a turn of the walk leaves ahead of it.                             *)
LEMMA WalkGoesOn ==
  ASSUME FlagInv, Walking, NEW S, NEW e \in Object, NEW a \in Thread, Ahead(S, e, a),
         walk[Running] = [flag |-> e, at |-> a],
         NEW n \in Index, n = links.next[a],
         walk' = [walk EXCEPT ![Running] = IF n = None THEN NoWalk
                                           ELSE [flag |-> e, at |-> n]],
         Serving', flags' \in [Object -> SUBSET Bit], need' = need, mode' = mode,
         closing' = {}, priority' = priority, n # None => current' = current,
         RestKept(S \ {a}, n),
         n # None => links'.prev[n] \notin S \ {a},
         \A x \in Thread \ (S \ {a}) : Unmet(x)'
  PROVE  FlagInv'
  <1>1. Steady /\ Running \in Index  BY RunningTyped DEF FlagInv, Serving
  <1>2. CASE n = None
    <2>1. walk' = [walk EXCEPT ![Running] = NoWalk]  BY <1>2
    <2>2. \A c \in Index : walk'[c] = NoWalk  BY <1>1, <2>1 DEF FlagInv
    <2>3. walk' \in [Index -> Walk]  BY <2>1 DEF FlagInv, Walk
    <2>4. Running' \in Index
      <3>1. Kernel' \in KernelType  BY DEF Serving, Steady, Sound, Queues
      <3>2. current' \in Thread  BY <3>1 DEF Kernel, KernelType
      <3> QED BY <3>2 DEF Running, Index
    <2>5. ~Walking'  BY <2>2, <2>4 DEF Walking
    <2>6. S = {a}
      <3>1. Steady /\ Ahead(S, e, a) /\ links.next[a] = None  BY <1>1, <1>2
      <3> QED BY <3>1, NothingBehind
    <2>7. \A x \in Thread : Unmet(x)'  BY <2>6
    <2> QED BY <2>2, <2>3, <2>5, <2>7 DEF FlagInv
  <1>3. CASE n # None
    <2>1. walk' = [walk EXCEPT ![Running] = [flag |-> e, at |-> n]]  BY <1>3
    <2>2. Running' = Running  BY <1>3 DEF Running
    <2>3. /\ a \in S /\ n \in S /\ n \in Thread /\ links.prev[n] = a
          /\ \A x \in S : x \in Thread /\ wait[x] = e
      BY <1>1, <1>3, WaiterNeighbours DEF Ahead
    <2>4. n # a  BY <2>3 DEF Ahead
    <2>5. walk'[Running'] = [flag |-> e, at |-> n] /\ walk' \in [Index -> Walk]
      BY <1>1, <2>1, <2>2, <2>3 DEF FlagInv, Walk
    <2>6. Walking'  BY <2>3, <2>5, NoneIsNoThread DEF Walking, NoWalk
    <2>7. \A c \in Index : c # Running' => walk'[c] = NoWalk
      BY <1>1, <2>1, <2>2 DEF FlagInv
    <2>8. InEither'
      BY <1>3 DEF FlagInv, InEither, InThread, InInterrupt
    <2> DEFINE T == S \ {a}
    <2>9. ASSUME NEW x \in T
          PROVE  /\ x \in Thread /\ wait'[x] = e
                 /\ links'.next[x] = None \/ links'.next[x] \in T
                 /\ x # n => links'.prev[x] \in T
                 /\ mode' = "thread" /\ priority'[x] < priority'[current']
                      => links'.next[x] = None
      <3>1. x \in Thread /\ x \in S /\ x # a /\ wait[x] = e  BY <2>3
      <3>2. links.next[x] # None => links.next[x] \in S /\ links.next[x] # a
        <4>1. links.next[x] = a => links.prev[a] = x
          BY <1>1, <3>1, WaiterNeighbours, NoneIsNoThread
        <4> QED BY <3>1, <4>1 DEF Ahead
      <3>3. x # n => links.prev[x] \in S /\ links.prev[x] # a
        <4>1. links.prev[x] = a => links.next[a] = x
          BY <1>1, <3>1, WaiterNeighbours, NoneIsNoThread
        <4> QED BY <3>1, <4>1 DEF Ahead
      <3> QED BY <1>3, <3>1, <3>2, <3>3 DEF Ahead, RestKept
    <2>10. n \in T  BY <2>3, <2>4
    <2>11. \A x \in Thread \ T : Unmet(x)'  OBVIOUS
    <2> HIDE DEF T
    <2>12. links'.prev[n] \notin T  BY <1>3 DEF T
    <2>13. Ahead(T, e, n)'
      BY <2>9, <2>10, <2>11, <2>12 DEF Ahead
    <2>14. (\E X : Ahead(X, walk[Running].flag, walk[Running].at))'
      <3>1. (walk[Running].flag)' = e /\ (walk[Running].at)' = n  BY <2>5
      <3> QED BY <2>13, <3>1 DEF Ahead
    <2> QED BY <2>5, <2>6, <2>7, <2>8, <2>14 DEF FlagInv
  <1> QED BY <1>2, <1>3
(* What a wake by the walk leaves of the state that the walk depends on.   *)
LEMMA WokenEffect ==
  ASSUME Steady, InEither, NEW i \in Thread, state[i] = "Wait",
         Becomes(Wake(Kernel, i, "Ok", InInterrupt)), mode' = mode
  PROVE  /\ priority' = priority /\ wait' = [wait EXCEPT ![i] = "NotWaiting"]
         /\ \A x \in Thread \ {i} : wait[x] \in Object =>
              /\ Closed(links, links', i, x)
              /\ \/ mode = "thread" /\ ~(priority[i] >= priority[current])
                 \/ current' = current
  <1> DEFINE b == InInterrupt
             r == Wake(Kernel, i, "Ok", b)
  <1>1. /\ Queues(Kernel, PlaceOf(Kernel)) /\ Threads(Kernel) /\ Runs(Kernel)
        /\ BestBut(Kernel, None) /\ DelaysBut(Kernel, i) /\ Kernel.state[i] = "Wait"
        /\ Sound(Kernel) /\ Kernel \in KernelType
    BY KernelFields DEF Steady, Sound, Delays, DelaysBut, Queues
  <1>2. b \in BOOLEAN /\ (b \/ Kernel.pending = Kernel.current)
        /\ (~b => mode = "thread")
    BY KernelFields DEF InInterrupt, Steady
  <1>3. Becomes(r)  BY DEF b
  <1> HIDE DEF b
  <1>4. /\ Quiet(Kernel, r) /\ (b => r.current = Kernel.current)
        /\ r.wait = [Kernel.wait EXCEPT ![i] = "NotWaiting"]
    BY <1>1, <1>2, StateNames, WakeSound
  <1>5. ASSUME NEW x \in Thread \ {i}, Kernel.wait[x] \in Object
        PROVE  /\ Closed(Kernel.links, r.links, i, x)
               /\ ~b /\ Kernel.priority[i] >= Kernel.priority[Kernel.current]
                    => r.current = Kernel.current
    BY <1>1, <1>2, <1>5, StateNames, WakeApart
  <1> HIDE DEF r
  <1>6. /\ links' = r.links /\ wait' = r.wait /\ priority' = r.priority
        /\ current' = r.current
    BY <1>3 DEF Becomes
  <1>7. priority' = priority /\ wait' = [wait EXCEPT ![i] = "NotWaiting"]
    BY <1>4, <1>6, KernelFields DEF Quiet
  <1>8. ASSUME NEW x \in Thread \ {i}, wait[x] \in Object
        PROVE  /\ Closed(links, links', i, x)
               /\ \/ mode = "thread" /\ ~(priority[i] >= priority[current])
                  \/ current' = current
    BY <1>2, <1>4, <1>5, <1>6, <1>8, KernelFields
  <1> QED BY <1>7, <1>8

(* One turn.  A waiter that is met leaves the list, and whoever else the   *)
(* clear could have concerned finds the flag empty.                        *)
LEMMA WalkStepKeeps ==
  ASSUME FlagInv, WalkStep
  PROVE  FlagInv'
  <1> DEFINE e == walk[Running].flag
             a == walk[Running].at
             n == links.next[a]
             b == InInterrupt
  <1>1. /\ Walking /\ InEither /\ Serving /\ Steady /\ Running \in Index
        /\ walk[Running] \in Walk
    BY RunningTyped DEF FlagInv, WalkStep, Serving
  <1>2. /\ walk[Running] = [flag |-> e, at |-> a]
        /\ e \in Object /\ a \in Thread
    BY <1>1 DEF Walk, Walking
  <1>3. PICK S : Ahead(S, e, a)  BY <1>1 DEF FlagInv
  <1>4. n \in Index /\ links \in Links
    <2>1. Kernel.links \in Links  BY <1>1, KernelTyped DEF KernelType
    <2> QED BY <1>2, <2>1, KernelFields DEF Links
  <1>5. walk' = [walk EXCEPT ![Running] = IF n = None THEN NoWalk
                                          ELSE [flag |-> e, at |-> n]]
    <2>1. walk' = [walk EXCEPT ![Running] = IF n = None THEN NoWalk
                                            ELSE [walk[Running] EXCEPT !.at = n]]
      BY DEF WalkStep
    <2> HIDE DEF n
    <2>2. [walk[Running] EXCEPT !.at = n] = [flag |-> e, at |-> n]
      <3> DEFINE w == walk[Running]
      <3>1. PICK f, t : w = [flag |-> f, at |-> t]  BY <1>2
      <3> QED BY <3>1
    <2> QED BY <2>1, <2>2
  <1>6. /\ IF Satisfied(flags[e], need[a])
           THEN /\ flags' = IF need[a].clear THEN [flags EXCEPT ![e] = {}] ELSE flags
                /\ Becomes(Wake(Kernel, a, "Ok", b))
           ELSE flags' = flags /\ Becomes(Kernel)
        /\ mode' = mode /\ need' = need
    BY DEF WalkStep
  <1>7. closing = {}
    BY <1>1 DEF Serving, Deleting, InEither, InThread, InInterrupt
  <1>8. PICK f : f = e  OBVIOUS
  <1>9. PICK t : t = a  OBVIOUS
  <1>10. PICK m : m = n  OBVIOUS
  <1>11. /\ f \in Object /\ t \in Thread /\ m \in Index /\ m = links.next[t]
         /\ Ahead(S, f, t) /\ walk[Running] = [flag |-> f, at |-> t]
         /\ walk' = [walk EXCEPT ![Running] = IF m = None THEN NoWalk
                                              ELSE [flag |-> f, at |-> m]]
         /\ IF Satisfied(flags[f], need[t])
            THEN /\ flags' = IF need[t].clear THEN [flags EXCEPT ![f] = {}] ELSE flags
                 /\ Becomes(Wake(Kernel, t, "Ok", b))
            ELSE flags' = flags /\ Becomes(Kernel)
    BY <1>2, <1>3, <1>4, <1>5, <1>6, <1>8, <1>9, <1>10
  <1> HIDE DEF e, a, n
  <1>12. /\ \A x \in S : x \in Thread /\ wait[x] = f
         /\ \A x \in Thread \ S : Unmet(x)
         /\ t \in S /\ wait[t] = f /\ state[t] = "Wait" /\ t # None
         /\ m # None => m \in S \ {t} /\ m \in Thread /\ links.prev[m] = t
         /\ links.prev[t] \notin S
    <2>1. t \in S /\ wait[t] = f /\ links.prev[t] \notin S
      BY <1>11 DEF Ahead
    <2>2. m # None => m \in S \ {t} /\ links.prev[m] = t
      BY <1>1, <1>11, <2>1, WaiterNeighbours DEF Ahead
    <2> QED BY <1>1, <1>11, <2>1, <2>2, WaiterNeighbours, NoneIsNoThread DEF Ahead
  <1>13. CASE ~Satisfied(flags[f], need[t])
    <2>1. Becomes(Kernel) /\ flags' = flags  BY <1>11, <1>13
    <2>2. Serving' /\ wait' = wait  BY <1>1, <1>6, <2>1, NothingServes
    <2>3. closing' = {} /\ priority' = priority /\ current' = current /\ links' = links
      BY <1>7, <2>1, KernelFields DEF Becomes
    <2>4. \A x \in Thread \ (S \ {t}) : Unmet(x)'
      BY <1>6, <1>12, <1>13, <2>1, <2>2 DEF Unmet
    <2>5. flags' \in [Object -> SUBSET Bit]  BY <2>1 DEF FlagInv
    <2>6. m # None => links'.prev[m] \notin S \ {t}
      BY <1>12, <2>3
    <2>7. RestKept(S \ {t}, m)  BY <2>2, <2>3 DEF RestKept
    <2> QED BY <1>1, <1>6, <1>11, <2>2, <2>3, <2>4, <2>5, <2>6, <2>7, WalkGoesOn
  <1>14. CASE Satisfied(flags[f], need[t])
    <2>1. Becomes(Wake(Kernel, t, "Ok", b))
          /\ flags' = IF need[t].clear THEN [flags EXCEPT ![f] = {}] ELSE flags
      BY <1>11, <1>14
    <2>2. Serving' /\ closing' = {}
      BY <1>1, <1>6, <1>11, <1>12, <2>1, StateNames, WakeServes
    <2>3. /\ priority' = priority /\ wait' = [wait EXCEPT ![t] = "NotWaiting"]
          /\ \A x \in Thread \ {t} : wait[x] \in Object =>
               /\ Closed(links, links', t, x)
               /\ \/ mode = "thread" /\ ~(priority[t] >= priority[current])
                  \/ current' = current
      BY <1>1, <1>6, <1>11, <1>12, <2>1, WokenEffect
    <2>4. m # None => current' = current
      <3>1. SUFFICES ASSUME m # None PROVE current' = current  OBVIOUS
      <3>2. mode = "thread" => ~(priority[t] < priority[current])
        BY <1>11, <1>12, <3>1 DEF Ahead
      <3>3. priority[t] \in Nat /\ priority[current] \in Nat
        <4>1. Kernel \in KernelType /\ Kernel.current \in Thread
          BY <1>1, KernelTyped
        <4> QED BY <1>11, <4>1, KernelFields DEF KernelType, Priority
      <3>4. mode = "thread" => priority[t] >= priority[current]
        BY <3>2, <3>3
      <3> QED BY <1>11, <1>12, <2>3, <3>1, <3>4
    <2>5. wait \in [Thread -> WaitReason]
      BY <1>1, KernelTyped, KernelFields DEF KernelType
    <2>6. RestKept(S \ {t}, m)
      <3> SUFFICES ASSUME NEW x \in S \ {t}
                   PROVE  /\ links'.next[x] = links.next[x] /\ wait'[x] = wait[x]
                          /\ x # m => links'.prev[x] = links.prev[x]
        BY DEF RestKept
      <3>1. x \in Thread \ {t} /\ wait[x] = f /\ x # links.prev[t]
        BY <1>12
      <3>2. Closed(links, links', t, x)  BY <1>11, <2>3, <3>1
      <3>3. wait'[x] = wait[x]  BY <2>3, <2>5, <3>1
      <3> QED BY <1>11, <3>1, <3>2, <3>3 DEF Closed
    <2>7. m # None => links'.prev[m] \notin S \ {t}
      <3>1. SUFFICES ASSUME m # None PROVE links'.prev[m] \notin S  OBVIOUS
      <3>2. m \in Thread \ {t} /\ wait[m] = f  BY <1>12, <3>1
      <3>3. Closed(links, links', t, m)  BY <1>11, <2>3, <3>2
      <3> QED BY <1>11, <1>12, <3>3 DEF Closed
    <2>8. flags' \in [Object -> SUBSET Bit]
      BY <1>11, <2>1 DEF FlagInv
    <2>9. ASSUME NEW x \in Thread \ (S \ {t})
          PROVE  Unmet(x)'
      <3>1. CASE x = t
        <4>1. wait'[x] = "NotWaiting"  BY <1>11, <2>3, <2>5, <3>1
        <4> QED BY <4>1, ObjectsApart DEF Unmet
      <3>2. CASE x # t
        <4>1. wait'[x] = wait[x] /\ Unmet(x) /\ need[x] \in Needs
          BY <1>12, <2>3, <2>5, <3>2 DEF FlagInv
        <4>2. flags'[wait[x]] = flags[wait[x]] \/ flags'[wait[x]] = {}
              \/ wait[x] \notin Object
          BY <1>11, <2>1 DEF FlagInv
        <4> QED BY <1>6, <4>1, <4>2, NothingSatisfies DEF Unmet
      <3> QED BY <3>1, <3>2
    <2>10. \A x \in Thread \ (S \ {t}) : Unmet(x)'  BY <2>9
    <2>11. mode' = mode /\ need' = need /\ priority' = priority  BY <1>6, <2>3
    <2>12. Walking /\ f \in Object /\ t \in Thread /\ m \in Index
      BY <1>1, <1>11
    <2>13. /\ m = links.next[t] /\ Ahead(S, f, t)
           /\ walk[Running] = [flag |-> f, at |-> t]
           /\ walk' = [walk EXCEPT ![Running] = IF m = None THEN NoWalk
                                                ELSE [flag |-> f, at |-> m]]
      BY <1>11
    <2> HIDE DEF b
    <2> QED BY <2>2, <2>4, <2>6, <2>7, <2>8, <2>10, <2>11, <2>12, <2>13, WalkGoesOn
  <1> QED BY <1>13, <1>14
-----------------------------------------------------------------------------
LEMMA FlagInit == Init => FlagInv
  <1> SUFFICES ASSUME Init PROVE FlagInv  OBVIOUS
  <1>1. Steady  BY SchedInitSteady DEF Init
  <1>2. closing = {}  BY DEF Init, SchedInit, MakeReady, Readied
  <1>3. Serving  BY <1>1, <1>2 DEF Serving, Deleting
  <1>4. \A t \in Thread : wait[t] \notin Object
    <2>1. inUse = {}  BY DEF Init, SchedInit, MakeReady, Readied
    <2> QED BY <1>1, <2>1, WaitersListed
  <1>5. \A c \in Index : walk[c] = NoWalk  BY DEF Init
  <1>6. ~Walking  BY <1>3, <1>5, RunningTyped DEF Walking
  <1>7. walk \in [Index -> Walk]  BY DEF Init, Walk
  <1>8. flags \in [Object -> SUBSET Bit]  BY DEF Init
  <1>9. need \in [Thread -> Needs]  BY EventFlagAssumption DEF Init
  <1> QED BY <1>3, <1>4, <1>5, <1>6, <1>7, <1>8, <1>9 DEF FlagInv, Unmet

LEMMA FlagNext ==
  ASSUME Unsafe = {}, FlagInv, [Next]_vars
  PROVE  FlagInv'
  <1>1. CASE WalkStep
    BY <1>1, WalkStepKeeps
  <1>2. CASE ~Walking /\ SchedNext /\ UNCHANGED eventVars
    <2>1. Serving' /\ JoinNone  BY <1>2, SchedNextServes DEF FlagInv
    <2> QED BY <1>2, <2>1, SchedKeepsFlags DEF JoinNone
  <1>3. CASE ~Walking /\ DeleteStep /\ UNCHANGED eventVars
    <2>1. /\ Serving'
          /\ \A t \in Thread : wait'[t] \in Object => wait'[t] = wait[t]
      BY <1>3, DeleteStepServes DEF FlagInv
    <2> QED BY <1>3, <2>1, SchedKeepsFlags
  <1>4. ASSUME ~Walking, NEW e \in Object, DeleteEventFlag(e)
        PROVE  FlagInv'
    <2>1. BeginDelete(e) /\ UNCHANGED eventVars  BY <1>4 DEF DeleteEventFlag
    <2>2. Serving' /\ wait' = wait
      BY <2>1, BeginDeleteServes DEF FlagInv
    <2> QED BY <1>4, <2>1, <2>2, SchedKeepsFlags
  <1>5. ASSUME ~Walking, NEW e \in Object, NEW bits \in SUBSET Bit,
               CreateEventFlag(e, bits, TRUE) \/ CreateEventFlag(e, bits, FALSE)
        PROVE  FlagInv'
    BY <1>5, CreateKeepsFlags
  <1>6. ASSUME ~Walking, NEW e \in Object, NEW bits \in SUBSET Bit,
               SetEventFlag(e, bits)
        PROVE  FlagInv'
    BY <1>6, SetKeepsFlags
  <1>7. ASSUME ~Walking, NEW e \in Object, NEW keep \in SUBSET Bit,
               ClearEventFlag(e, keep)
        PROVE  FlagInv'
    <2> DEFINE bits == flags[e] \cap keep
    <2>1. flags' = [flags EXCEPT ![e] = bits] /\ UNCHANGED <<schedVars, need, walk>>
      BY <1>7 DEF ClearEventFlag
    <2>2. bits \subseteq flags[e]  OBVIOUS
    <2> HIDE DEF bits
    <2> QED BY <1>7, <2>1, <2>2, ClearKeepsFlags
  <1>8. ASSUME ~Walking, NEW e \in Object, NEW n \in Needs, TakeEventFlag(e, n)
        PROVE  FlagInv'
    <2>1. flags' = [flags EXCEPT ![e] = {}] /\ UNCHANGED <<schedVars, need, walk>>
      BY <1>8 DEF TakeEventFlag
    <2>2. PICK bits : bits = {}  OBVIOUS
    <2>3. bits \subseteq flags[e] /\ flags' = [flags EXCEPT ![e] = bits]
      BY <2>1, <2>2
    <2> QED BY <1>8, <2>1, <2>3, ClearKeepsFlags
  <1>9. ASSUME ~Walking, NEW e \in Object, NEW n \in Needs, WaitEventFlag(e, n)
        PROVE  FlagInv'
    BY <1>9, WaitKeepsFlags
  <1>10. CASE UNCHANGED vars
    <2>1. Becomes(Kernel) /\ mode' = mode /\ UNCHANGED <<eventVars, schedVars>>
      BY <1>10 DEF vars, schedVars, Becomes, Kernel
    <2>2. Serving'  BY <2>1, NothingServes DEF FlagInv
    <2>3. /\ flags' = flags /\ need' = need /\ walk' = walk /\ wait' = wait
          /\ links' = links /\ priority' = priority /\ mode' = mode
          /\ current' = current /\ closing' = closing /\ Running' = Running
      BY <2>1 DEF eventVars, schedVars, Running
    <2> QED BY <2>2, <2>3
        DEF FlagInv, Walking, InEither, InThread, InInterrupt, Ahead, Unmet
  <1> QED
    BY <1>1, <1>2, <1>3, <1>4, <1>5, <1>6, <1>7, <1>8, <1>9, <1>10 DEF Next

(* A set call never looks at a thread that does not wait on its flag, for  *)
(* any threads, flags and conditions: the next waiter that it read before  *)
(* a wake is still the next waiter after it, whether the wake staged a     *)
(* thread, handed over to it or only made it ready, provided that a call   *)
(* in a thread meets a waiter better than its caller only at the end.      *)
THEOREM FlagWalkMeetsWaiters ==
  ASSUME Unsafe = {}
  PROVE  Spec => []WalkMeetsWaiters
  <1>1. Init => FlagInv  BY FlagInit
  <1>2. FlagInv /\ [Next]_vars => FlagInv'  BY FlagNext
  <1>3. FlagInv => WalkMeetsWaiters
    <2> SUFFICES ASSUME FlagInv, NEW c \in Index, walk[c] # NoWalk
                 PROVE  wait[walk[c].at] = walk[c].flag
      BY DEF WalkMeetsWaiters
    <2>1. c = Running /\ Walking  BY DEF FlagInv, Walking
    <2>2. PICK S : Ahead(S, walk[Running].flag, walk[Running].at)
      BY <2>1 DEF FlagInv
    <2> QED BY <2>1, <2>2 DEF Ahead
  <1> QED BY <1>1, <1>2, <1>3, PTL DEF Spec

(* Between calls no thread waits for what its flag already holds: a set    *)
(* call reaches every waiter of the flag that it satisfies, or empties the *)
(* flag before it gets there, and a wait starts only unsatisfied.          *)
THEOREM FlagNoSatisfiedWaiter ==
  ASSUME Unsafe = {}
  PROVE  Spec => []NoSatisfiedWaiter
  <1>1. Init => FlagInv  BY FlagInit
  <1>2. FlagInv /\ [Next]_vars => FlagInv'  BY FlagNext
  <1>3. FlagInv => NoSatisfiedWaiter
    BY RunningTyped DEF FlagInv, NoSatisfiedWaiter, Unmet, Walking
  <1> QED BY <1>1, <1>2, <1>3, PTL DEF Spec
=============================================================================
