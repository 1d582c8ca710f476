---------------------------- MODULE EEThreadProofs ----------------------------
(***************************************************************************)
(* Theorems about the EE kernel's scheduler, for programs that keep off    *)
(* the four uses it mishandles (Unsafe = {}).                              *)
(***************************************************************************)
EXTENDS EEThread, ThreadQueueProofs

-----------------------------------------------------------------------------
(* The records the helpers take and return.                                *)
EEKernelType ==
    [links : Links, lowest : Priority, state : [Thread -> State],
     wait : [Thread -> WaitReason], priority : [Thread -> 1 .. BootPriority],
     initial : [Thread -> 1 .. BootPriority], wakeups : [Thread -> Nat],
     result : [Thread -> Result], byInterrupt : [Thread -> BOOLEAN],
     requested : BOOLEAN, current : Thread, count : [Object -> Int],
     waiters : [Object -> Nat]]

Waiting == {"Wait", "WaitSuspend"}

(* Place, of a record.                                                     *)
PlaceOf(k) ==
    [t \in Thread |->
        IF k.state[t] \in {"Run", "Ready"} THEN QueueOf(k, t)
        ELSE IF k.wait[t] \in Object THEN k.wait[t] ELSE Nowhere]

(* The links hold each thread t in queue w[t], and the scan starts at or   *)
(* above every ready queue with a thread.                                  *)
Held(k, w) ==
    /\ k \in EEKernelType /\ w \in Places
    /\ LinkedAs(k.links, w) /\ Ranked(k.links)
    /\ \A q \in Priority : k.links.head[q] # None => k.lowest <= q

(* What the record of a thread that is not being moved satisfies.          *)
Framed(k, t) == k.byInterrupt[t] = TRUE => k.result[t] = "Live"

Fine(k, t) ==
    /\ k.wait[t] # "NotWaiting" <=> k.state[t] \in Waiting
    /\ k.wait[t] \in Object => k.count[k.wait[t]] = 0
    /\ k.state[t] \in Waiting => k.byInterrupt[t] = FALSE
    /\ t # k.current => Framed(k, t)
    /\ k.state[t] = "Run" => t = k.current

(* Until the first program is launched the boot thread runs as Ready.      *)
Booting(k) ==
    /\ k.current = Idle /\ Framed(k, Idle)
    /\ \A t \in Thread \ {Idle} : k.state[t] = "Free"

Whole(k) ==
    /\ Held(k, PlaceOf(k))
    /\ \A t \in Thread : Fine(k, t)
    /\ k.state[Idle] \in {"Run", "Ready"}
    /\ k.state[k.current] = "Run" \/ Booting(k)

(* The same while thread i is in no queue, whatever its record says.       *)
Limbo(k, i) ==
    /\ i # Idle /\ Held(k, [PlaceOf(k) EXCEPT ![i] = Nowhere])
    /\ \A t \in Thread \ {i} : Fine(k, t)
    /\ k.state[Idle] \in {"Run", "Ready"}
    /\ k.current # i => k.state[k.current] = "Run"

(* The running thread has been put where it goes, and no other is chosen.  *)
Away(k) ==
    /\ Held(k, PlaceOf(k))
    /\ \A t \in Thread : Fine(k, t) /\ Framed(k, t) /\ k.state[t] # "Run"
    /\ k.state[Idle] = "Ready"

(* No ready thread, i aside, is better than the running one.               *)
NoBetterBut(k, i) ==
    \A t \in Thread \ {i} :
        k.state[t] = "Ready" => QueueOf(k, k.current) <= QueueOf(k, t)

NoBetter(k) == NoBetterBut(k, None)

(* The two records differ in thread i's own fields only.                   *)
SameBut(k, m, i) ==
    /\ m \in EEKernelType
    /\ m.links = k.links /\ m.lowest = k.lowest /\ m.requested = k.requested
    /\ m.current = k.current /\ m.count = k.count
    /\ \A t \in Thread \ {i} :
        /\ m.state[t] = k.state[t] /\ m.wait[t] = k.wait[t]
        /\ m.priority[t] = k.priority[t] /\ m.result[t] = k.result[t]
        /\ m.byInterrupt[t] = k.byInterrupt[t]

-----------------------------------------------------------------------------
LEMMA EEConstants ==
  /\ Idle \in Thread /\ Program \in Thread /\ Program # Idle
  /\ IdlePriority \in Priority /\ IdlePriority \in Int
  /\ BootPriority \in 1 .. BootPriority /\ BootPriority < IdlePriority
  /\ 1 .. BootPriority \subseteq Priority /\ Priority \subseteq Nat
  /\ CallPriority \subseteq 1 .. BootPriority
  /\ Priority \subseteq Queue /\ Object \subseteq Queue
  /\ Nowhere \notin Priority /\ Nowhere \notin Object
  /\ \A o \in Object : /\ o \notin Priority /\ o # "NotWaiting" /\ o # "Sleeping"
                       /\ o # "Load" /\ o # "NoLoop"
  BY QueueAssumption, EEThreadAssumption
     DEF Idle, Program, Thread, Priority, BootPriority, Queue, Nowhere

LEMMA MinIsBest ==
  ASSUME NEW S \in SUBSET Priority, S # {}
  PROVE  Min(S) \in S /\ \A p \in S : Min(S) <= p
  <1>1. S \in SUBSET Nat  BY EEConstants
  <1>2. \E x \in S : \A y \in S : x <= y  BY <1>1, LeastOf
  <1> QED BY <1>2 DEF Min

LEMMA QueueOfIn ==
  ASSUME NEW k \in EEKernelType, NEW t \in Thread
  PROVE  /\ QueueOf(k, t) \in Priority
         /\ QueueOf(k, t) <= IdlePriority
         /\ t # Idle => QueueOf(k, t) = k.priority[t] /\ QueueOf(k, t) < IdlePriority
  BY EEConstants DEF QueueOf, EEKernelType, Priority, BootPriority

LEMMA PlaceTells ==
  ASSUME NEW k \in EEKernelType
  PROVE  /\ PlaceOf(k) \in Places
         /\ \A t \in Thread :
             /\ PlaceOf(k)[t] \in Priority <=> k.state[t] \in {"Run", "Ready"}
             /\ PlaceOf(k)[t] \in Priority => PlaceOf(k)[t] = QueueOf(k, t)
             /\ PlaceOf(k)[t] \in Object
                  => k.wait[t] = PlaceOf(k)[t] /\ k.state[t] \notin {"Run", "Ready"}
  BY EEConstants, QueueOfIn DEF PlaceOf, Places, EEKernelType

-----------------------------------------------------------------------------
(* linkReady puts a thread that is in no queue into its ready queue, asks  *)
(* for a switch to it if it is better, and changes nothing else.           *)
OnlyMoved(k, m) ==
    /\ m \in EEKernelType
    /\ m.state = k.state /\ m.wait = k.wait /\ m.priority = k.priority
    /\ m.initial = k.initial /\ m.wakeups = k.wakeups /\ m.result = k.result
    /\ m.byInterrupt = k.byInterrupt /\ m.current = k.current
    /\ m.count = k.count

LEMMA LinkReadyHeld ==
  ASSUME NEW k, NEW w, Held(k, w), NEW i \in Thread, w[i] = Nowhere
  PROVE  LET m == LinkReady(k, i)
         IN  /\ Held(m, [w EXCEPT ![i] = QueueOf(k, i)])
             /\ OnlyMoved(k, m) /\ m.waiters = k.waiters
             /\ m.requested = (k.requested \/ QueueOf(k, i) < QueueOf(k, k.current))
  <1> DEFINE q == QueueOf(k, i)
             m == LinkReady(k, i)
             l == Enqueue(k.links, q, i)
             low == IF q < k.lowest THEN q ELSE k.lowest
             ask == k.requested \/ q < QueueOf(k, k.current)
             v == [w EXCEPT ![i] = q]
  <1>1. k \in EEKernelType /\ w \in Places /\ k.links \in Links
        /\ k.lowest \in Priority /\ k.requested \in BOOLEAN
    BY DEF Held, EEKernelType
  <1>2. q \in Priority /\ q \in Queue /\ Priority \subseteq Nat
    BY <1>1, QueueOfIn, EEConstants
  <1>2a. q \in Nat /\ k.lowest \in Nat  BY <1>1, <1>2
  <1>3. l \in Links /\ LinkedAs(l, v) /\ Ranked(l)
    BY <1>1, <1>2, EnqueueType, EnqueueLinked, EnqueueRanked DEF Held
  <1>4. v \in Places  BY <1>1, <1>2 DEF Places
  <1>5. \A p \in Priority : l.head[p] = IF p = q /\ k.links.tail[q] = None THEN i
                                        ELSE k.links.head[p]
    BY <1>1, <1>2, EEConstants DEF Enqueue, Links
  <1> HIDE DEF q, l
  <1>6. low \in Priority /\ low <= q /\ low <= k.lowest /\ low \in Nat
    BY <1>1, <1>2, <1>2a
  <1>7. m = [k EXCEPT !.links = l, !.lowest = low, !.requested = ask]
    BY <1>1 DEF LinkReady, q, l
  <1>8. ask \in BOOLEAN  OBVIOUS
  <1> HIDE DEF m, low, ask
  <1>9. m \in EEKernelType  BY <1>1, <1>3, <1>6, <1>7, <1>8 DEF EEKernelType
  <1>10. m.links = l /\ m.lowest = low /\ m.requested = ask
         /\ OnlyMoved(k, m) /\ m.waiters = k.waiters
    BY <1>1, <1>7, <1>9 DEF EEKernelType, OnlyMoved
  <1>11. \A p \in Priority : m.links.head[p] # None => m.lowest <= p
    <2> SUFFICES ASSUME NEW p \in Priority, l.head[p] # None PROVE low <= p
      BY <1>10
    <2>1. p = q \/ k.links.head[p] # None  BY <1>5
    <2>2. k.lowest <= p \/ p = q  BY <2>1 DEF Held
    <2>3. p \in Nat  BY EEConstants
    <2> QED BY <1>2a, <1>6, <2>2, <2>3
  <1> QED BY <1>3, <1>4, <1>9, <1>10, <1>11 DEF Held, m, q, ask

LEMMA UnlinkHeld ==
  ASSUME NEW k, NEW w, Held(k, w), NEW i \in Thread, NEW q \in Queue, w[i] = q
  PROVE  LET m == [k EXCEPT !.links = Unlink(k.links, q, i)]
         IN  /\ Held(m, [w EXCEPT ![i] = Nowhere])
             /\ OnlyMoved(k, m) /\ m.waiters = k.waiters
             /\ m.requested = k.requested /\ m.lowest = k.lowest
  <1> DEFINE l == Unlink(k.links, q, i)
             m == [k EXCEPT !.links = l]
             v == [w EXCEPT ![i] = Nowhere]
  <1>1. k \in EEKernelType /\ w \in Places /\ k.links \in Links
    BY DEF Held, EEKernelType
  <1>2. l \in Links /\ LinkedAs(l, v) /\ Ranked(l)
    BY <1>1, UnlinkType, UnlinkLinked, UnlinkRanked DEF Held
  <1>3. v \in Places  BY <1>1 DEF Places
  <1>4. k.links.head[q] # None
    BY <1>1, NowhereIsNoQueue, QueueHasHead DEF Held
  <1>5. \A p \in Priority : l.head[p] = k.links.head[p] \/ p = q
    BY <1>1, EEConstants DEF Unlink, Links
  <1> HIDE DEF l
  <1>6. m \in EEKernelType  BY <1>1, <1>2 DEF EEKernelType
  <1>7. m.links = l /\ m.lowest = k.lowest /\ m.requested = k.requested
        /\ OnlyMoved(k, m) /\ m.waiters = k.waiters
    BY <1>1, <1>6 DEF EEKernelType, OnlyMoved
  <1>8. \A p \in Priority : m.links.head[p] # None => m.lowest <= p
    BY <1>4, <1>5, <1>7 DEF Held
  <1> HIDE DEF m
  <1> QED BY <1>2, <1>3, <1>6, <1>7, <1>8 DEF Held, m, l

(* Taking the running or a ready thread off its queue, or a waiter off the *)
(* list it waits on.                                                       *)
Taken(k, m, i) ==
    /\ Limbo(m, i) /\ m.wait[i] = "NotWaiting"
    /\ m.state = k.state /\ m.priority = k.priority /\ m.initial = k.initial
    /\ m.result = k.result /\ m.byInterrupt = k.byInterrupt
    /\ m.current = k.current /\ m.count = k.count /\ m.requested = k.requested

LEMMA TakeOffTaken ==
  ASSUME NEW k, Whole(k), NEW i \in Thread \ {Idle},
         k.state[i] \in {"Run", "Ready"}
  PROVE  Taken(k, TakeOffReadyQueue(k, i), i)
  <1> DEFINE w == PlaceOf(k)
             q == QueueOf(k, i)
             m == TakeOffReadyQueue(k, i)
  <1>1. k \in EEKernelType /\ Held(k, w)  BY DEF Whole, Held
  <1>2. q \in Queue /\ w[i] = q
    BY <1>1, QueueOfIn, EEConstants, PlaceTells
  <1>3. m = [k EXCEPT !.links = Unlink(k.links, q, i)]
    BY <1>1 DEF TakeOffReadyQueue
  <1>4. Held(m, [w EXCEPT ![i] = Nowhere]) /\ OnlyMoved(k, m) /\ m.requested = k.requested
    BY <1>1, <1>2, <1>3, UnlinkHeld
  <1>5. PlaceOf(m) = PlaceOf(k)
    BY <1>4 DEF OnlyMoved, PlaceOf, QueueOf
  <1>6. \A t \in Thread : Fine(k, t)  BY DEF Whole
  <1>7. \A t \in Thread : Fine(m, t)
    BY <1>4, <1>6 DEF OnlyMoved, Fine, Framed
  <1>8. m.wait[i] = "NotWaiting"
    BY <1>4, <1>6 DEF OnlyMoved, Fine, Waiting
  <1>9. k.state[Idle] \in {"Run", "Ready"}
        /\ (k.current # i => k.state[k.current] = "Run")
    BY DEF Whole, Booting
  <1> HIDE DEF m
  <1> QED BY <1>4, <1>5, <1>7, <1>8, <1>9 DEF Taken, Limbo, OnlyMoved, m

LEMMA LeaveWaitTaken ==
  ASSUME NEW k, Whole(k), NEW i \in Thread \ {Idle},
         k.state[i] \notin {"Run", "Ready", "Free"}
  PROVE  Taken(k, LeaveWaitList(k, i), i)
  <1> DEFINE w == PlaceOf(k)
             s == k.wait[i]
             m == LeaveWaitList(k, i)
             left == [k EXCEPT !.wait = [k.wait EXCEPT ![i] = "NotWaiting"]]
             v == [w EXCEPT ![i] = Nowhere]
  <1>1. k \in EEKernelType /\ Held(k, w) /\ w \in Places  BY DEF Whole, Held
  <1>2. left \in EEKernelType
    <2>1. [k.wait EXCEPT ![i] = "NotWaiting"] \in [Thread -> WaitReason]
      BY <1>1 DEF EEKernelType, WaitReason
    <2> QED BY <1>1, <2>1 DEF EEKernelType
  <1>3. Held(left, w) /\ left.links = k.links
    BY <1>1, <1>2 DEF Held, EEKernelType
  <1>4. w[i] = IF s \in Object THEN s ELSE Nowhere
    BY <1>1 DEF PlaceOf
  <1>5. /\ Held(m, v) /\ m \in EEKernelType
        /\ m.state = k.state /\ m.priority = k.priority /\ m.initial = k.initial
        /\ m.result = k.result /\ m.byInterrupt = k.byInterrupt
        /\ m.current = k.current /\ m.count = k.count /\ m.requested = k.requested
        /\ m.wait = [k.wait EXCEPT ![i] = "NotWaiting"]
    <2>1. CASE s \notin Object
      <3>1. m = left  BY <1>1, <2>1 DEF LeaveWaitList, EEKernelType
      <3>2. v = w  BY <1>1, <1>4, <2>1 DEF Places
      <3>3. Held(m, v)  BY <1>3, <3>1, <3>2
      <3> QED BY <1>1, <1>2, <3>1, <3>3 DEF EEKernelType
    <2>2. CASE s \in Object
      <3> DEFINE off == [left EXCEPT !.links = Unlink(left.links, s, i)]
                 c == IF k.waiters[s] > 0 THEN k.waiters[s] - 1 ELSE k.waiters[s]
                 W == [k.waiters EXCEPT ![s] = c]
      <3>1. s \in Queue /\ w[i] = s  BY <1>4, <2>2, EEConstants
      <3> HIDE DEF left, w
      <3>2. Held(off, v) /\ OnlyMoved(left, off) /\ off.waiters = left.waiters
            /\ off.requested = left.requested
        BY <1>3, <3>1, UnlinkHeld
      <3>3. W \in [Object -> Nat]  BY <1>1, <2>2 DEF EEKernelType
      <3>4. m = [off EXCEPT !.waiters = W]
        BY <1>1, <1>2, <1>3, <2>2 DEF LeaveWaitList, EEKernelType, left
      <3> HIDE DEF W, off
      <3>5. off \in EEKernelType  BY <3>2 DEF Held
      <3>6. m \in EEKernelType /\ m.links = off.links /\ m.lowest = off.lowest
        BY <3>3, <3>4, <3>5 DEF EEKernelType
      <3>7. Held(m, v)  BY <3>2, <3>6 DEF Held
      <3>8. m.state = off.state /\ m.priority = off.priority /\ m.initial = off.initial
            /\ m.result = off.result /\ m.byInterrupt = off.byInterrupt
            /\ m.current = off.current /\ m.count = off.count
            /\ m.requested = off.requested /\ m.wait = off.wait
        BY <3>3, <3>4, <3>5 DEF EEKernelType
      <3>9. left.state = k.state /\ left.priority = k.priority
            /\ left.initial = k.initial
            /\ left.result = k.result /\ left.byInterrupt = k.byInterrupt
            /\ left.current = k.current /\ left.count = k.count
            /\ left.requested = k.requested
            /\ left.wait = [k.wait EXCEPT ![i] = "NotWaiting"]
        BY <1>1 DEF EEKernelType, left
      <3> HIDE DEF m
      <3> QED BY <3>2, <3>6, <3>7, <3>8, <3>9 DEF OnlyMoved
    <2> QED BY <2>1, <2>2
  <1> HIDE DEF m
  <1>6. \A t \in Thread : Fine(k, t)  BY DEF Whole
  <1>7. \A t \in Thread \ {i} : Fine(m, t)
    BY <1>1, <1>5, <1>6 DEF Fine, Framed, EEKernelType
  <1>8. v = [PlaceOf(m) EXCEPT ![i] = Nowhere]
    BY <1>1, <1>5 DEF PlaceOf, QueueOf, EEKernelType
  <1>9. k.state[Idle] \in {"Run", "Ready"} /\ k.current # i
        /\ k.state[k.current] = "Run"
    <2>1. ~Booting(k)  BY DEF Booting
    <2> QED BY <2>1 DEF Whole
  <1>10. m.wait[i] = "NotWaiting"  BY <1>1, <1>5 DEF EEKernelType
  <1> QED BY <1>5, <1>7, <1>8, <1>9, <1>10 DEF Taken, Limbo, m

(* Out of whatever it is in, as detach takes it.                           *)
LEMMA DetachTaken ==
  ASSUME NEW k, Whole(k), NEW i \in Thread \ {Idle}, k.state[i] # "Free"
  PROVE  Taken(k, Detach(k, i), i)
  <1>1. CASE k.state[i] \in {"Run", "Ready"}
    BY <1>1, TakeOffTaken DEF Detach
  <1>2. CASE k.state[i] \in {"Wait", "WaitSuspend"}
    BY <1>2, LeaveWaitTaken DEF Detach
  <1>3. CASE k.state[i] \notin {"Run", "Ready", "Wait", "WaitSuspend"}
    <2>1. Detach(k, i) = k  BY <1>3 DEF Detach
    <2>2. k \in EEKernelType /\ Held(k, PlaceOf(k)) /\ Fine(k, i)
          /\ PlaceOf(k) \in Places
      BY DEF Whole, Held
    <2>3. k.wait[i] = "NotWaiting"  BY <1>3, <2>2 DEF Fine, Waiting
    <2>4. PlaceOf(k)[i] = Nowhere  BY <1>3, <2>3, EEConstants DEF PlaceOf
    <2>5. [PlaceOf(k) EXCEPT ![i] = Nowhere] = PlaceOf(k)  BY <2>2, <2>4 DEF Places
    <2>6. ~Booting(k)  BY DEF Booting
    <2>7. Limbo(k, i)  BY <2>2, <2>5, <2>6 DEF Limbo, Whole
    <2> QED BY <2>1, <2>3, <2>7 DEF Taken
  <1> QED BY <1>1, <1>2, <1>3

(* A thread out of every queue may have its own fields written, and may be *)
(* left where it is or readied.                                            *)
LEMMA SameInLimbo ==
  ASSUME NEW k, NEW i, Limbo(k, i), NEW m, SameBut(k, m, i)
  PROVE  Limbo(m, i)
  <1>1. k \in EEKernelType  BY DEF Limbo, Held
  <1>2. [PlaceOf(m) EXCEPT ![i] = Nowhere] = [PlaceOf(k) EXCEPT ![i] = Nowhere]
    BY DEF PlaceOf, QueueOf, SameBut
  <1>3. Held(m, [PlaceOf(m) EXCEPT ![i] = Nowhere])
    BY <1>2 DEF Limbo, Held, SameBut
  <1>4. \A t \in Thread \ {i} : Fine(m, t)
    BY DEF Limbo, Fine, Framed, SameBut
  <1>5. i # Idle /\ Idle \in Thread  BY EEConstants DEF Limbo
  <1>6. m.state[Idle] = k.state[Idle]  BY <1>5 DEF SameBut
  <1>7. m.current = k.current /\ (k.current # i => m.state[k.current] = k.state[k.current])
    BY <1>1 DEF SameBut, EEKernelType
  <1> QED BY <1>3, <1>4, <1>5, <1>6, <1>7 DEF Limbo

LEMMA ApartSound ==
  ASSUME NEW k, NEW i \in Thread, Limbo(k, i), Fine(k, i),
         k.state[i] \notin {"Run", "Ready"}, k.wait[i] \notin Object
  PROVE  /\ k.current # i => Whole(k)
         /\ k.current = i /\ Framed(k, i) => Away(k)
  <1>1. k \in EEKernelType  BY DEF Limbo, Held
  <1>2. PlaceOf(k) = [PlaceOf(k) EXCEPT ![i] = Nowhere]
    BY DEF PlaceOf
  <1>3. Held(k, PlaceOf(k))  BY <1>2 DEF Limbo
  <1>4. \A t \in Thread : Fine(k, t)  BY DEF Limbo
  <1>5. k.current # i => Whole(k)
    BY <1>3, <1>4 DEF Limbo, Whole
  <1>6. ASSUME k.current = i, Framed(k, i)  PROVE Away(k)
    <2>1. \A t \in Thread : k.state[t] # "Run" /\ Framed(k, t)
      BY <1>4, <1>6 DEF Fine
    <2>2. k.state[Idle] = "Ready"  BY <2>1, EEConstants DEF Limbo
    <2> QED BY <1>3, <1>4, <2>1, <2>2 DEF Away
  <1> QED BY <1>5, <1>6

LEMMA LinkReadySound ==
  ASSUME NEW k, NEW i \in Thread, Limbo(k, i), Fine(k, i),
         k.state[i] = IF i = k.current THEN "Run" ELSE "Ready"
  PROVE  LET m == LinkReady(k, i)
         IN  /\ Whole(m) /\ m.current = k.current
             /\ k.requested \/ NoBetterBut(k, i) => m.requested \/ NoBetter(m)
  <1> DEFINE m == LinkReady(k, i)
             w == [PlaceOf(k) EXCEPT ![i] = Nowhere]
             v == [w EXCEPT ![i] = QueueOf(k, i)]
  <1>1. k \in EEKernelType /\ Held(k, w)  BY DEF Limbo, Held
  <1>2. w[i] = Nowhere  BY DEF PlaceOf
  <1>3. Held(m, v) /\ OnlyMoved(k, m)
        /\ m.requested = (k.requested \/ QueueOf(k, i) < QueueOf(k, k.current))
    BY <1>1, <1>2, LinkReadyHeld
  <1> HIDE DEF m
  <1>4. PlaceOf(m) = v  BY <1>3 DEF PlaceOf, QueueOf, OnlyMoved
  <1>5. \A t \in Thread : Fine(m, t)
    <2>1. \A t \in Thread : Fine(k, t)  BY DEF Limbo
    <2> QED BY <1>3, <2>1 DEF Fine, Framed, OnlyMoved
  <1>6. m.state = k.state /\ m.current = k.current  BY <1>3 DEF OnlyMoved
  <1>7. k.state[k.current] = "Run"  BY DEF Limbo
  <1>8. Whole(m)  BY <1>3, <1>4, <1>5, <1>6, <1>7 DEF Whole, Limbo
  <1>9. ASSUME k.requested \/ NoBetterBut(k, i), m.requested = FALSE
        PROVE  NoBetter(m)
    <2>0. k.requested \in BOOLEAN  BY <1>1 DEF EEKernelType
    <2>1. k.requested = FALSE /\ ~(QueueOf(k, i) < QueueOf(k, k.current))
      BY <1>3, <1>9, <2>0
    <2>2. NoBetterBut(k, i)  BY <1>9, <2>1
    <2>3. QueueOf(k, i) \in Nat /\ QueueOf(k, k.current) \in Nat
      BY <1>1, QueueOfIn, EEConstants DEF EEKernelType
    <2>4. QueueOf(k, k.current) <= QueueOf(k, i)  BY <2>1, <2>3
    <2>5. \A t \in Thread : QueueOf(m, t) = QueueOf(k, t)
      BY <1>3 DEF QueueOf, OnlyMoved
    <2>6. m.current \in Thread  BY <1>1, <1>6 DEF EEKernelType
    <2> QED BY <1>6, <2>2, <2>4, <2>5, <2>6 DEF NoBetter, NoBetterBut
  <1>10. m.requested \in BOOLEAN  BY <1>3 DEF OnlyMoved, EEKernelType
  <1> HIDE DEF w, v
  <1> QED BY <1>6, <1>8, <1>9, <1>10 DEF m

LEMMA MakeReadySound ==
  ASSUME NEW k, NEW i \in Thread, Limbo(k, i), i # k.current,
         k.wait[i] = "NotWaiting", Framed(k, i)
  PROVE  LET m == MakeReady(k, i)
         IN  /\ Whole(m) /\ m.current = k.current
             /\ k.requested \/ NoBetterBut(k, i) => m.requested \/ NoBetter(m)
  <1> DEFINE r == [k EXCEPT !.state = [k.state EXCEPT ![i] = "Ready"]]
  <1>1. k \in EEKernelType  BY DEF Limbo, Held
  <1>2. [k.state EXCEPT ![i] = "Ready"] \in [Thread -> State]
    BY <1>1 DEF EEKernelType, State
  <1>3. r \in EEKernelType  BY <1>1, <1>2 DEF EEKernelType
  <1>4. MakeReady(k, i) = LinkReady(r, i)
    BY <1>1 DEF MakeReady, EEKernelType
  <1>5. SameBut(k, r, i) /\ r.state[i] = "Ready" /\ r.wait = k.wait
        /\ r.result = k.result /\ r.byInterrupt = k.byInterrupt
        /\ r.current = k.current /\ r.priority = k.priority
    BY <1>1, <1>3 DEF EEKernelType, SameBut
  <1> HIDE DEF r
  <1>6. Limbo(r, i)  BY <1>5, SameInLimbo
  <1>7. Fine(r, i)  BY <1>5, EEConstants DEF Fine, Framed, Waiting
  <1>8. NoBetterBut(k, i) => NoBetterBut(r, i)
    BY <1>5 DEF NoBetterBut, QueueOf, SameBut
  <1>9. r.requested = k.requested  BY <1>5 DEF SameBut
  <1> QED BY <1>4, <1>5, <1>6, <1>7, <1>8, <1>9, LinkReadySound

-----------------------------------------------------------------------------
(* pickNext finds the head of the best ready queue, and once it runs no    *)
(* ready thread is better.                                                 *)
Settled(m) == Whole(m) /\ NoBetter(m) /\ m.state[m.current] = "Run"

LEMMA PickFindsBest ==
  ASSUME NEW k, Away(k)
  PROVE  LET q == Min(Filled(k))
         IN  /\ q \in Priority /\ k.links.head[q] \in Thread
             /\ k.state[k.links.head[q]] = "Ready"
             /\ QueueOf(k, k.links.head[q]) = q
             /\ \A p \in Priority : k.links.head[p] # None => q <= p
  <1> DEFINE w == PlaceOf(k)
             q == Min(Filled(k))
  <1>1. k \in EEKernelType /\ w \in Places /\ LinkedAs(k.links, w) /\ Ranked(k.links)
        /\ k.links \in Links
        /\ \A p \in Priority : k.links.head[p] # None => k.lowest <= p
    BY DEF Away, Held, EEKernelType
  <1>2. w[Idle] = IdlePriority
    BY EEConstants DEF Away, PlaceOf, QueueOf
  <1>3. k.links.head[IdlePriority] # None
    <2>1. w[Idle] # Nowhere  BY <1>2, EEConstants
    <2> QED BY <1>1, <1>2, <2>1, EEConstants, QueueHasHead
  <1>4. Filled(k) \in SUBSET Priority /\ IdlePriority \in Filled(k)
    <2>1. k.lowest \in Nat /\ IdlePriority \in Nat
      BY <1>1, EEConstants DEF EEKernelType
    <2>2. k.lowest <= IdlePriority  BY <1>1, <1>3, EEConstants
    <2> QED BY <1>3, <2>1, <2>2, EEConstants DEF Filled
  <1>5. q \in Filled(k) /\ \A p \in Filled(k) : q <= p
    BY <1>4, MinIsBest
  <1> HIDE DEF q
  <1>6. q \in Priority /\ q \in Queue /\ k.links.head[q] # None
    BY <1>5, EEConstants DEF Filled
  <1>7. k.links.head[q] \in Thread /\ w[k.links.head[q]] = q
    BY <1>1, <1>6 DEF LinkedAs, Links, Index
  <1>8. k.state[k.links.head[q]] \in {"Run", "Ready"} /\ QueueOf(k, k.links.head[q]) = q
    BY <1>1, <1>6, <1>7, PlaceTells
  <1>9. k.state[k.links.head[q]] = "Ready"
    BY <1>7, <1>8 DEF Away
  <1>10. ASSUME NEW p \in Priority, k.links.head[p] # None PROVE q <= p
    <2>1. k.lowest <= p /\ k.lowest \in Nat /\ p \in Nat
      BY <1>1, <1>10, EEConstants DEF EEKernelType
    <2>2. p \in Filled(k)  BY <1>10, <2>1 DEF Filled
    <2> QED BY <1>5, <2>2
  <1> QED BY <1>6, <1>7, <1>8, <1>9, <1>10 DEF q

LEMMA ResumeSettles ==
  ASSUME NEW k, Away(k)
  PROVE  Settled(ResumeNext(k))
  <1> DEFINE w == PlaceOf(k)
             q == Min(Filled(k))
             n == k.links.head[q]
             m == ResumeNext(k)
  <1>1. k \in EEKernelType /\ Held(k, w)  BY DEF Away, Held
  <1>2. q \in Priority /\ n \in Thread /\ k.state[n] = "Ready" /\ QueueOf(k, n) = q
        /\ \A p \in Priority : k.links.head[p] # None => q <= p
    BY PickFindsBest
  <1> HIDE DEF q
  <1>3. /\ [k.state EXCEPT ![n] = "Run"] \in [Thread -> State]
        /\ [k.result EXCEPT ![n] = "Live"] \in [Thread -> Result]
        /\ [k.byInterrupt EXCEPT ![n] = FALSE] \in [Thread -> BOOLEAN]
    BY <1>1 DEF EEKernelType, State, Result
  <1>4. m = [k EXCEPT !.lowest = q, !.current = n,
                      !.state = [k.state EXCEPT ![n] = "Run"],
                      !.result = [k.result EXCEPT ![n] = "Live"],
                      !.byInterrupt = [k.byInterrupt EXCEPT ![n] = FALSE]]
    BY <1>1 DEF ResumeNext, EEKernelType, q
  <1> HIDE DEF n, m
  <1>5. m \in EEKernelType  BY <1>1, <1>2, <1>3, <1>4 DEF EEKernelType
  <1>6. /\ m.links = k.links /\ m.lowest = q /\ m.current = n
        /\ m.state = [k.state EXCEPT ![n] = "Run"]
        /\ m.result = [k.result EXCEPT ![n] = "Live"]
        /\ m.byInterrupt = [k.byInterrupt EXCEPT ![n] = FALSE]
        /\ m.wait = k.wait /\ m.priority = k.priority /\ m.count = k.count
    BY <1>1, <1>3, <1>4 DEF EEKernelType
  <1>7. PlaceOf(m) = w
    BY <1>1, <1>2, <1>6 DEF PlaceOf, QueueOf, EEKernelType
  <1>8. Held(m, PlaceOf(m))
    BY <1>1, <1>2, <1>5, <1>6, <1>7 DEF Held
  <1>9. \A t \in Thread : Fine(m, t)
    <2> SUFFICES ASSUME NEW t \in Thread PROVE Fine(m, t)  OBVIOUS
    <2>1. Fine(k, t) /\ Framed(k, t) /\ k.state[t] # "Run"  BY DEF Away
    <2>2. CASE t = n
      BY <1>1, <1>2, <1>6, <2>1, <2>2 DEF Fine, Framed, Waiting, EEKernelType
    <2>3. CASE t # n
      BY <1>1, <1>2, <1>6, <2>1, <2>3 DEF Fine, Framed, Waiting, EEKernelType
    <2> QED BY <2>2, <2>3
  <1>10. m.state[m.current] = "Run" /\ m.state[Idle] \in {"Run", "Ready"}
    BY <1>1, <1>2, <1>6, EEConstants DEF Away, EEKernelType
  <1>11. NoBetter(m)
    <2> SUFFICES ASSUME NEW t \in Thread, m.state[t] = "Ready"
                 PROVE  QueueOf(m, m.current) <= QueueOf(m, t)
      BY DEF NoBetter, NoBetterBut
    <2>1. k.state[t] = "Ready"  BY <1>1, <1>6 DEF EEKernelType
    <2>2. w[t] = QueueOf(k, t) /\ w[t] \in Priority  BY <1>1, <2>1, PlaceTells
    <2>3. k.links.head[w[t]] # None
      <3>1. w[t] # Nowhere  BY <2>2, EEConstants
      <3> QED BY <1>1, <3>1, QueueHasHead DEF Held, EEKernelType
    <2>4. q <= QueueOf(k, t)  BY <1>2, <2>2, <2>3
    <2>5. QueueOf(m, t) = QueueOf(k, t) /\ QueueOf(m, m.current) = q
      BY <1>2, <1>6 DEF QueueOf
    <2> QED BY <2>4, <2>5
  <1> QED BY <1>8, <1>9, <1>10, <1>11 DEF Settled, Whole, m

(* The running thread stays in its queue, parked by its call with the      *)
(* answer r, or whole by an interrupt.                                     *)
LEMMA ParkedAway ==
  ASSUME NEW k, Whole(k), NEW m \in EEKernelType, NEW r \in Result, NEW b \in BOOLEAN,
         b = TRUE => r = "Live",
         m.links = k.links, m.lowest = k.lowest, m.current = k.current,
         m.wait = k.wait, m.priority = k.priority, m.count = k.count,
         m.state = [k.state EXCEPT ![k.current] = "Ready"],
         m.result = [k.result EXCEPT ![k.current] = r],
         m.byInterrupt = [k.byInterrupt EXCEPT ![k.current] = b]
  PROVE  Away(m)
  <1>1. k \in EEKernelType /\ Held(k, PlaceOf(k)) /\ k.current \in Thread
    BY DEF Whole, Held, EEKernelType
  <1>2. k.state[k.current] \in {"Run", "Ready"}  BY DEF Whole, Booting
  <1>3. PlaceOf(m) = PlaceOf(k)
    BY <1>1, <1>2 DEF PlaceOf, QueueOf, EEKernelType
  <1>4. Held(m, PlaceOf(m))  BY <1>1, <1>3 DEF Held
  <1>5. \A t \in Thread : Fine(m, t) /\ Framed(m, t) /\ m.state[t] # "Run"
    <2> SUFFICES ASSUME NEW t \in Thread
                 PROVE  Fine(m, t) /\ Framed(m, t) /\ m.state[t] # "Run"
      OBVIOUS
    <2>1. Fine(k, t)  BY DEF Whole
    <2>2. CASE t = k.current
      BY <1>1, <1>2, <2>1, <2>2 DEF Fine, Framed, Waiting, EEKernelType
    <2>3. CASE t # k.current
      BY <1>1, <2>1, <2>3 DEF Fine, Framed, Waiting, EEKernelType
    <2> QED BY <2>2, <2>3
  <1>6. m.state[Idle] = "Ready"
    BY <1>1, <1>5, EEConstants DEF Whole, EEKernelType
  <1> QED BY <1>4, <1>5, <1>6 DEF Away

LEMMA YieldSettles ==
  ASSUME NEW k, Whole(k)
  PROVE  Settled(Yield(k))
  <1> DEFINE p == Park(k, "Answer", FALSE)
             m == [p EXCEPT !.state[k.current] = "Ready"]
             S == [k.state EXCEPT ![k.current] = "Ready"]
             R == [k.result EXCEPT ![k.current] = "Answer"]
             B == [k.byInterrupt EXCEPT ![k.current] = FALSE]
  <1>1. k \in EEKernelType  BY DEF Whole, Held
  <1>2. S \in [Thread -> State] /\ R \in [Thread -> Result] /\ B \in [Thread -> BOOLEAN]
    BY <1>1 DEF EEKernelType, State, Result
  <1>3. m = [k EXCEPT !.state = S, !.result = R, !.byInterrupt = B]
    BY <1>1 DEF Park, EEKernelType
  <1>4. Yield(k) = ResumeNext(m)  BY DEF Yield
  <1> HIDE DEF m
  <1>5. m \in EEKernelType
    <2> HIDE DEF S, R, B
    <2> QED BY <1>1, <1>2, <1>3 DEF EEKernelType
  <1>6. /\ m.links = k.links /\ m.lowest = k.lowest /\ m.current = k.current
        /\ m.wait = k.wait /\ m.priority = k.priority /\ m.count = k.count
        /\ m.state = S /\ m.result = R /\ m.byInterrupt = B
    BY <1>1, <1>2, <1>3 DEF EEKernelType
  <1>7. Away(m)
    <2>1. "Answer" \in Result /\ FALSE \in BOOLEAN  BY DEF Result
    <2> QED BY <1>5, <1>6, <2>1, ParkedAway
  <1> QED BY <1>4, <1>7, ResumeSettles

-----------------------------------------------------------------------------
(* The inductive invariant.  A thread better than the running one is ready *)
(* only with a switch requested, and then only while an interrupt is being *)
(* served or a deletion is in its loop.                                    *)
EEInv ==
    /\ Whole(Kernel) /\ depth \in Nat
    /\ loop \in Object \cup {"NoLoop", "Load"}
    /\ requested = TRUE \/ NoBetter(Kernel)
    /\ depth = 0 /\ loop \notin Object => NoBetter(Kernel)

LEMMA KernelFields ==
  /\ Kernel.links = links /\ Kernel.lowest = lowest /\ Kernel.state = state
  /\ Kernel.wait = wait /\ Kernel.priority = priority /\ Kernel.initial = initial
  /\ Kernel.wakeups = wakeups /\ Kernel.result = result
  /\ Kernel.byInterrupt = byInterrupt /\ Kernel.requested = requested
  /\ Kernel.current = current /\ Kernel.count = count /\ Kernel.waiters = waiters
  BY DEF Kernel

LEMMA BecomesKernel ==
  ASSUME NEW m \in EEKernelType, Becomes(m)
  PROVE  Kernel' = m /\ requested' = m.requested
  BY DEF EEKernelType, Becomes, Kernel

LEMMA WholeType ==
  ASSUME NEW k, Whole(k)
  PROVE  k \in EEKernelType
  BY DEF Whole, Held

(* What the three ways to end a call need.                                 *)
LEMMA StaysInv ==
  ASSUME EEInv, NEW m, Whole(m), Becomes(m), UNCHANGED <<depth, loop>>,
         NoBetter(Kernel) => NoBetter(m),
         requested = TRUE \/ NoBetter(Kernel) => m.requested = TRUE \/ NoBetter(m)
  PROVE  EEInv'
  <1>1. Kernel' = m /\ requested' = m.requested  BY WholeType, BecomesKernel
  <1>2. Whole(Kernel') /\ (requested' = TRUE \/ NoBetter(Kernel'))
    BY <1>1 DEF EEInv
  <1> QED BY <1>1, <1>2 DEF EEInv

LEMMA SettledInv ==
  ASSUME EEInv, NEW m, Settled(m), Becomes(m), depth' \in Nat,
         loop' \in Object \cup {"NoLoop", "Load"}
  PROVE  EEInv'
  <1>1. Whole(m) /\ NoBetter(m)  BY DEF Settled
  <1>2. Kernel' = m  BY <1>1, WholeType, BecomesKernel
  <1> QED BY <1>1, <1>2 DEF EEInv

LEMMA AnsweredInv ==
  ASSUME EEInv, NEW m, Whole(m), Answered(m),
         InHandler => m.requested = TRUE \/ NoBetter(m)
  PROVE  EEInv'
  <1>1. CASE InHandler
    <2>1. Becomes(m) /\ UNCHANGED <<depth, loop>>  BY <1>1 DEF Answered
    <2>2. Kernel' = m /\ requested' = m.requested
      BY <2>1, WholeType, BecomesKernel
    <2>3. depth' # 0  BY <1>1, <2>1 DEF InHandler, EEInv
    <2> QED BY <1>1, <2>1, <2>2, <2>3 DEF EEInv
  <1>2. CASE ~InHandler
    <2>1. Becomes(Yield(m)) /\ UNCHANGED <<depth, loop>>  BY <1>2 DEF Answered
    <2>2. Settled(Yield(m))  BY YieldSettles
    <2> QED BY <2>1, <2>2, SettledInv DEF EEInv
  <1> QED BY <1>1, <1>2

LEMMA ReturnedInv ==
  ASSUME EEInv, NEW m, Whole(m), NoBetter(Kernel) => NoBetter(m), Returned(m)
  PROVE  EEInv'
  <1>1. depth = 0 /\ loop = "NoLoop" /\ Becomes(m) /\ UNCHANGED <<depth, loop>>
    BY DEF Returned, InThread
  <1>2. NoBetter(m)  BY <1>1, EEConstants DEF EEInv
  <1> QED BY <1>1, <1>2, StaysInv

LEMMA SwitchedInv ==
  ASSUME EEInv, NEW m, Away(m), Returned(ResumeNext(m))
  PROVE  EEInv'
  BY ResumeSettles, SettledInv DEF Returned, EEInv

(* A record in which nobody's place, reason or frame has changed.          *)
Like(k, m) ==
    /\ m \in EEKernelType
    /\ m.links = k.links /\ m.lowest = k.lowest /\ m.current = k.current
    /\ m.state = k.state /\ m.wait = k.wait /\ m.priority = k.priority
    /\ m.result = k.result /\ m.byInterrupt = k.byInterrupt

LEMMA LikeSound ==
  ASSUME NEW k, Whole(k), NEW m, Like(k, m),
         \A t \in Thread : k.wait[t] \in Object => m.count[k.wait[t]] = k.count[k.wait[t]]
  PROVE  Whole(m) /\ (NoBetter(k) <=> NoBetter(m))
  <1>1. PlaceOf(m) = PlaceOf(k)  BY DEF PlaceOf, QueueOf, Like
  <1>2. Held(m, PlaceOf(m))  BY <1>1 DEF Whole, Held, Like
  <1>3. \A t \in Thread : Fine(m, t)  BY DEF Whole, Fine, Framed, Like
  <1>4. Booting(k) => Booting(m)  BY DEF Booting, Framed, Like
  <1>5. NoBetter(k) <=> NoBetter(m)  BY DEF NoBetter, NoBetterBut, QueueOf, Like
  <1> QED BY <1>2, <1>3, <1>4, <1>5 DEF Whole, Like

LEMMA NoBetterKept ==
  ASSUME NEW k, NEW m, NoBetter(k), m.current = k.current, k.current \in Thread,
         QueueOf(m, k.current) = QueueOf(k, k.current),
         \A t \in Thread : m.state[t] = "Ready" => /\ k.state[t] = "Ready"
                                                   /\ m.priority[t] = k.priority[t]
  PROVE  NoBetter(m)
  BY DEF NoBetter, NoBetterBut, QueueOf

(* A semaphore whose count is not zero, or whose list is empty, has no     *)
(* waiter, and its count may be set.                                       *)
LEMMA NobodyWaits ==
  ASSUME NEW k, Whole(k), NEW s \in Object,
         k.count[s] # 0 \/ k.links.head[s] = None
  PROVE  \A t \in Thread : k.wait[t] # s
  <1> SUFFICES ASSUME NEW t \in Thread, k.wait[t] = s PROVE FALSE  OBVIOUS
  <1>1. k \in EEKernelType /\ Held(k, PlaceOf(k)) /\ Fine(k, t)  BY DEF Whole, Held
  <1>2. k.count[s] = 0  BY <1>1 DEF Fine
  <1>3. k.state[t] \in Waiting  BY <1>1, EEConstants DEF Fine
  <1>4. PlaceOf(k)[t] = s  BY <1>3 DEF PlaceOf, Waiting
  <1>5. k.links.head[s] # None
    <2>1. s # Nowhere  BY EEConstants
    <2> QED BY <1>1, <1>4, <2>1, QueueHasHead DEF Held, EEKernelType
  <1> QED BY <1>2, <1>5

LEMMA CountSound ==
  ASSUME NEW k, Whole(k), NEW s \in Object, NEW c \in Int,
         \A t \in Thread : k.wait[t] # s
  PROVE  LET m == [k EXCEPT !.count = [k.count EXCEPT ![s] = c]]
         IN  Whole(m) /\ (NoBetter(k) <=> NoBetter(m)) /\ m.requested = k.requested
  <1> DEFINE C == [k.count EXCEPT ![s] = c]
             m == [k EXCEPT !.count = C]
  <1>1. k \in EEKernelType  BY WholeType
  <1>2. C \in [Object -> Int]  BY <1>1 DEF EEKernelType
  <1>3. \A o \in Object : o # s => C[o] = k.count[o]  BY <1>1 DEF EEKernelType
  <1> HIDE DEF C
  <1>4. m \in EEKernelType  BY <1>1, <1>2 DEF EEKernelType
  <1>5. Like(k, m) /\ m.count = C /\ m.requested = k.requested
    BY <1>1, <1>2, <1>4 DEF Like, EEKernelType
  <1> HIDE DEF m
  <1>6. Whole(m) /\ (NoBetter(k) <=> NoBetter(m))  BY <1>3, <1>5, LikeSound
  <1> QED BY <1>5, <1>6 DEF m, C

-----------------------------------------------------------------------------
(* The calls that only write a count or a thread's wakeups.                *)
LEMMA InvType ==
  ASSUME EEInv
  PROVE  /\ Whole(Kernel) /\ Kernel \in EEKernelType
         /\ current \in Thread /\ requested \in BOOLEAN
         /\ count \in [Object -> Int] /\ state \in [Thread -> State]
         /\ wait \in [Thread -> WaitReason] /\ wakeups \in [Thread -> Nat]
         /\ links \in Links /\ priority \in [Thread -> 1 .. BootPriority]
         /\ result \in [Thread -> Result] /\ byInterrupt \in [Thread -> BOOLEAN]
         /\ \A t \in Thread : Fine(Kernel, t)
  <1>1. Whole(Kernel) /\ Kernel \in EEKernelType  BY WholeType DEF EEInv
  <1>2. \A t \in Thread : Fine(Kernel, t)  BY <1>1 DEF Whole
  <1> QED BY <1>1, <1>2, KernelFields DEF EEKernelType

LEMMA CountedSound ==
  ASSUME EEInv, NEW s \in Object, NEW c \in Int,
         count[s] # 0 \/ links.head[s] = None
  PROVE  LET m == [Kernel EXCEPT !.count[s] = c]
         IN  Whole(m) /\ (NoBetter(Kernel) <=> NoBetter(m)) /\ m.requested = requested
  <1> DEFINE m == [Kernel EXCEPT !.count = [Kernel.count EXCEPT ![s] = c]]
  <1>1. [Kernel EXCEPT !.count[s] = c] = m  BY DEF Kernel
  <1>2. \A t \in Thread : Kernel.wait[t] # s
    BY InvType, KernelFields, NobodyWaits
  <1>3. Whole(m) /\ (NoBetter(Kernel) <=> NoBetter(m)) /\ m.requested = Kernel.requested
    BY <1>2, InvType, CountSound
  <1> HIDE DEF m
  <1> QED BY <1>1, <1>3, KernelFields

LEMMA PollSemaInv ==
  ASSUME EEInv, NEW s \in Object, PollSema(s)
  PROVE  EEInv'
  <1> DEFINE m == [Kernel EXCEPT !.count[s] = count[s] - 1]
  <1>1. count[s] # 0 /\ count[s] - 1 \in Int  BY InvType DEF PollSema
  <1>2. Whole(m) /\ (NoBetter(Kernel) <=> NoBetter(m)) /\ m.requested = requested
    BY <1>1, CountedSound
  <1>3. Becomes(m) /\ UNCHANGED <<depth, loop>>  BY DEF PollSema, Kernel
  <1> HIDE DEF m
  <1> QED BY <1>2, <1>3, StaysInv

LEMMA CreateSemaInv ==
  ASSUME EEInv, NEW s \in Object, NEW start \in 0 .. MaxCount, CreateSema(s, start)
  PROVE  EEInv'
  <1> DEFINE c == [Kernel EXCEPT !.count[s] = start]
             W == [waiters EXCEPT ![s] = 0]
             l == [links EXCEPT !.head[s] = None, !.tail[s] = None]
             m == [Kernel EXCEPT !.count[s] = start, !.waiters[s] = 0,
                    !.links = [@ EXCEPT !.head[s] = None, !.tail[s] = None]]
  <1>1. count[s] # 0 /\ start \in Int /\ Returned(m)
    BY InvType, EEThreadAssumption DEF CreateSema
  <1>2. Whole(c) /\ (NoBetter(Kernel) <=> NoBetter(c)) /\ c.requested = requested
    BY <1>1, CountedSound
  <1>3. links.head[s] = None /\ links.tail[s] = None /\ links \in Links /\ s \in Queue
    <2>1. \A t \in Thread : wait[t] # s
      BY <1>1, InvType, KernelFields, NobodyWaits
    <2>2. Held(Kernel, PlaceOf(Kernel)) /\ s \in Queue /\ s \notin Priority
      BY InvType, EEConstants DEF Whole
    <2>3. \A t \in Thread : PlaceOf(Kernel)[t] # s
      BY <2>1, <2>2, InvType, EEConstants, KernelFields, PlaceTells
    <2> QED BY <2>2, <2>3, InvType, KernelFields DEF Held, LinkedAs, Links, Index
  <1>4. l = links  BY <1>3 DEF Links
  <1>5. m = [c EXCEPT !.waiters = W, !.links = l]  BY DEF Kernel
  <1> HIDE DEF c, l, W
  <1>6. c \in EEKernelType /\ c.links = links
    BY <1>2, WholeType DEF c, Kernel
  <1>7. W \in [Object -> Nat]  BY InvType, KernelFields DEF EEKernelType, W
  <1>8. m \in EEKernelType /\ Like(c, m) /\ m.count = c.count
    <2>1. m = [c EXCEPT !.waiters = W, !.links = links]  BY <1>4, <1>5
    <2> HIDE DEF m
    <2>2. m \in EEKernelType  BY <1>6, <1>7, <2>1, InvType DEF EEKernelType
    <2> QED BY <1>6, <1>7, <2>1, <2>2 DEF EEKernelType, Like
  <1> HIDE DEF m
  <1>9. Whole(m) /\ (NoBetter(c) <=> NoBetter(m))  BY <1>2, <1>8, LikeSound
  <1> QED BY <1>1, <1>2, <1>9, ReturnedInv

(* A count of wakeups, whoever's.                                          *)
LEMMA WakeupsSound ==
  ASSUME EEInv, NEW i \in Thread, NEW n \in Nat
  PROVE  LET m == [Kernel EXCEPT !.wakeups[i] = n]
         IN  Whole(m) /\ (NoBetter(Kernel) <=> NoBetter(m)) /\ m.requested = requested
  <1> DEFINE W == [wakeups EXCEPT ![i] = n]
             m == [Kernel EXCEPT !.wakeups[i] = n]
  <1>1. m = [Kernel EXCEPT !.wakeups = W]  BY DEF Kernel
  <1>2. W \in [Thread -> Nat]  BY InvType
  <1> HIDE DEF W, m
  <1>3. m \in EEKernelType  BY <1>1, <1>2, InvType DEF EEKernelType
  <1>4. Like(Kernel, m) /\ m.count = Kernel.count /\ m.requested = requested
    BY <1>1, <1>2, <1>3, InvType DEF Like, EEKernelType, Kernel
  <1> QED BY <1>4, LikeSound, InvType DEF m

LEMMA CancelWakeupInv ==
  ASSUME EEInv, NEW i \in Thread, CancelWakeupThread(i)
  PROVE  EEInv'
  <1> DEFINE m == [Kernel EXCEPT !.wakeups[i] = 0]
  <1>1. Whole(m) /\ (NoBetter(Kernel) <=> NoBetter(m)) /\ m.requested = requested
    BY WakeupsSound
  <1>2. Becomes(m) /\ UNCHANGED <<depth, loop>>  BY DEF CancelWakeupThread
  <1> HIDE DEF m
  <1> QED BY <1>1, <1>2, StaysInv

-----------------------------------------------------------------------------
(* A thread taken out of everything, and left there.                       *)
PutAway(k, m, i) ==
    /\ SameBut(k, m, i) /\ m.state[i] \in {"Suspend", "Dormant", "Free"}
    /\ m.wait[i] = "NotWaiting" /\ Framed(m, i)

LEMMA ResetPutsAway ==
  ASSUME NEW k \in EEKernelType, NEW i \in Thread
  PROVE  PutAway(k, ResetToDormant(k, i), i)
  <1> DEFINE S == [k.state EXCEPT ![i] = "Dormant"]
             P == [k.priority EXCEPT ![i] = k.initial[i]]
             W == [k.wait EXCEPT ![i] = "NotWaiting"]
             N == [k.wakeups EXCEPT ![i] = 0]
             R == [k.result EXCEPT ![i] = "Live"]
             m == ResetToDormant(k, i)
  <1>1. /\ S \in [Thread -> State] /\ P \in [Thread -> 1 .. BootPriority]
        /\ W \in [Thread -> WaitReason] /\ N \in [Thread -> Nat]
        /\ R \in [Thread -> Result]
    BY DEF EEKernelType, State, WaitReason, Result
  <1>2. m = [k EXCEPT !.state = S, !.priority = P, !.wait = W, !.wakeups = N,
                      !.result = R]
    BY DEF ResetToDormant, EEKernelType
  <1>3. m \in EEKernelType
    <2> HIDE DEF S, P, W, N, R, m
    <2> QED BY <1>1, <1>2 DEF EEKernelType
  <1>4. m.state = S /\ m.priority = P /\ m.wait = W /\ m.result = R
        /\ m.byInterrupt = k.byInterrupt /\ m.links = k.links /\ m.lowest = k.lowest
        /\ m.requested = k.requested /\ m.current = k.current /\ m.count = k.count
    <2> HIDE DEF S, P, W, N, R, m
    <2> QED BY <1>1, <1>2 DEF EEKernelType
  <1>5. m.state[i] = "Dormant" /\ m.wait[i] = "NotWaiting" /\ m.result[i] = "Live"
    BY <1>4 DEF EEKernelType
  <1>6. \A t \in Thread \ {i} :
          S[t] = k.state[t] /\ P[t] = k.priority[t] /\ W[t] = k.wait[t] /\ R[t] = k.result[t]
    BY DEF EEKernelType
  <1> HIDE DEF S, P, W, N, R, m
  <1> QED BY <1>3, <1>4, <1>5, <1>6 DEF PutAway, SameBut, Framed, m

LEMMA FreePutsAway ==
  ASSUME NEW k \in EEKernelType, NEW i \in Thread
  PROVE  PutAway(k, FreeThread(k, i), i)
  <1> DEFINE S == [k.state EXCEPT ![i] = "Free"]
             P == [k.priority EXCEPT ![i] = BootPriority]
             I == [k.initial EXCEPT ![i] = BootPriority]
             W == [k.wait EXCEPT ![i] = "NotWaiting"]
             N == [k.wakeups EXCEPT ![i] = 0]
             R == [k.result EXCEPT ![i] = "Live"]
             B == [k.byInterrupt EXCEPT ![i] = FALSE]
             m == FreeThread(k, i)
  <1>1. /\ S \in [Thread -> State] /\ P \in [Thread -> 1 .. BootPriority]
        /\ I \in [Thread -> 1 .. BootPriority]
        /\ W \in [Thread -> WaitReason] /\ N \in [Thread -> Nat]
        /\ R \in [Thread -> Result] /\ B \in [Thread -> BOOLEAN]
    BY EEConstants DEF EEKernelType, State, WaitReason, Result
  <1>2. m = [k EXCEPT !.state = S, !.priority = P, !.initial = I, !.wait = W,
                      !.wakeups = N, !.result = R, !.byInterrupt = B]
    BY DEF FreeThread, EEKernelType
  <1>3. m \in EEKernelType
    <2> HIDE DEF S, P, I, W, N, R, B, m
    <2> QED BY <1>1, <1>2 DEF EEKernelType
  <1>4. m.state = S /\ m.priority = P /\ m.wait = W /\ m.result = R
        /\ m.byInterrupt = B /\ m.links = k.links /\ m.lowest = k.lowest
        /\ m.requested = k.requested /\ m.current = k.current /\ m.count = k.count
    <2> HIDE DEF S, P, I, W, N, R, B, m
    <2> QED BY <1>1, <1>2 DEF EEKernelType
  <1>5. m.state[i] = "Free" /\ m.wait[i] = "NotWaiting" /\ m.result[i] = "Live"
    BY <1>4 DEF EEKernelType
  <1>6. \A t \in Thread \ {i} :
          S[t] = k.state[t] /\ P[t] = k.priority[t] /\ W[t] = k.wait[t]
          /\ R[t] = k.result[t] /\ B[t] = k.byInterrupt[t]
    BY DEF EEKernelType
  <1> HIDE DEF S, P, I, W, N, R, B, m
  <1> QED BY <1>3, <1>4, <1>5, <1>6 DEF PutAway, SameBut, Framed, m

(* Suspended, out of its queue or off its list.                            *)
LEMMA SuspendPutsAway ==
  ASSUME NEW k \in EEKernelType, NEW i \in Thread, k.wait[i] = "NotWaiting", Framed(k, i)
  PROVE  PutAway(k, [k EXCEPT !.state[i] = "Suspend"], i)
  <1> DEFINE S == [k.state EXCEPT ![i] = "Suspend"]
             m == [k EXCEPT !.state[i] = "Suspend"]
  <1>1. S \in [Thread -> State]  BY DEF EEKernelType, State
  <1>2. m = [k EXCEPT !.state = S]  BY DEF EEKernelType
  <1>3. S[i] = "Suspend" /\ \A t \in Thread \ {i} : S[t] = k.state[t]
    BY DEF EEKernelType
  <1> HIDE DEF S, m
  <1>4. m \in EEKernelType  BY <1>1, <1>2 DEF EEKernelType
  <1>5. m.state = S /\ m.priority = k.priority /\ m.wait = k.wait /\ m.result = k.result
        /\ m.byInterrupt = k.byInterrupt /\ m.links = k.links /\ m.lowest = k.lowest
        /\ m.requested = k.requested /\ m.current = k.current /\ m.count = k.count
    BY <1>1, <1>2 DEF EEKernelType
  <1> QED BY <1>3, <1>4, <1>5 DEF PutAway, SameBut, Framed, m

(* A thread other than the running one, taken out of everything it is in   *)
(* and put away, or one that was in nothing; the running one taken out.    *)
LEMMA PutAwaySound ==
  ASSUME NEW k, NEW i \in Thread, Limbo(k, i), NEW m, PutAway(k, m, i)
  PROVE  /\ m.current = k.current /\ m.requested = k.requested
         /\ i # k.current => Whole(m)
         /\ i = k.current => Away(m)
  <1>1. Limbo(m, i)  BY SameInLimbo DEF PutAway
  <1>2. m.current = k.current /\ m.requested = k.requested
    BY DEF PutAway, SameBut
  <1>3. Fine(m, i) /\ m.state[i] \notin {"Run", "Ready"} /\ m.wait[i] \notin Object
    BY EEConstants DEF PutAway, Fine, Waiting
  <1> QED BY <1>1, <1>2, <1>3, ApartSound DEF PutAway

LEMMA PutAwayNoBetter ==
  ASSUME NEW k, Whole(k), NoBetter(k), NEW i \in Thread, i # k.current,
         NEW x, Taken(k, x, i), NEW m, PutAway(x, m, i)
  PROVE  NoBetter(m)
  <1>1. k \in EEKernelType /\ k.current \in Thread  BY WholeType DEF EEKernelType
  <1>2. m.current = k.current /\ m.priority[k.current] = k.priority[k.current]
    BY <1>1 DEF Taken, PutAway, SameBut
  <1>3. \A t \in Thread : m.state[t] = "Ready" => /\ k.state[t] = "Ready"
                                                  /\ m.priority[t] = k.priority[t]
    BY DEF Taken, PutAway, SameBut
  <1> QED BY <1>1, <1>2, <1>3, NoBetterKept DEF QueueOf

LEMMA TakenType ==
  ASSUME NEW k, NEW x, NEW i, Taken(k, x, i)
  PROVE  x \in EEKernelType
  BY DEF Taken, Limbo, Held

LEMMA RunningRuns ==
  ASSUME EEInv, current # Idle
  PROVE  state[current] = "Run"
  BY KernelFields, InvType DEF Whole, Booting

LEMMA InNothing ==
  ASSUME EEInv, NEW i \in Thread \ {Idle}, state[i] \in {"Free", "Dormant", "Suspend"},
         state[current] = "Run"
  PROVE  /\ Taken(Kernel, Kernel, i) /\ i # current
         /\ links.next[i] = None /\ links.prev[i] = None
  <1>1. Held(Kernel, PlaceOf(Kernel)) /\ PlaceOf(Kernel) \in Places
    BY InvType DEF Whole, Held
  <1>2. wait[i] = "NotWaiting"
    BY InvType, KernelFields DEF Fine, Waiting
  <1>3. PlaceOf(Kernel)[i] = Nowhere
    BY <1>2, KernelFields, EEConstants DEF PlaceOf
  <1>4. [PlaceOf(Kernel) EXCEPT ![i] = Nowhere] = PlaceOf(Kernel)
    BY <1>1, <1>3 DEF Places
  <1>5. Limbo(Kernel, i)
    BY <1>1, <1>4, InvType, KernelFields DEF Limbo, Whole
  <1>6. links.next[i] = None /\ links.prev[i] = None
    BY <1>1, <1>3, KernelFields DEF Held, LinkedAs
  <1> QED BY <1>2, <1>5, <1>6, KernelFields DEF Taken

LEMMA CreateThreadInv ==
  ASSUME EEInv, NEW i \in Target, NEW p \in CallPriority, CreateThread(i, p)
  PROVE  EEInv'
  <1> DEFINE B == [byInterrupt EXCEPT ![i] = FALSE]
             I == [initial EXCEPT ![i] = p]
             x == [Kernel EXCEPT !.byInterrupt[i] = FALSE, !.initial[i] = p,
                     !.links = [@ EXCEPT !.next[i] = None, !.prev[i] = None]]
             m == ResetToDormant(x, i)
  <1>1. state[i] = "Free" /\ Returned(m) /\ current # Idle /\ i \in Thread \ {Idle}
    BY DEF CreateThread, Returned, InThread, Target
  <1>2. Limbo(Kernel, i) /\ i # current /\ links.next[i] = None /\ links.prev[i] = None
    BY <1>1, RunningRuns, InNothing DEF Taken
  <1>3. [links EXCEPT !.next[i] = None, !.prev[i] = None] = links
    BY <1>1, <1>2, InvType DEF Links
  <1>4. x = [Kernel EXCEPT !.byInterrupt = B, !.initial = I, !.links = links]
    BY <1>3 DEF Kernel
  <1>5. B \in [Thread -> BOOLEAN] /\ I \in [Thread -> 1 .. BootPriority]
    BY InvType, KernelFields, EEConstants DEF EEKernelType
  <1>6. \A t \in Thread \ {i} : B[t] = byInterrupt[t]  BY InvType
  <1> HIDE DEF B, I, x
  <1>7. x \in EEKernelType  BY <1>4, <1>5, InvType DEF EEKernelType
  <1>8. SameBut(Kernel, x, i)
    BY <1>4, <1>5, <1>6, <1>7, InvType, KernelFields DEF SameBut, EEKernelType
  <1>9. Limbo(x, i)  BY <1>2, <1>8, SameInLimbo
  <1>10. PutAway(x, m, i)  BY <1>1, <1>7, ResetPutsAway
  <1> HIDE DEF m
  <1>11. Whole(m) /\ m.current = current
    BY <1>1, <1>2, <1>8, <1>9, <1>10, KernelFields, PutAwaySound DEF SameBut
  <1>12. NoBetter(Kernel) => NoBetter(m)
    <2>1. m.priority[current] = priority[current]
      BY <1>2, <1>8, <1>10, KernelFields, InvType DEF PutAway, SameBut
    <2>2. \A t \in Thread : m.state[t] = "Ready" => /\ state[t] = "Ready"
                                                    /\ m.priority[t] = priority[t]
      BY <1>8, <1>10, KernelFields DEF PutAway, SameBut
    <2> QED BY <1>11, <2>1, <2>2, NoBetterKept, KernelFields, InvType DEF QueueOf
  <1> QED BY <1>1, <1>11, <1>12, ReturnedInv

LEMMA DeleteThreadInv ==
  ASSUME EEInv, NEW i \in Target, DeleteThread(i)
  PROVE  EEInv'
  <1> DEFINE m == FreeThread(Kernel, i)
  <1>1. state[i] = "Dormant" /\ Returned(m) /\ current # Idle /\ i \in Thread \ {Idle}
    BY DEF DeleteThread, Returned, InThread, Target
  <1>2. Taken(Kernel, Kernel, i) /\ i # current
    BY <1>1, RunningRuns, InNothing
  <1>3. PutAway(Kernel, m, i)  BY <1>1, InvType, FreePutsAway
  <1> HIDE DEF m
  <1>4. Whole(m)
    BY <1>1, <1>2, <1>3, PutAwaySound, KernelFields DEF Taken
  <1>5. NoBetter(Kernel) => NoBetter(m)
    BY <1>1, <1>2, <1>3, PutAwayNoBetter, KernelFields, InvType
  <1> QED BY <1>1, <1>4, <1>5, ReturnedInv

LEMMA ExitInv ==
  ASSUME EEInv, ExitThread \/ ExitDeleteThread
  PROVE  EEInv'
  <1> DEFINE x == TakeOffReadyQueue(Kernel, current)
  <1>1. PICK m \in {ResetToDormant(x, current), FreeThread(x, current)} :
          Returned(ResumeNext(m))
    BY DEF ExitThread, ExitDeleteThread
  <1>2. current \in Thread \ {Idle} /\ state[current] = "Run"
    BY <1>1, RunningRuns, InvType DEF Returned, InThread
  <1>3. Taken(Kernel, x, current)
    BY <1>2, InvType, KernelFields, TakeOffTaken
  <1> HIDE DEF x
  <1>4. x \in EEKernelType  BY <1>3, TakenType
  <1>5. PutAway(x, m, current)  BY <1>1, <1>2, <1>4, ResetPutsAway, FreePutsAway
  <1>6. Away(m)
    BY <1>2, <1>3, <1>5, PutAwaySound, KernelFields DEF Taken
  <1> QED BY <1>1, <1>6, SwitchedInv

LEMMA TerminateInv ==
  ASSUME EEInv, Unsafe = {}, NEW i \in Target, TerminateThread(i)
  PROVE  EEInv'
  <1> DEFINE x == Detach(Kernel, i)
             m == ResetToDormant(x, i)
  <1>1. i \in Thread \ {Idle} /\ state[i] # "Free"  BY DEF TerminateThread, Target
  <1>2. Taken(Kernel, x, i)  BY <1>1, InvType, KernelFields, DetachTaken
  <1>3. IF i = current THEN Returned(ResumeNext(m)) ELSE Answered(m)
    BY DEF TerminateThread, Answered
  <1> HIDE DEF x
  <1>4. PutAway(x, m, i)  BY <1>1, <1>2, TakenType, ResetPutsAway
  <1> HIDE DEF m
  <1>5. CASE i = current
    <2>1. Away(m)  BY <1>1, <1>2, <1>4, <1>5, PutAwaySound, KernelFields DEF Taken
    <2> QED BY <1>3, <1>5, <2>1, SwitchedInv
  <1>6. CASE i # current
    <2>1. Whole(m) /\ m.requested = requested
      BY <1>1, <1>2, <1>4, <1>6, PutAwaySound, KernelFields DEF Taken
    <2>2. NoBetter(Kernel) => NoBetter(m)
      BY <1>1, <1>2, <1>4, <1>6, PutAwayNoBetter, KernelFields, InvType
    <2>3. m.requested = TRUE \/ NoBetter(m)  BY <2>1, <2>2 DEF EEInv
    <2> QED BY <1>3, <1>6, <2>1, <2>3, AnsweredInv
  <1> QED BY <1>5, <1>6

LEMMA TerminateOtherInv ==
  ASSUME EEInv, NEW i \in Target, TerminateOther(i)
  PROVE  EEInv'
  <1> DEFINE x == Detach(Kernel, i)
             m == FreeThread(x, i)
  <1>1. /\ i \in Thread \ {Idle} /\ state[i] # "Free" /\ i # current
        /\ Becomes(m) /\ UNCHANGED <<depth, loop>>
    BY DEF TerminateOther, Other, Target
  <1>2. Taken(Kernel, x, i)  BY <1>1, InvType, KernelFields, DetachTaken
  <1> HIDE DEF x
  <1>3. PutAway(x, m, i)  BY <1>1, <1>2, TakenType, FreePutsAway
  <1> HIDE DEF m
  <1>4. Whole(m) /\ m.requested = requested
    BY <1>1, <1>2, <1>3, PutAwaySound, KernelFields DEF Taken
  <1>5. NoBetter(Kernel) => NoBetter(m)
    BY <1>1, <1>2, <1>3, PutAwayNoBetter, KernelFields, InvType
  <1> QED BY <1>1, <1>4, <1>5, StaysInv

-----------------------------------------------------------------------------
(* Readying a thread that was in nothing, or that waited.                  *)
LEMMA ReadiedSound ==
  ASSUME NEW k, Whole(k), k.requested = TRUE \/ NoBetter(k),
         NEW i \in Thread, i # k.current, NEW x, Taken(k, x, i)
  PROVE  LET m == MakeReady(x, i)
         IN  Whole(m) /\ m.current = k.current /\ (m.requested = TRUE \/ NoBetter(m))
  <1>1. Limbo(x, i) /\ x.wait[i] = "NotWaiting" /\ x.current = k.current
        /\ x.requested = k.requested
    BY DEF Taken
  <1>2. Framed(x, i)  BY DEF Whole, Fine, Framed, Taken
  <1>3. NoBetter(k) => NoBetterBut(x, i)
    BY NoneIsNoThread DEF NoBetter, NoBetterBut, QueueOf, Taken
  <1>4. LET m == MakeReady(x, i)
        IN  /\ Whole(m) /\ m.current = x.current
            /\ x.requested \/ NoBetterBut(x, i) => m.requested \/ NoBetter(m)
    BY <1>1, <1>2, MakeReadySound
  <1>5. MakeReady(x, i).requested \in BOOLEAN
    BY <1>4, WholeType DEF EEKernelType
  <1> QED BY <1>1, <1>3, <1>4, <1>5

LEMMA WokenSound ==
  ASSUME NEW k, Whole(k), k.requested = TRUE \/ NoBetter(k),
         NEW i \in Thread \ {Idle}, k.state[i] \in Waiting, NEW x, Taken(k, x, i)
  PROVE  LET m == IF k.state[i] = "Wait" THEN MakeReady(x, i)
                  ELSE [x EXCEPT !.state[i] = "Suspend"]
         IN  /\ Whole(m) /\ (m.requested = TRUE \/ NoBetter(m))
  <1>1. k.current # i  BY DEF Whole, Booting, Waiting
  <1>2. CASE k.state[i] = "Wait"
    BY <1>1, <1>2, ReadiedSound
  <1>3. CASE k.state[i] # "Wait"
    <2> DEFINE m == [x EXCEPT !.state[i] = "Suspend"]
    <2>1. Framed(x, i) /\ x.wait[i] = "NotWaiting"
      BY <1>1 DEF Taken, Framed, Whole, Fine
    <2>2. PutAway(x, m, i)  BY <2>1, TakenType, SuspendPutsAway
    <2> HIDE DEF m
    <2>3. Whole(m) /\ m.requested = k.requested
      BY <1>1, <2>2, PutAwaySound DEF Taken
    <2>4. NoBetter(k) => NoBetter(m)
      BY <1>1, <2>2, PutAwayNoBetter
    <2> QED BY <1>3, <2>3, <2>4 DEF m
  <1> QED BY <1>2, <1>3

LEMMA WakeWaiterSound ==
  ASSUME NEW k, Whole(k), k.requested = TRUE \/ NoBetter(k),
         NEW i \in Thread \ {Idle}, k.state[i] \in Waiting
  PROVE  LET m == WakeWaiter(k, i)
         IN  /\ Whole(m) /\ (m.requested = TRUE \/ NoBetter(m))
  <1>1. Taken(k, LeaveWaitList(k, i), i)  BY LeaveWaitTaken DEF Waiting
  <1> QED BY <1>1, WokenSound DEF WakeWaiter

LEMMA StartThreadInv ==
  ASSUME EEInv, NEW i \in Target, StartThread(i)
  PROVE  EEInv'
  <1> DEFINE m == MakeReady(Kernel, i)
  <1>1. state[i] = "Dormant" /\ Returned(Yield(m)) /\ current # Idle /\ i \in Thread \ {Idle}
    BY DEF StartThread, Returned, InThread, Target
  <1>2. Taken(Kernel, Kernel, i) /\ i # current
    BY <1>1, RunningRuns, InNothing
  <1>3. Whole(m)
    BY <1>1, <1>2, ReadiedSound, InvType, KernelFields DEF EEInv
  <1> HIDE DEF m
  <1>4. Settled(Yield(m))  BY <1>3, YieldSettles
  <1> QED BY <1>1, <1>4, SettledInv DEF Returned, EEInv

(* An answer written into the frame of a thread that its own call parked.  *)
LEMMA ResultSound ==
  ASSUME NEW k, Whole(k), NEW i \in Thread, k.byInterrupt[i] = FALSE, NEW r \in Result
  PROVE  LET m == [k EXCEPT !.result[i] = r]
         IN  /\ Whole(m) /\ (NoBetter(k) => NoBetter(m))
             /\ m.requested = k.requested /\ m.state = k.state /\ m.links = k.links
             /\ m.wait = k.wait
  <1> DEFINE R == [k.result EXCEPT ![i] = r]
             m == [k EXCEPT !.result[i] = r]
  <1>1. k \in EEKernelType /\ Held(k, PlaceOf(k))  BY WholeType DEF Whole
  <1>2. R \in [Thread -> Result] /\ \A t \in Thread \ {i} : R[t] = k.result[t]
    BY <1>1 DEF EEKernelType
  <1>3. m = [k EXCEPT !.result = R]  BY <1>1 DEF EEKernelType
  <1> HIDE DEF R, m
  <1>4. m \in EEKernelType  BY <1>1, <1>2, <1>3 DEF EEKernelType
  <1>5. m.links = k.links /\ m.lowest = k.lowest /\ m.current = k.current
        /\ m.state = k.state /\ m.wait = k.wait /\ m.priority = k.priority
        /\ m.byInterrupt = k.byInterrupt /\ m.count = k.count
        /\ m.requested = k.requested /\ m.result = R
    BY <1>1, <1>3 DEF EEKernelType
  <1>6. PlaceOf(m) = PlaceOf(k)  BY <1>5 DEF PlaceOf, QueueOf
  <1>7. Held(m, PlaceOf(m))  BY <1>1, <1>4, <1>5, <1>6 DEF Held
  <1>8. \A t \in Thread : Fine(m, t)
    <2> SUFFICES ASSUME NEW t \in Thread PROVE Fine(m, t)  OBVIOUS
    <2>1. Fine(k, t)  BY DEF Whole
    <2>2. CASE t = i  BY <1>5, <2>1, <2>2 DEF Fine, Framed
    <2>3. CASE t # i  BY <1>2, <1>5, <2>1, <2>3 DEF Fine, Framed
    <2> QED BY <2>2, <2>3
  <1>9. NoBetter(k) => NoBetter(m)  BY <1>5 DEF NoBetter, NoBetterBut, QueueOf
  <1>10. Booting(k) => Booting(m)  BY <1>2, <1>5, EEConstants DEF Booting, Framed
  <1> QED BY <1>5, <1>7, <1>8, <1>9, <1>10 DEF Whole, m

(* A waiter suspended, or resumed, stays on its list.                      *)
LEMMA StillWaitsSound ==
  ASSUME NEW k, Whole(k), NEW i \in Thread \ {Idle}, k.state[i] \in Waiting, NEW z \in Waiting
  PROVE  LET m == [k EXCEPT !.state[i] = z]
         IN  /\ Whole(m) /\ (NoBetter(k) => NoBetter(m)) /\ m.requested = k.requested
  <1> DEFINE S == [k.state EXCEPT ![i] = z]
             m == [k EXCEPT !.state[i] = z]
  <1>1. k \in EEKernelType /\ Held(k, PlaceOf(k))  BY WholeType DEF Whole
  <1>2. S \in [Thread -> State] /\ S[i] = z /\ \A t \in Thread \ {i} : S[t] = k.state[t]
    BY <1>1 DEF EEKernelType, State, Waiting
  <1>3. m = [k EXCEPT !.state = S]  BY <1>1 DEF EEKernelType
  <1> HIDE DEF S, m
  <1>4. m \in EEKernelType  BY <1>1, <1>2, <1>3 DEF EEKernelType
  <1>5. m.links = k.links /\ m.lowest = k.lowest /\ m.current = k.current
        /\ m.state = S /\ m.wait = k.wait /\ m.priority = k.priority
        /\ m.byInterrupt = k.byInterrupt /\ m.count = k.count
        /\ m.requested = k.requested /\ m.result = k.result
    BY <1>1, <1>3 DEF EEKernelType
  <1>6. PlaceOf(m) = PlaceOf(k)
    BY <1>2, <1>5 DEF PlaceOf, QueueOf, Waiting
  <1>7. Held(m, PlaceOf(m))  BY <1>1, <1>4, <1>5, <1>6 DEF Held
  <1>8. \A t \in Thread : Fine(m, t)
    BY <1>2, <1>5 DEF Whole, Fine, Framed, Waiting
  <1>9. NoBetter(k) => NoBetter(m)
    BY <1>2, <1>5 DEF NoBetter, NoBetterBut, QueueOf, Waiting
  <1>10. ~Booting(k)  BY DEF Booting, Waiting
  <1>11. m.state[m.current] = "Run" /\ m.state[Idle] \in {"Run", "Ready"}
    BY <1>1, <1>2, <1>5, <1>10, EEConstants DEF Whole, Waiting, EEKernelType
  <1> QED BY <1>5, <1>7, <1>8, <1>9, <1>11 DEF Whole, m

LEMMA AliveRuns ==
  ASSUME EEInv, NEW i \in Target, state[i] # "Free"
  PROVE  state[current] = "Run" /\ i \in Thread \ {Idle} /\ (i = current <=> state[i] = "Run")
  <1>1. ~Booting(Kernel)  BY KernelFields DEF Booting, Target
  <1>2. state[current] = "Run"  BY <1>1, InvType, KernelFields DEF Whole
  <1> QED BY <1>2, InvType, KernelFields DEF Fine, Target

LEMMA ReleaseWaitInv ==
  ASSUME EEInv, NEW i \in Target, ReleaseWaitThread(i)
  PROVE  EEInv'
  <1> DEFINE k == [Kernel EXCEPT !.result[i] = "Refused"]
             x == LeaveWaitList(Kernel, i)
             y == [x EXCEPT !.result[i] = "Refused"]
  <1>1. i \in Thread \ {Idle} /\ state[i] # "Free" /\ "Refused" \in Result
    BY DEF ReleaseWaitThread, Target, Result
  <1>2. CASE state[i] \notin Waiting
    <2>1. Answered(Kernel)  BY <1>2 DEF ReleaseWaitThread, Waiting
    <2> QED BY <2>1, AnsweredInv, InvType, KernelFields DEF EEInv
  <1>3. CASE state[i] \in Waiting
    <2>1. byInterrupt[i] = FALSE  BY <1>1, <1>3, InvType, KernelFields DEF Fine
    <2>2. /\ Whole(k) /\ (NoBetter(Kernel) => NoBetter(k))
          /\ k.requested = requested /\ k.state = state /\ k.wait = wait
      <3>1. Kernel.byInterrupt[i] = FALSE /\ i \in Thread /\ Whole(Kernel)
        BY <1>1, <2>1, KernelFields, InvType
      <3> HIDE DEF x, y
      <3>2. /\ Whole(k) /\ (NoBetter(Kernel) => NoBetter(k))
            /\ k.requested = Kernel.requested /\ k.state = Kernel.state
            /\ k.wait = Kernel.wait
        BY <1>1, <3>1, ResultSound, Zenon
      <3> HIDE DEF k
      <3> QED BY <3>2, KernelFields
    <2>3. Taken(Kernel, x, i)
      BY <1>1, <1>3, LeaveWaitTaken, InvType, KernelFields DEF Waiting
    <2> HIDE DEF x
    <2>4. Taken(k, y, i)
      <3> DEFINE R == [result EXCEPT ![i] = "Refused"]
      <3>1. x \in EEKernelType /\ x.result = result  BY <2>3, TakenType, KernelFields DEF Taken
      <3>2. R \in [Thread -> Result] /\ \A t \in Thread \ {i} : R[t] = result[t]
        BY <1>1, InvType
      <3>3. y = [x EXCEPT !.result = R] /\ k = [Kernel EXCEPT !.result = R]
        BY <3>1 DEF Kernel
      <3> HIDE DEF R, y, k
      <3>4. y \in EEKernelType  BY <3>1, <3>2, <3>3 DEF EEKernelType
      <3>5. /\ SameBut(x, y, i) /\ y.wait = x.wait /\ y.state = x.state
            /\ y.priority = x.priority /\ y.initial = x.initial /\ y.result = R
            /\ y.byInterrupt = x.byInterrupt
        BY <3>1, <3>2, <3>3, <3>4 DEF EEKernelType, SameBut
      <3>6. /\ k.state = state /\ k.priority = priority /\ k.initial = initial
            /\ k.result = R /\ k.byInterrupt = byInterrupt /\ k.current = current
            /\ k.count = count /\ k.requested = requested
        BY <3>3 DEF Kernel
      <3>7. Limbo(y, i)  BY <2>3, <3>5, SameInLimbo DEF Taken
      <3> QED BY <2>3, <3>5, <3>6, <3>7, KernelFields DEF Taken, SameBut
    <2>5. Answered(IF state[i] = "Wait" THEN MakeReady(y, i)
                   ELSE [y EXCEPT !.state[i] = "Suspend"])
      BY <1>3 DEF ReleaseWaitThread, Waiting, x
    <2> HIDE DEF y, k
    <2>6. LET m == IF state[i] = "Wait" THEN MakeReady(y, i)
                   ELSE [y EXCEPT !.state[i] = "Suspend"]
          IN  Whole(m) /\ (m.requested = TRUE \/ NoBetter(m))
      BY <1>1, <1>3, <2>2, <2>4, WokenSound DEF EEInv
    <2> QED BY <2>5, <2>6, AnsweredInv
  <1> QED BY <1>2, <1>3

LEMMA WakeupInv ==
  ASSUME EEInv, NEW i \in Target, WakeupThread(i)
  PROVE  EEInv'
  <1>1. i \in Thread \ {Idle}  BY DEF Target
  <1>2. CASE wait[i] = "Sleeping"
    <2> DEFINE x == [Kernel EXCEPT !.wait[i] = "NotWaiting"]
    <2>1. state[i] \in Waiting
      BY <1>1, <1>2, InvType, KernelFields, EEConstants DEF Fine
    <2>2. x = LeaveWaitList(Kernel, i)
      BY <1>2, KernelFields, EEConstants DEF LeaveWaitList
    <2>3. Answered(IF state[i] = "Wait" THEN MakeReady(x, i)
                   ELSE [x EXCEPT !.state[i] = "Suspend"])
      BY <1>2 DEF WakeupThread
    <2> HIDE DEF x
    <2>4. Answered(WakeWaiter(Kernel, i))
      BY <2>2, <2>3, KernelFields DEF WakeWaiter
    <2>5. LET m == WakeWaiter(Kernel, i) IN Whole(m) /\ (m.requested = TRUE \/ NoBetter(m))
      BY <1>1, <2>1, WakeWaiterSound, InvType, KernelFields DEF EEInv
    <2> QED BY <2>4, <2>5, AnsweredInv
  <1>3. CASE wait[i] # "Sleeping"
    <2> DEFINE m == [Kernel EXCEPT !.wakeups[i] = wakeups[i] + 1]
    <2>1. Answered(m)  BY <1>3 DEF WakeupThread, Kernel
    <2>2. wakeups[i] + 1 \in Nat  BY <1>1, InvType
    <2>3. Whole(m) /\ (NoBetter(Kernel) <=> NoBetter(m)) /\ m.requested = requested
      BY <1>1, <2>2, WakeupsSound
    <2> HIDE DEF m
    <2> QED BY <2>1, <2>3, AnsweredInv DEF EEInv
  <1> QED BY <1>2, <1>3

LEMMA SuspendInv ==
  ASSUME EEInv, Unsafe = {}, NEW i \in Target, SuspendThread(i)
  PROVE  EEInv'
  <1>1. /\ i \in Thread \ {Idle} /\ state[i] \in {"Ready", "Wait"}
        /\ UNCHANGED <<depth, loop>>
    BY DEF SuspendThread, Target
  <1>2. i # current  BY <1>1, AliveRuns
  <1>3. CASE state[i] = "Wait"
    <2> DEFINE m == [Kernel EXCEPT !.state[i] = "WaitSuspend"]
    <2>1. Becomes(m)  BY <1>3 DEF SuspendThread
    <2>2. Whole(m) /\ (NoBetter(Kernel) => NoBetter(m)) /\ m.requested = requested
      BY <1>1, <1>3, StillWaitsSound, InvType, KernelFields DEF Waiting
    <2> HIDE DEF m
    <2> QED BY <1>1, <2>1, <2>2, StaysInv
  <1>4. CASE state[i] = "Ready"
    <2> DEFINE x == TakeOffReadyQueue(Kernel, i)
               m == [x EXCEPT !.state[i] = "Suspend"]
    <2>1. Becomes(m)  BY <1>4 DEF SuspendThread
    <2>2. Taken(Kernel, x, i)
      BY <1>1, <1>4, InvType, KernelFields, TakeOffTaken
    <2> HIDE DEF x
    <2>3. Framed(x, i) /\ x.wait[i] = "NotWaiting"
      BY <1>1, <1>2, <2>2, InvType, KernelFields DEF Taken, Framed, Fine
    <2>4. PutAway(x, m, i)  BY <1>1, <2>2, <2>3, TakenType, SuspendPutsAway
    <2> HIDE DEF m
    <2>5. Whole(m) /\ m.requested = requested
      BY <1>1, <1>2, <2>2, <2>4, PutAwaySound, KernelFields DEF Taken
    <2>6. NoBetter(Kernel) => NoBetter(m)
      BY <1>1, <1>2, <2>2, <2>4, PutAwayNoBetter, InvType, KernelFields
    <2> QED BY <1>1, <2>1, <2>5, <2>6, StaysInv
  <1> QED BY <1>1, <1>3, <1>4

LEMMA ResumeThreadInv ==
  ASSUME EEInv, NEW i \in Target, ResumeThread(i)
  PROVE  EEInv'
  <1>1. /\ i \in Thread \ {Idle} /\ state[i] \in {"Suspend", "WaitSuspend"}
        /\ state[current] = "Run"
    BY AliveRuns DEF ResumeThread
  <1>2. CASE state[i] = "WaitSuspend"
    <2> DEFINE m == [Kernel EXCEPT !.state[i] = "Wait"]
    <2>1. Answered(m)  BY <1>2 DEF ResumeThread
    <2>2. Whole(m) /\ (NoBetter(Kernel) => NoBetter(m)) /\ m.requested = requested
      BY <1>1, <1>2, StillWaitsSound, InvType, KernelFields DEF Waiting
    <2> HIDE DEF m
    <2> QED BY <2>1, <2>2, AnsweredInv DEF EEInv
  <1>3. CASE state[i] = "Suspend"
    <2>1. Answered(MakeReady(Kernel, i))  BY <1>3 DEF ResumeThread
    <2>2. Taken(Kernel, Kernel, i) /\ i # current  BY <1>1, <1>3, InNothing
    <2>3. LET m == MakeReady(Kernel, i)
          IN  Whole(m) /\ (m.requested = TRUE \/ NoBetter(m))
      BY <1>1, <2>2, ReadiedSound, InvType, KernelFields DEF EEInv
    <2> QED BY <2>1, <2>3, AnsweredInv
  <1> QED BY <1>1, <1>2, <1>3

LEMMA FineSame ==
  ASSUME NEW k, NEW m, NEW t \in Thread, Fine(k, t),
         m.state = k.state, m.wait = k.wait, m.current = k.current,
         m.count = k.count, m.byInterrupt = k.byInterrupt, m.result = k.result
  PROVE  Fine(m, t)
  BY DEF Fine, Framed

(* A change of priority takes a thread that runs or is ready to the tail   *)
(* of its new queue.                                                       *)
LEMMA ChangePriorityInv ==
  ASSUME EEInv, Unsafe = {}, NEW i \in Target, NEW p \in CallPriority,
         ChangeThreadPriority(i, p)
  PROVE  EEInv'
  <1>1. /\ i \in Thread \ {Idle} /\ state[i] # "Free" /\ p \in 1 .. BootPriority
        /\ InHandler /\ i = current => p <= priority[i]
        /\ i = current <=> state[i] = "Run"
    <2>1. /\ i \in Thread \ {Idle} /\ state[i] # "Free" /\ p \in 1 .. BootPriority
          /\ priority[i] \in 1 .. BootPriority
      BY EEConstants, InvType DEF ChangeThreadPriority, Target
    <2>2. ~(InHandler /\ i = current /\ p > priority[i])
      BY DEF ChangeThreadPriority
    <2>3. InHandler /\ i = current => p <= priority[i]  BY <2>1, <2>2
    <2> QED BY <2>1, <2>3, AliveRuns
  <1>2. CASE state[i] \in {"Run", "Ready"}
    <2> DEFINE x == TakeOffReadyQueue(Kernel, i)
               P == [priority EXCEPT ![i] = p]
               y == [x EXCEPT !.priority[i] = p]
               m == LinkReady(y, i)
    <2>1. Answered(m)  BY <1>2 DEF ChangeThreadPriority
    <2>2. Taken(Kernel, x, i)
      BY <1>1, <1>2, InvType, KernelFields, TakeOffTaken
    <2> HIDE DEF x
    <2>3. x \in EEKernelType /\ x.priority = priority /\ x.state = state
          /\ x.current = current /\ x.requested = requested /\ Limbo(x, i)
          /\ x.wait[i] = "NotWaiting" /\ x.result = result /\ x.byInterrupt = byInterrupt
      BY <2>2, TakenType, KernelFields DEF Taken
    <2>4. P \in [Thread -> 1 .. BootPriority] /\ P[i] = p
          /\ \A t \in Thread \ {i} : P[t] = priority[t]
      BY <1>1, InvType
    <2>5. y = [x EXCEPT !.priority = P]  BY <2>3
    <2> HIDE DEF y, P, m
    <2>6. y \in EEKernelType  BY <2>3, <2>4, <2>5 DEF EEKernelType
    <2>7. SameBut(x, y, i) /\ y.priority = P /\ y.state = state /\ y.wait = x.wait
          /\ y.result = result /\ y.byInterrupt = byInterrupt /\ y.current = current
          /\ y.requested = requested
      BY <2>3, <2>4, <2>5, <2>6 DEF EEKernelType, SameBut
    <2>8. Limbo(y, i)  BY <2>3, <2>7, SameInLimbo
    <2>9. y.state[i] = IF i = y.current THEN "Run" ELSE "Ready"
      BY <1>1, <1>2, <2>7
    <2>10. Fine(y, i)
      <3>1. i # current => Framed(Kernel, i)  BY <1>1, InvType, KernelFields DEF Fine
      <3>2. i # current => Framed(y, i)  BY <2>7, <3>1, KernelFields DEF Framed
      <3>3. y.wait[i] = "NotWaiting" /\ "NotWaiting" \notin Object
        BY <2>3, <2>7, EEConstants
      <3> QED BY <1>1, <1>2, <2>7, <3>2, <3>3 DEF Fine, Waiting
    <2>11. /\ Whole(m)
           /\ y.requested \/ NoBetterBut(y, i) => m.requested \/ NoBetter(m)
      BY <1>1, <2>8, <2>9, <2>10, LinkReadySound DEF m
    <2>12. InHandler /\ NoBetter(Kernel) => NoBetterBut(y, i)
      <3> SUFFICES ASSUME InHandler, NoBetter(Kernel), NEW t \in Thread \ {i},
                          state[t] = "Ready"
                   PROVE  QueueOf(y, current) <= QueueOf(y, t)
        BY <2>7 DEF NoBetterBut
      <3>1. QueueOf(Kernel, current) <= QueueOf(Kernel, t)
        BY NoneIsNoThread, KernelFields DEF NoBetter, NoBetterBut
      <3>2. QueueOf(y, t) = QueueOf(Kernel, t)
        BY <2>4, <2>7, KernelFields DEF QueueOf
      <3>3. QueueOf(Kernel, t) \in Int /\ QueueOf(Kernel, current) \in Int
            /\ QueueOf(y, current) \in Int
        <4>1. \A q \in Priority : q \in Int  BY EEConstants
        <4> QED BY <2>6, <4>1, InvType, QueueOfIn
      <3>4. QueueOf(y, current) <= QueueOf(Kernel, current)
        <4>1. CASE i = current
          BY <1>1, <2>4, <2>7, <4>1, KernelFields, InvType DEF QueueOf
        <4>2. CASE i # current
          <5>1. QueueOf(y, current) = QueueOf(Kernel, current)
            BY <2>4, <2>7, <4>2, KernelFields, InvType DEF QueueOf
          <5> QED BY <3>3, <5>1
        <4> QED BY <4>1, <4>2
      <3> QED BY <3>1, <3>2, <3>3, <3>4
    <2>13. InHandler => m.requested = TRUE \/ NoBetter(m)
      <3>1. m.requested \in BOOLEAN  BY <2>11, WholeType DEF EEKernelType
      <3> QED BY <2>7, <2>11, <2>12, <3>1 DEF EEInv
    <2> QED BY <2>1, <2>11, <2>13, AnsweredInv
  <1>3. CASE state[i] \notin {"Run", "Ready"}
    <2> DEFINE P == [priority EXCEPT ![i] = p]
               m == [Kernel EXCEPT !.priority[i] = p]
    <2>1. Answered(m)  BY <1>3 DEF ChangeThreadPriority
    <2>2. P \in [Thread -> 1 .. BootPriority] /\ P[i] = p
          /\ \A t \in Thread \ {i} : P[t] = priority[t]
      BY <1>1, InvType
    <2>3. m = [Kernel EXCEPT !.priority = P]  BY DEF Kernel
    <2> HIDE DEF m, P
    <2>4. m \in EEKernelType  BY <2>2, <2>3, InvType DEF EEKernelType
    <2>5. m.links = links /\ m.lowest = lowest /\ m.current = current
          /\ m.state = state /\ m.wait = wait /\ m.priority = P
          /\ m.byInterrupt = byInterrupt /\ m.count = count
          /\ m.requested = requested /\ m.result = result
      BY <2>3 DEF Kernel
    <2>6. PlaceOf(m) = PlaceOf(Kernel)
      BY <1>3, <2>2, <2>5, KernelFields DEF PlaceOf, QueueOf
    <2>7. Held(m, PlaceOf(m))
      BY <2>4, <2>5, <2>6, KernelFields, InvType DEF Held, Whole
    <2>8. \A t \in Thread : Fine(m, t)
      BY <2>5, KernelFields, InvType, FineSame
    <2>9. Whole(m)
      BY <1>1, <2>5, <2>7, <2>8, KernelFields, InvType, AliveRuns DEF Whole
    <2>10. NoBetter(Kernel) => NoBetter(m)
      <3>1. i # current  BY <1>1, <1>3
      <3>2. QueueOf(m, current) = QueueOf(Kernel, current)
        BY <2>2, <2>5, <3>1, KernelFields, InvType DEF QueueOf
      <3>3. \A t \in Thread : m.state[t] = "Ready" =>
              Kernel.state[t] = "Ready" /\ m.priority[t] = Kernel.priority[t]
        BY <1>3, <2>2, <2>5, KernelFields
      <3> QED BY <2>5, <3>2, <3>3, NoBetterKept, KernelFields, InvType
    <2> QED BY <2>1, <2>5, <2>9, <2>10, AnsweredInv DEF EEInv
  <1> QED BY <1>2, <1>3

LEMMA RotateInv ==
  ASSUME EEInv, NEW p \in CallPriority, RotateThreadReadyQueue(p)
  PROVE  EEInv'
  <1> DEFINE h == links.head[p]
             l == Enqueue(PopFront(links, p), p, h)
             m == [Kernel EXCEPT !.links = l]
  <1>1. CASE h = None
    <2>1. Answered(Kernel)  BY <1>1 DEF RotateThreadReadyQueue
    <2> QED BY <2>1, AnsweredInv, InvType, KernelFields DEF EEInv
  <1>2. CASE h # None
    <2> DEFINE w == PlaceOf(Kernel)
               u == Unlink(links, p, h)
               v == [w EXCEPT ![h] = Nowhere]
    <2>1. Answered(m)  BY <1>2 DEF RotateThreadReadyQueue, Kernel
    <2>2. p \in Priority /\ p \in Queue /\ links \in Links /\ w \in Places
          /\ LinkedAs(links, w) /\ Ranked(links)
          /\ \A q \in Priority : links.head[q] # None => lowest <= q
      BY EEConstants, InvType, KernelFields DEF Whole, Held
    <2>3. h \in Thread /\ w[h] = p
      BY <1>2, <2>2 DEF LinkedAs, Links, Index
    <2>4. l = Enqueue(u, p, h)  BY <1>2 DEF PopFront
    <2>5. u \in Links /\ LinkedAs(u, v) /\ Ranked(u)
      BY <2>2, <2>3, UnlinkType, UnlinkLinked, UnlinkRanked
    <2>6. v \in Places /\ v[h] = Nowhere /\ [v EXCEPT ![h] = p] = w
      BY <2>2, <2>3 DEF Places
    <2>7. l \in Links /\ LinkedAs(l, w) /\ Ranked(l)
      <3> HIDE DEF u, v, l
      <3>1. l \in Links /\ LinkedAs(l, [v EXCEPT ![h] = p]) /\ Ranked(l)
        BY <2>2, <2>3, <2>4, <2>5, <2>6, EnqueueType, EnqueueLinked, EnqueueRanked
      <3> QED BY <2>6, <3>1
    <2>8. \A q \in Priority : q # p => l.head[q] = links.head[q]
      BY <2>2, <2>4, EEConstants DEF Enqueue, Unlink, Links
    <2>9. \A q \in Priority : l.head[q] # None => lowest <= q
      BY <1>2, <2>2, <2>8
    <2> HIDE DEF l, h
    <2>10. m \in EEKernelType  BY <2>7, InvType DEF EEKernelType
    <2>11. /\ m.links = l /\ m.lowest = lowest /\ m.current = current
           /\ m.state = state /\ m.wait = wait /\ m.priority = priority
           /\ m.byInterrupt = byInterrupt /\ m.count = count
           /\ m.requested = requested /\ m.result = result
      BY DEF Kernel
    <2> HIDE DEF m
    <2>12. PlaceOf(m) = w  BY <2>11, KernelFields DEF PlaceOf, QueueOf
    <2>13. Held(m, PlaceOf(m))
      BY <2>2, <2>7, <2>9, <2>10, <2>11, <2>12 DEF Held
    <2>14. \A t \in Thread : Fine(m, t)
      BY <2>11, KernelFields, InvType, FineSame
    <2>15. Whole(m)
      BY <2>11, <2>13, <2>14, KernelFields, InvType DEF Whole, Booting, Framed
    <2>16. NoBetter(Kernel) => NoBetter(m)
      BY <2>11, KernelFields DEF NoBetter, NoBetterBut, QueueOf
    <2> QED BY <2>1, <2>11, <2>15, <2>16, AnsweredInv DEF EEInv
  <1> QED BY <1>1, <1>2

-----------------------------------------------------------------------------
(* The calls that block.                                                   *)
LEMMA SleepInv ==
  ASSUME EEInv, SleepThread
  PROVE  EEInv'
  <1> DEFINE c == current
  <1>0. current \in Thread \ {Idle} /\ state[current] = "Run"
    BY RunningRuns, InvType DEF SleepThread, Returned, InThread
  <1>1. CASE wakeups[current] > 0
    <2> DEFINE m == [Kernel EXCEPT !.wakeups[current] = wakeups[current] - 1]
    <2>1. Returned(m)  BY <1>1 DEF SleepThread, Kernel
    <2>2. wakeups[current] - 1 \in Nat  BY <1>1, InvType
    <2>3. Whole(m) /\ (NoBetter(Kernel) <=> NoBetter(m))
      BY <2>2, WakeupsSound, InvType
    <2> HIDE DEF m
    <2> QED BY <2>1, <2>3, ReturnedInv
  <1>2. CASE ~(wakeups[current] > 0)
    <2> DEFINE x == TakeOffReadyQueue(Kernel, c)
               S == [state EXCEPT ![c] = "Wait"]
               W == [wait EXCEPT ![c] = "Sleeping"]
               R == [result EXCEPT ![c] = "Answer"]
               B == [byInterrupt EXCEPT ![c] = FALSE]
               m == [x EXCEPT !.state = S, !.wait = W, !.result = R, !.byInterrupt = B]
    <2>1. Returned(Block(Kernel, "Sleeping"))  BY <1>2 DEF SleepThread
    <2>2. Block(Kernel, "Sleeping") = ResumeNext(m)
      <3> DEFINE p == Park(Kernel, "Answer", FALSE)
                 n == [TakeOffReadyQueue(p, c) EXCEPT !.state[c] = "Wait",
                                                      !.wait[c] = "Sleeping"]
      <3>1. Block(Kernel, "Sleeping") = ResumeNext(n)
        BY KernelFields DEF Block
      <3>2. p = [Kernel EXCEPT !.result = R, !.byInterrupt = B]
        BY DEF Park, Kernel
      <3> HIDE DEF p
      <3>3. QueueOf(p, c) = QueueOf(Kernel, c)  BY <3>2 DEF QueueOf, Kernel
      <3>4. TakeOffReadyQueue(p, c) = [x EXCEPT !.result = R, !.byInterrupt = B]
        BY <3>2, <3>3 DEF TakeOffReadyQueue, Kernel
      <3>5. x.state = state /\ x.wait = wait
        BY DEF TakeOffReadyQueue, Kernel
      <3>6. n = m
        BY <3>4, <3>5 DEF TakeOffReadyQueue, Kernel
      <3> HIDE DEF n, m
      <3> QED BY <3>1, <3>6
    <2>3. Taken(Kernel, x, c)  BY <1>0, InvType, KernelFields, TakeOffTaken
    <2> HIDE DEF x
    <2>4. x \in EEKernelType /\ Limbo(x, c) /\ x.state = state /\ x.result = result
          /\ x.byInterrupt = byInterrupt /\ x.current = current
      BY <2>3, TakenType, KernelFields DEF Taken
    <2>5. S \in [Thread -> State] /\ S[c] = "Wait"
          /\ \A t \in Thread \ {c} : S[t] = state[t]
      BY <1>0, InvType DEF State
    <2>6. W \in [Thread -> WaitReason] /\ W[c] = "Sleeping"
      BY <1>0, InvType DEF WaitReason
    <2>7. x.wait = [wait EXCEPT ![c] = "NotWaiting"] \/ x.wait = wait
      BY DEF x, TakeOffReadyQueue, Kernel
    <2>8. \A t \in Thread \ {c} : W[t] = x.wait[t]  BY <2>7, <1>0, InvType
    <2>9. R \in [Thread -> Result] /\ B \in [Thread -> BOOLEAN] /\ B[c] = FALSE
          /\ \A t \in Thread \ {c} : R[t] = result[t] /\ B[t] = byInterrupt[t]
      BY <1>0, InvType DEF Result
    <2> HIDE DEF S, W, R, B, m
    <2>10. m \in EEKernelType  BY <2>4, <2>5, <2>6, <2>9 DEF EEKernelType, m
    <2>11. SameBut(x, m, c) /\ m.state = S /\ m.wait = W /\ m.byInterrupt = B
           /\ m.current = c
      BY <2>4, <2>5, <2>6, <2>8, <2>9, <2>10 DEF EEKernelType, SameBut, m, c
    <2>12. Limbo(m, c)  BY <2>4, <2>11, SameInLimbo
    <2>13. Fine(m, c) /\ Framed(m, c) /\ m.state[c] \notin {"Run", "Ready"}
           /\ m.wait[c] \notin Object
      BY <2>5, <2>6, <2>9, <2>11, EEConstants DEF Fine, Framed, Waiting
    <2>14. Away(m)  BY <1>0, <2>11, <2>12, <2>13, ApartSound
    <2> QED BY <2>1, <2>2, <2>14, SwitchedInv
  <1> QED BY <1>1, <1>2

(* A thread alone in its ready queue, put on an empty list first and taken *)
(* off its queue with the same links after: as if in the other order.      *)
LEMMA JoinedAlone ==
  ASSUME NEW l \in Links, NEW w \in Places, LinkedAs(l, w),
         NEW q \in Queue, NEW s \in Queue, s # q, NEW i \in Thread,
         w[i] = q, l.head[q] = i, l.tail[q] = i, l.head[s] = None
  PROVE  Unlink(Enqueue(l, s, i), q, i) = Enqueue(Unlink(l, q, i), s, i)
  <1> DEFINE a == Unlink(Enqueue(l, s, i), q, i)
             b == Enqueue(Unlink(l, q, i), s, i)
  <1>1. l.next[i] = None /\ l.prev[i] = None /\ l.tail[s] = None
    BY NoneIsNoThread DEF LinkedAs
  <1>2. a.next = b.next
    BY <1>1, NoneIsNoThread DEF Unlink, Enqueue, Links
  <1>3. a.prev = b.prev
    BY <1>1, NoneIsNoThread DEF Unlink, Enqueue, Links
  <1>4. a.head = b.head
    BY <1>1, NoneIsNoThread DEF Unlink, Enqueue, Links
  <1>5. a.tail = b.tail
    BY <1>1, NoneIsNoThread DEF Unlink, Enqueue, Links
  <1>6. a = [next |-> a.next, prev |-> a.prev, head |-> a.head, tail |-> a.tail]
    BY DEF Unlink
  <1>7. b = [next |-> b.next, prev |-> b.prev, head |-> b.head, tail |-> b.tail]
    BY DEF Enqueue
  <1> HIDE DEF a, b
  <1>8. a = b  BY <1>2, <1>3, <1>4, <1>5, <1>6, <1>7
  <1> QED BY <1>8 DEF a, b

LEMMA WaitSemaInv ==
  ASSUME EEInv, Unsafe = {}, NEW s \in Object, WaitSema(s)
  PROVE  EEInv'
  <1> DEFINE c == current
             q == priority[current]
  <1>0. current \in Thread \ {Idle} /\ state[current] = "Run" /\ s \in Queue
        /\ q \in Priority /\ q \in Queue /\ q # s
    BY RunningRuns, InvType, EEConstants DEF WaitSema, Returned, InThread
  <1>1. CASE count[s] > 0
    <2> DEFINE m == [Kernel EXCEPT !.count[s] = count[s] - 1]
    <2>1. Returned(m)  BY <1>1 DEF WaitSema, Kernel
    <2>2. count[s] # 0 /\ count[s] - 1 \in Int  BY <1>1, InvType
    <2>3. Whole(m) /\ (NoBetter(Kernel) <=> NoBetter(m))
      BY <2>2, CountedSound
    <2> HIDE DEF m
    <2> QED BY <2>1, <2>3, ReturnedInv
  <1>2. CASE ~(count[s] > 0)
    <2> DEFINE S == [state EXCEPT ![c] = "Wait"]
               W == [wait EXCEPT ![c] = s]
               R == [result EXCEPT ![c] = "Answer"]
               B == [byInterrupt EXCEPT ![c] = FALSE]
               N == [waiters EXCEPT ![s] = waiters[s] + 1]
               l == Unlink(Enqueue(links, s, c), q, c)
               m == [Kernel EXCEPT !.links = l, !.state = S, !.wait = W, !.result = R,
                                   !.byInterrupt = B, !.waiters = N]
               w == PlaceOf(Kernel)
               u == Unlink(links, q, c)
               v == [w EXCEPT ![c] = Nowhere]
    <2>1. count[s] = 0 /\ links.head[q] = c /\ links.tail[q] = c /\ links.head[s] = None
      BY <1>2, InvType DEF WaitSema
    <2>2. Returned(ResumeNext(m))
      <3>1. Returned(Block([Kernel EXCEPT !.links = Enqueue(links, s, c),
                                          !.waiters[s] = waiters[s] + 1], s))
        BY <1>2 DEF WaitSema, Kernel
      <3>2. Block([Kernel EXCEPT !.links = Enqueue(links, s, c),
                                 !.waiters[s] = waiters[s] + 1], s) = ResumeNext(m)
        <4> DEFINE k == [Kernel EXCEPT !.links = Enqueue(links, s, c),
                                       !.waiters[s] = waiters[s] + 1]
                   p == Park(k, "Answer", FALSE)
                   n == [TakeOffReadyQueue(p, c) EXCEPT !.state[c] = "Wait",
                                                        !.wait[c] = s]
        <4>1. Block(k, s) = ResumeNext(n)
          <5>1. k.current = c  BY DEF Kernel
          <5> HIDE DEF k
          <5> QED BY <5>1 DEF Block
        <4>2. p = [Kernel EXCEPT !.links = Enqueue(links, s, c), !.waiters = N,
                                 !.result = R, !.byInterrupt = B]
          BY DEF Park, Kernel
        <4> HIDE DEF p
        <4>3. QueueOf(p, c) = q  BY <1>0, <4>2 DEF QueueOf, Kernel
        <4>4. TakeOffReadyQueue(p, c) = [Kernel EXCEPT !.links = l, !.waiters = N,
                                           !.result = R, !.byInterrupt = B]
          BY <4>2, <4>3 DEF TakeOffReadyQueue, Kernel
        <4>5. n = m  BY <4>4 DEF Kernel
        <4> HIDE DEF n, m
        <4> QED BY <4>1, <4>5
      <3> QED BY <3>1, <3>2
    <2>3. /\ links \in Links /\ w \in Places /\ LinkedAs(links, w) /\ Ranked(links)
          /\ lowest \in Priority
          /\ \A p \in Priority : links.head[p] # None => lowest <= p
      BY InvType, KernelFields DEF Whole, Held, EEKernelType
    <2>4. w[c] = q
      BY <1>0, KernelFields DEF PlaceOf, QueueOf
    <2>5. l = Enqueue(u, s, c)
      <3> HIDE DEF w
      <3> QED BY <1>0, <2>1, <2>3, <2>4, JoinedAlone
    <2>6. u \in Links /\ LinkedAs(u, v) /\ Ranked(u) /\ v \in Places /\ v[c] = Nowhere
      BY <1>0, <2>3, <2>4, UnlinkType, UnlinkLinked, UnlinkRanked DEF Places
    <2> DEFINE z == [v EXCEPT ![c] = s]
    <2>7. l \in Links /\ LinkedAs(l, z) /\ Ranked(l) /\ z \in Places
      <3>1. z \in Places  BY <1>0, <2>6 DEF Places
      <3> HIDE DEF u, v, l
      <3>2. l \in Links /\ LinkedAs(l, [v EXCEPT ![c] = s]) /\ Ranked(l)
        BY <1>0, <2>5, <2>6, EnqueueType, EnqueueLinked, EnqueueRanked
      <3> QED BY <3>1, <3>2
    <2>8. \A p \in Priority : l.head[p] # None => links.head[p] # None
      BY <1>0, <2>3, <2>1, EEConstants, NoneIsNoThread DEF Unlink, Enqueue, Links
    <2>9. /\ S \in [Thread -> State] /\ S[c] = "Wait"
          /\ W \in [Thread -> WaitReason] /\ W[c] = s
          /\ R \in [Thread -> Result] /\ B \in [Thread -> BOOLEAN] /\ B[c] = FALSE
          /\ \A t \in Thread \ {c} : S[t] = state[t] /\ W[t] = wait[t]
                                     /\ R[t] = result[t] /\ B[t] = byInterrupt[t]
      BY <1>0, InvType DEF State, WaitReason, Result
    <2>10. N \in [Object -> Nat]
      <3>1. waiters \in [Object -> Nat]  BY InvType, KernelFields DEF EEKernelType
      <3> QED BY <3>1
    <2> HIDE DEF l, S, W, R, B, N
    <2>11. m \in EEKernelType  BY <2>7, <2>9, <2>10, InvType DEF EEKernelType
    <2>12. /\ m.links = l /\ m.state = S /\ m.wait = W /\ m.result = R
           /\ m.byInterrupt = B /\ m.lowest = lowest /\ m.current = c
           /\ m.priority = priority /\ m.count = count
      BY DEF Kernel
    <2> HIDE DEF m
    <2>13. PlaceOf(m) = z
      <3>1. PlaceOf(m) = [t \in Thread |-> IF t = c THEN s ELSE w[t]]
        BY <1>0, <2>9, <2>12, KernelFields DEF PlaceOf, QueueOf
      <3> QED BY <2>3, <3>1 DEF Places
    <2>14. Held(m, PlaceOf(m))
      <3> HIDE DEF z
      <3> QED BY <2>3, <2>7, <2>8, <2>11, <2>12, <2>13 DEF Held
    <2>15. \A t \in Thread : Fine(m, t) /\ Framed(m, t) /\ m.state[t] # "Run"
      <3> SUFFICES ASSUME NEW t \in Thread
                   PROVE  Fine(m, t) /\ Framed(m, t) /\ m.state[t] # "Run"
        OBVIOUS
      <3>1. Fine(Kernel, t)  BY InvType
      <3>2. CASE t = c
        BY <2>1, <2>9, <2>12, <3>2, EEConstants DEF Fine, Framed, Waiting
      <3>3. CASE t # c
        BY <2>9, <2>12, <3>1, <3>3, KernelFields DEF Fine, Framed, Waiting
      <3> QED BY <3>2, <3>3
    <2>16. m.state[Idle] = "Ready"
      BY <1>0, <2>9, <2>12, <2>15, InvType, KernelFields, EEConstants DEF Whole
    <2>17. Away(m)  BY <2>14, <2>15, <2>16 DEF Away
    <2> QED BY <2>2, <2>17, SwitchedInv
  <1> QED BY <1>1, <1>2

-----------------------------------------------------------------------------
(* A semaphore's first waiter is answered and woken, by a signal or by a   *)
(* deletion.                                                               *)
LEMMA HeadWaits ==
  ASSUME EEInv, NEW s \in Object, links.head[s] # None
  PROVE  LET h == links.head[s]
         IN  h \in Thread \ {Idle} /\ state[h] \in Waiting /\ byInterrupt[h] = FALSE
  <1> DEFINE h == links.head[s]
  <1>1. Held(Kernel, PlaceOf(Kernel)) /\ Kernel \in EEKernelType /\ s \in Queue
    BY InvType, EEConstants DEF Whole
  <1>2. h \in Thread /\ PlaceOf(Kernel)[h] = s
    BY <1>1, InvType, KernelFields DEF Held, LinkedAs, Links, Index
  <1>3. wait[h] = s /\ state[h] \notin {"Run", "Ready"}
    BY <1>1, <1>2, PlaceTells, KernelFields
  <1>4. state[h] \in Waiting
    BY <1>2, <1>3, InvType, KernelFields, EEConstants DEF Fine
  <1>5. byInterrupt[h] = FALSE
    BY <1>2, <1>4, InvType, KernelFields DEF Fine
  <1>6. h # Idle  BY <1>3, InvType, KernelFields DEF Whole
  <1> QED BY <1>2, <1>4, <1>5, <1>6

LEMMA HeadWoken ==
  ASSUME EEInv, NEW s \in Object, links.head[s] # None, NEW r \in Result
  PROVE  LET h == links.head[s]
             m == WakeWaiter([Kernel EXCEPT !.result[h] = r], h)
         IN  Whole(m) /\ (m.requested = TRUE \/ NoBetter(m))
  <1> DEFINE h == links.head[s]
             k == [Kernel EXCEPT !.result[h] = r]
  <1>1. h \in Thread \ {Idle} /\ state[h] \in Waiting /\ Kernel.byInterrupt[h] = FALSE
        /\ Whole(Kernel)
    BY HeadWaits, InvType, KernelFields
  <1> HIDE DEF h
  <1>2. /\ Whole(k) /\ (NoBetter(Kernel) => NoBetter(k))
        /\ k.requested = Kernel.requested /\ k.state = Kernel.state
    BY <1>1, ResultSound, Zenon
  <1> HIDE DEF k
  <1>3. LET m == WakeWaiter(k, h) IN Whole(m) /\ (m.requested = TRUE \/ NoBetter(m))
    BY <1>1, <1>2, WakeWaiterSound, KernelFields DEF EEInv
  <1> QED BY <1>3 DEF k, h

LEMMA SignalSemaInv ==
  ASSUME EEInv, NEW s \in Object, SignalSema(s)
  PROVE  EEInv'
  <1> DEFINE h == links.head[s]
  <1>1. CASE h = None
    <2> DEFINE m == [Kernel EXCEPT !.count[s] = count[s] + 1]
    <2>1. Answered(m)  BY <1>1 DEF SignalSema, Kernel
    <2>2. count[s] + 1 \in Int  BY InvType
    <2>3. Whole(m) /\ (NoBetter(Kernel) <=> NoBetter(m)) /\ m.requested = requested
      BY <1>1, <2>2, CountedSound
    <2> HIDE DEF m
    <2> QED BY <2>1, <2>3, AnsweredInv DEF EEInv
  <1>2. CASE h # None
    <2> DEFINE m == WakeWaiter([Kernel EXCEPT !.result[h] = "Answer"], h)
    <2>1. Answered(m)  BY <1>2 DEF SignalSema
    <2>2. Whole(m) /\ (m.requested = TRUE \/ NoBetter(m))
      <3>1. "Answer" \in Result  BY DEF Result
      <3> QED BY <1>2, <3>1, HeadWoken
    <2> HIDE DEF m
    <2> QED BY <2>1, <2>2, AnsweredInv
  <1> QED BY <1>1, <1>2

LEMMA RefuseWaiterInv ==
  ASSUME EEInv, NEW s \in Object, RefuseWaiter(s)
  PROVE  EEInv'
  <1> DEFINE h == links.head[s]
             m == WakeWaiter([Kernel EXCEPT !.result[h] = "Refused"], h)
  <1>1. h # None /\ Becomes(m) /\ UNCHANGED <<depth, loop>> /\ loop \in Object
    BY DEF RefuseWaiter
  <1>2. Whole(m) /\ (m.requested = TRUE \/ NoBetter(m))
    <2>1. "Refused" \in Result  BY DEF Result
    <2> QED BY <1>1, <2>1, HeadWoken
  <1> HIDE DEF m, h
  <1>3. Kernel' = m /\ requested' = m.requested
    BY <1>1, <1>2, WholeType, BecomesKernel
  <1> QED BY <1>1, <1>2, <1>3 DEF EEInv

LEMMA SemaDeletedInv ==
  ASSUME EEInv, NEW s \in Object, SemaDeleted(s)
  PROVE  EEInv'
  <1> DEFINE m == [Kernel EXCEPT !.count[s] = -1]
  <1>1. /\ links.head[s] = None /\ Becomes(IF depth > 0 THEN m ELSE Yield(m))
        /\ loop' = "NoLoop" /\ depth' = depth
    BY DEF SemaDeleted
  <1>2. Whole(m) /\ (NoBetter(Kernel) <=> NoBetter(m)) /\ m.requested = requested
    BY <1>1, CountedSound
  <1> HIDE DEF m
  <1>3. CASE depth > 0
    <2>1. Kernel' = m /\ requested' = m.requested
      BY <1>1, <1>2, <1>3, WholeType, BecomesKernel
    <2> QED BY <1>1, <1>2, <1>3, <2>1 DEF EEInv
  <1>4. CASE ~(depth > 0)
    <2>1. Settled(Yield(m))  BY <1>2, YieldSettles
    <2>2. depth' \in Nat /\ loop' \in Object \cup {"NoLoop", "Load"}
      BY <1>1 DEF EEInv
    <2> QED BY <1>1, <1>4, <2>1, <2>2, SettledInv
  <1> QED BY <1>3, <1>4

(* The steps that change no record of a thread.                            *)
LEMMA LoopInv ==
  ASSUME EEInv, TerminateOtherThreads \/ OthersTerminated \/ \E s \in Object : DeleteSema(s)
  PROVE  EEInv'
  <1>1. Becomes(Kernel) /\ depth' = depth
    BY DEF TerminateOtherThreads, OthersTerminated, DeleteSema
  <1>2. Kernel' = Kernel /\ requested' = requested
    BY <1>1, InvType, KernelFields, BecomesKernel
  <1>3. loop' \in Object \/ (loop' \in {"NoLoop", "Load"} /\ loop \notin Object)
    BY EEConstants DEF TerminateOtherThreads, OthersTerminated, DeleteSema, InThread
  <1> QED BY <1>1, <1>2, <1>3 DEF EEInv

LEMMA RequestSound ==
  ASSUME NEW k, Whole(k), NEW b \in BOOLEAN
  PROVE  LET m == [k EXCEPT !.requested = b]
         IN  Whole(m) /\ (NoBetter(k) <=> NoBetter(m)) /\ m.requested = b
  <1> DEFINE m == [k EXCEPT !.requested = b]
  <1>1. k \in EEKernelType  BY WholeType
  <1>2. m \in EEKernelType  BY <1>1 DEF EEKernelType
  <1>3. Like(k, m) /\ m.count = k.count /\ m.requested = b
    BY <1>1, <1>2 DEF Like, EEKernelType
  <1> HIDE DEF m
  <1>4. Whole(m) /\ (NoBetter(k) <=> NoBetter(m))  BY <1>3, LikeSound
  <1> QED BY <1>3, <1>4 DEF m

LEMMA InterruptEntryInv ==
  ASSUME EEInv, InterruptEntry
  PROVE  EEInv'
  <1> DEFINE b == requested /\ depth > 0
             m == [Kernel EXCEPT !.requested = b]
  <1>1. Becomes(m) /\ depth' = depth + 1 /\ loop' = loop /\ loop = "NoLoop"
    BY DEF InterruptEntry, Kernel
  <1>2. depth \in Nat /\ b \in BOOLEAN  BY DEF EEInv
  <1>3. depth = 0 => NoBetter(Kernel)  BY <1>1, EEConstants DEF EEInv
  <1>4. depth > 0 => b = requested  BY InvType
  <1>5. Whole(m) /\ (NoBetter(Kernel) <=> NoBetter(m)) /\ m.requested = b
    BY <1>2, InvType, RequestSound
  <1> HIDE DEF b, m
  <1>6. Kernel' = m /\ requested' = m.requested
    BY <1>1, <1>5, WholeType, BecomesKernel
  <1>7. m.requested = TRUE \/ NoBetter(m)
    BY <1>2, <1>3, <1>4, <1>5 DEF EEInv
  <1> QED BY <1>1, <1>2, <1>5, <1>6, <1>7 DEF EEInv

LEMMA ReturnSettles ==
  ASSUME NEW k, Whole(k)
  PROVE  Settled(ResumeNext([Park(k, "Live", TRUE)
                               EXCEPT !.requested = FALSE,
                                      !.state[k.current] = "Ready"]))
  <1> DEFINE p == Park(k, "Live", TRUE)
             m == [p EXCEPT !.requested = FALSE, !.state[k.current] = "Ready"]
             S == [k.state EXCEPT ![k.current] = "Ready"]
             R == [k.result EXCEPT ![k.current] = "Live"]
             B == [k.byInterrupt EXCEPT ![k.current] = TRUE]
  <1>1. k \in EEKernelType  BY DEF Whole, Held
  <1>2. S \in [Thread -> State] /\ R \in [Thread -> Result] /\ B \in [Thread -> BOOLEAN]
    BY <1>1 DEF EEKernelType, State, Result
  <1>3. m = [k EXCEPT !.state = S, !.result = R, !.byInterrupt = B,
                      !.requested = FALSE]
    BY <1>1 DEF Park, EEKernelType
  <1> HIDE DEF m
  <1>4. m \in EEKernelType
    <2> HIDE DEF S, R, B
    <2> QED BY <1>1, <1>2, <1>3 DEF EEKernelType
  <1>5. /\ m.links = k.links /\ m.lowest = k.lowest /\ m.current = k.current
        /\ m.wait = k.wait /\ m.priority = k.priority /\ m.count = k.count
        /\ m.state = S /\ m.result = R /\ m.byInterrupt = B
    BY <1>1, <1>2, <1>3 DEF EEKernelType
  <1>6. Away(m)
    <2>1. "Live" \in Result /\ TRUE \in BOOLEAN  BY DEF Result
    <2> QED BY <1>4, <1>5, <2>1, ParkedAway
  <1>7. Settled(ResumeNext(m))  BY <1>6, ResumeSettles
  <1> QED BY <1>7 DEF m

(* The outermost exit switches if a switch was requested; otherwise no     *)
(* ready thread is better than the one it returns to.                      *)
LEMMA InterruptExitInv ==
  ASSUME EEInv, InterruptExit
  PROVE  EEInv'
  <1>1. depth \in Nat /\ depth > 0 /\ depth' = depth - 1 /\ loop' = loop
        /\ loop = "NoLoop" /\ loop \notin Object
    BY EEConstants DEF InterruptExit, InHandler, EEInv
  <1>2. CASE depth > 1 \/ ~requested
    <2>1. Becomes(Kernel)  BY <1>2 DEF InterruptExit
    <2>2. Kernel' = Kernel /\ requested' = requested
      BY <2>1, InvType, KernelFields, BecomesKernel
    <2>3. depth' = 0 => NoBetter(Kernel)
      BY <1>1, <1>2, InvType DEF EEInv
    <2> QED BY <1>1, <2>2, <2>3 DEF EEInv
  <1>3. CASE ~(depth > 1 \/ ~requested)
    <2> DEFINE m == [Park(Kernel, "Live", TRUE) EXCEPT !.requested = FALSE,
                                                       !.state[current] = "Ready"]
    <2>1. Becomes(ResumeNext(m))  BY <1>3 DEF InterruptExit
    <2>2. Settled(ResumeNext(m))  BY InvType, KernelFields, ReturnSettles
    <2>3. depth' \in Nat  BY <1>1
    <2> HIDE DEF m
    <2> QED BY <1>1, <2>1, <2>2, <2>3, SettledInv
  <1> QED BY <1>2, <1>3

(* The boot thread's launch of the first program: nothing else is alive.   *)
LEMMA StartProgramInv ==
  ASSUME EEInv, StartProgramThread
  PROVE  EEInv'
  <1> DEFINE k == Kernel
             w == PlaceOf(k)
             S == [[k.state EXCEPT ![Idle] = "Ready"] EXCEPT ![Program] = "Run"]
             I == [k.initial EXCEPT ![Program] = BootPriority]
             P == [k.priority EXCEPT ![Program] = BootPriority]
             W == [k.wait EXCEPT ![Program] = "NotWaiting"]
             U == [k.wakeups EXCEPT ![Program] = 0]
             boot == [k EXCEPT !.state = S, !.initial = I, !.priority = P,
                               !.wait = W, !.wakeups = U]
             m == LinkReady(boot, Program)
             n == [m EXCEPT !.current = Program]
             v == [w EXCEPT ![Program] = BootPriority]
  <1>1. /\ k \in EEKernelType /\ w \in Places /\ Held(k, w)
        /\ \A t \in Thread : Fine(k, t)
    BY InvType DEF Whole, Held
  <1>2. depth = 0 /\ k.current = Idle /\ k.state[Idle] = "Ready"
        /\ UNCHANGED <<depth, loop>>
    BY KernelFields DEF StartProgramThread
  <1>3. Framed(k, Idle) /\ \A t \in Thread \ {Idle} : k.state[t] = "Free"
    BY <1>2, InvType DEF Whole, Booting
  <1>4. /\ S \in [Thread -> State] /\ I \in [Thread -> 1 .. BootPriority]
        /\ P \in [Thread -> 1 .. BootPriority]
        /\ W \in [Thread -> WaitReason] /\ U \in [Thread -> Nat]
    BY <1>1, EEConstants DEF EEKernelType, State, WaitReason
  <1>5. Becomes(n)
    <2>1. boot = [Kernel EXCEPT
                      !.state[Idle] = "Ready", !.state[Program] = "Run",
                      !.initial[Program] = BootPriority,
                      !.priority[Program] = BootPriority,
                      !.wait[Program] = "NotWaiting", !.wakeups[Program] = 0]
      BY <1>1 DEF EEKernelType
    <2> HIDE DEF boot
    <2> QED BY <2>1 DEF StartProgramThread
  <1> HIDE DEF S, I, P, W, U
  <1>6. boot \in EEKernelType  BY <1>1, <1>4 DEF EEKernelType
  <1>7. /\ boot.links = k.links /\ boot.lowest = k.lowest /\ boot.current = k.current
        /\ boot.state = S /\ boot.priority = P /\ boot.wait = W
        /\ boot.result = k.result /\ boot.byInterrupt = k.byInterrupt
        /\ boot.count = k.count
    BY <1>1 DEF EEKernelType
  <1> HIDE DEF boot, k, w
  <1>8. Held(boot, w)  BY <1>1, <1>6, <1>7 DEF Held
  <1>9. QueueOf(boot, Program) = BootPriority
    BY <1>1, <1>7, EEConstants DEF QueueOf, EEKernelType, P
  <1>10. w[Program] = Nowhere
    <2>1. k.wait[Program] = "NotWaiting"
      BY <1>1, <1>3, EEConstants DEF Fine, Waiting
    <2> QED BY <1>3, <2>1, EEConstants DEF PlaceOf, w
  <1>11. Held(m, v) /\ OnlyMoved(boot, m)
    BY <1>8, <1>9, <1>10, EEConstants, LinkReadyHeld
  <1> HIDE DEF m
  <1>12. n \in EEKernelType /\ n.links = m.links /\ n.lowest = m.lowest
         /\ n.current = Program /\ n.state = S /\ n.priority = P /\ n.wait = W
         /\ n.result = k.result /\ n.byInterrupt = k.byInterrupt /\ n.count = k.count
    BY <1>7, <1>11, EEConstants DEF OnlyMoved, EEKernelType
  <1> HIDE DEF n
  <1>13. /\ \A t \in Thread : S[t] = IF t = Program THEN "Run" ELSE k.state[t]
         /\ \A t \in Thread : P[t] = IF t = Program THEN BootPriority ELSE k.priority[t]
         /\ \A t \in Thread : W[t] = IF t = Program THEN "NotWaiting" ELSE k.wait[t]
    BY <1>1, <1>2, EEConstants DEF S, P, W, EEKernelType
  <1>14. PlaceOf(n) = v
    BY <1>1, <1>12, <1>13, EEConstants DEF PlaceOf, QueueOf, w, Places
  <1>15. Held(n, PlaceOf(n))  BY <1>11, <1>12, <1>14 DEF Held
  <1>16. \A t \in Thread : Fine(n, t)
    <2> SUFFICES ASSUME NEW t \in Thread PROVE Fine(n, t)  OBVIOUS
    <2>1. Fine(k, t)  BY <1>1
    <2>2. CASE t = Program
      BY <1>12, <1>13, <2>2, EEConstants DEF Fine, Waiting
    <2>3. CASE t = Idle
      BY <1>2, <1>12, <1>13, <2>1, <2>3, <1>3, EEConstants DEF Fine, Framed, Waiting
    <2>4. CASE t # Program /\ t # Idle
      BY <1>2, <1>3, <1>12, <1>13, <2>1, <2>4, EEConstants DEF Fine, Framed, Waiting
    <2> QED BY <2>2, <2>3, <2>4
  <1>17. Whole(n)
    BY <1>2, <1>12, <1>13, <1>15, <1>16, EEConstants DEF Whole
  <1>18. NoBetter(n)
    <2> SUFFICES ASSUME NEW t \in Thread, n.state[t] = "Ready"
                 PROVE  QueueOf(n, n.current) <= QueueOf(n, t)
      BY DEF NoBetter, NoBetterBut
    <2>1. t = Idle  BY <1>3, <1>12, <1>13
    <2>2. QueueOf(n, n.current) = BootPriority /\ QueueOf(n, t) = IdlePriority
      BY <1>12, <1>13, <2>1, EEConstants DEF QueueOf
    <2> QED BY <2>2, EEConstants DEF BootPriority
  <1> QED BY <1>2, <1>5, <1>12, <1>13, <1>17, <1>18, EEConstants, SettledInv
          DEF Settled, EEInv

-----------------------------------------------------------------------------
(* The invariant holds at the start and after every step.                  *)
LEMMA InitInv ==
  ASSUME EEInit
  PROVE  EEInv
  <1> DEFINE z == [t \in Thread |-> Nowhere]
             w == [z EXCEPT ![Idle] = IdlePriority]
  <1>1. NoLinks \in Links /\ z \in Places /\ w \in Places
        /\ IdlePriority \in Queue /\ z[Idle] = Nowhere
    BY EEConstants DEF NoLinks, Links, Index, Places
  <1>2. LinkedAs(NoLinks, z)  BY DEF LinkedAs, NoLinks
  <1>3. Ranked(NoLinks)
    <2>1. [t \in Thread |-> 0] \in [Thread -> Nat]  OBVIOUS
    <2>2. \A t \in Thread : NoLinks.next[t] = None  BY DEF NoLinks
    <2> QED BY <2>1, <2>2 DEF Ranked
  <1>4. Kernel.links \in Links /\ LinkedAs(Kernel.links, w) /\ Ranked(Kernel.links)
    <2>1. Kernel.links = Enqueue(NoLinks, IdlePriority, Idle)
      BY KernelFields DEF EEInit
    <2> HIDE DEF z
    <2> QED BY <1>1, <1>2, <1>3, <2>1, EEConstants, EnqueueType, EnqueueLinked,
               EnqueueRanked
  <1>5. /\ Kernel.lowest = IdlePriority
        /\ Kernel.state = [t \in Thread |-> IF t = Idle THEN "Ready" ELSE "Free"]
        /\ Kernel.wait = [t \in Thread |-> "NotWaiting"]
        /\ Kernel.priority = [t \in Thread |-> BootPriority]
        /\ Kernel.initial = [t \in Thread |-> BootPriority]
        /\ Kernel.wakeups = [t \in Thread |-> 0]
        /\ Kernel.result = [t \in Thread |-> "Live"]
        /\ Kernel.byInterrupt = [t \in Thread |-> FALSE]
        /\ Kernel.requested = FALSE /\ Kernel.current = Idle
        /\ Kernel.count = [s \in Object |-> -1] /\ Kernel.waiters = [s \in Object |-> 0]
    BY KernelFields DEF EEInit
  <1>6. Kernel \in EEKernelType
    <2>1. /\ Kernel.state \in [Thread -> State] /\ Kernel.wait \in [Thread -> WaitReason]
          /\ Kernel.result \in [Thread -> Result]
      BY <1>5 DEF State, WaitReason, Result
    <2>1c. Kernel.byInterrupt \in [Thread -> BOOLEAN] /\ Kernel.requested \in BOOLEAN
      <3>1. [t \in Thread |-> FALSE] \in [Thread -> BOOLEAN]  OBVIOUS
      <3> QED BY <1>5, <3>1
    <2>1a. /\ Kernel.priority \in [Thread -> 1 .. BootPriority]
           /\ Kernel.initial \in [Thread -> 1 .. BootPriority]
      BY <1>5, EEConstants
    <2>1b. /\ Kernel.wakeups \in [Thread -> Nat]
           /\ Kernel.count \in [Object -> Int] /\ Kernel.waiters \in [Object -> Nat]
      BY <1>5
    <2>2. Kernel.lowest \in Priority /\ Kernel.current \in Thread
      BY <1>5, EEConstants
    <2> QED BY <1>4, <2>1, <2>1a, <2>1b, <2>1c, <2>2, KernelFields DEF EEKernelType, Kernel
  <1>7. PlaceOf(Kernel) = w
    <2>1. ASSUME NEW t \in Thread PROVE PlaceOf(Kernel)[t] = w[t]
      <3>1. CASE t = Idle
        BY <1>5, <3>1, EEConstants DEF PlaceOf, QueueOf
      <3>2. CASE t # Idle
        <4>1. Kernel.state[t] = "Free" /\ Kernel.wait[t] = "NotWaiting"
          BY <1>5, <3>2
        <4>2. w[t] = Nowhere  BY <3>2
        <4> QED BY <4>1, <4>2, EEConstants DEF PlaceOf
      <3> QED BY <3>1, <3>2
    <2> QED BY <1>6, <2>1, PlaceTells DEF PlaceOf
  <1>8. Held(Kernel, PlaceOf(Kernel))
    <2>1. ASSUME NEW q \in Priority, Kernel.links.head[q] # None PROVE q = IdlePriority
      <3>1. Kernel.links = Enqueue(NoLinks, IdlePriority, Idle)
        BY KernelFields DEF EEInit
      <3>2. NoLinks.head[q] = None /\ q \in Queue  BY EEConstants DEF NoLinks
      <3> QED BY <1>1, <2>1, <3>1, <3>2 DEF Enqueue, Links
    <2> HIDE DEF w
    <2>2. Kernel.lowest = IdlePriority /\ IdlePriority <= IdlePriority
      BY <1>5, EEConstants
    <2>3. \A q \in Priority : Kernel.links.head[q] # None => Kernel.lowest <= q
      BY <2>1, <2>2
    <2> QED BY <1>1, <1>4, <1>6, <1>7, <2>3 DEF Held
  <1>9. ASSUME NEW t \in Thread PROVE Fine(Kernel, t)
    <2>1. /\ Kernel.wait[t] = "NotWaiting" /\ Kernel.state[t] \in {"Ready", "Free"}
          /\ Kernel.result[t] = "Live"
      BY <1>5
    <2> QED BY <2>1, EEConstants DEF Fine, Framed, Waiting
  <1>10. Whole(Kernel)
    BY <1>5, <1>8, <1>9, EEConstants DEF Whole, Booting, Framed
  <1>11. NoBetter(Kernel)
    <2>1. \A t \in Thread : Kernel.state[t] = "Ready" => t = Kernel.current
      BY <1>5, EEConstants
    <2>2. QueueOf(Kernel, Kernel.current) \in Int
      BY <1>5, EEConstants DEF QueueOf
    <2> QED BY <2>1, <2>2 DEF NoBetter, NoBetterBut
  <1> QED BY <1>10, <1>11 DEF EEInv, EEInit

LEMMA NextInv ==
  ASSUME Unsafe = {}, EEInv, [EENext]_eeVars
  PROVE  EEInv'
  <1>1. CASE StartProgramThread \/ InterruptEntry \/ InterruptExit
    BY <1>1, StartProgramInv, InterruptEntryInv, InterruptExitInv
  <1>2. CASE TerminateOtherThreads \/ OthersTerminated
             \/ \E s \in Object : DeleteSema(s)
    BY <1>2, LoopInv
  <1>3. CASE SleepThread \/ ExitThread \/ ExitDeleteThread
    BY <1>3, SleepInv, ExitInv
  <1>4. CASE \E i \in Target :
                \/ \E p \in CallPriority : CreateThread(i, p)
                \/ DeleteThread(i) \/ StartThread(i) \/ TerminateOther(i)
                \/ TerminateThread(i)
                \/ \E p \in CallPriority : ChangeThreadPriority(i, p)
    <2>1. PICK i \in Target :
                \/ \E p \in CallPriority : CreateThread(i, p)
                \/ DeleteThread(i) \/ StartThread(i) \/ TerminateOther(i)
                \/ TerminateThread(i)
                \/ \E p \in CallPriority : ChangeThreadPriority(i, p)
      BY <1>4
    <2> QED BY <2>1, CreateThreadInv, DeleteThreadInv, StartThreadInv,
               TerminateOtherInv, TerminateInv, ChangePriorityInv
  <1>5. CASE \E i \in Target :
                \/ ReleaseWaitThread(i) \/ WakeupThread(i) \/ CancelWakeupThread(i)
                \/ SuspendThread(i) \/ ResumeThread(i)
    <2>1. PICK i \in Target :
                \/ ReleaseWaitThread(i) \/ WakeupThread(i) \/ CancelWakeupThread(i)
                \/ SuspendThread(i) \/ ResumeThread(i)
      BY <1>5
    <2>2. i \in Thread  BY DEF Target
    <2> QED BY <2>1, <2>2, ReleaseWaitInv, WakeupInv, CancelWakeupInv, SuspendInv,
               ResumeThreadInv
  <1>6. CASE \E p \in CallPriority : RotateThreadReadyQueue(p)
    BY <1>6, RotateInv
  <1>7. CASE \E s \in Object :
                \/ \E start \in 0 .. MaxCount : CreateSema(s, start)
                \/ RefuseWaiter(s) \/ SemaDeleted(s)
                \/ SignalSema(s) \/ WaitSema(s) \/ PollSema(s)
    <2>1. PICK s \in Object :
                \/ \E start \in 0 .. MaxCount : CreateSema(s, start)
                \/ RefuseWaiter(s) \/ SemaDeleted(s)
                \/ SignalSema(s) \/ WaitSema(s) \/ PollSema(s)
      BY <1>7
    <2> QED BY <2>1, CreateSemaInv, RefuseWaiterInv, SemaDeletedInv,
               SignalSemaInv, WaitSemaInv, PollSemaInv
  <1>8. CASE UNCHANGED eeVars
    <2>1. Kernel' = Kernel /\ requested' = requested /\ depth' = depth /\ loop' = loop
      BY <1>8 DEF eeVars, Kernel
    <2> QED BY <2>1 DEF EEInv
  <1> QED BY <1>1, <1>2, <1>3, <1>4, <1>5, <1>6, <1>7, <1>8 DEF EENext

LEMMA EEInvHolds ==
  ASSUME Unsafe = {}
  PROVE  EESpec => []EEInv
  <1>1. EEInit => EEInv  BY InitInv
  <1>2. EEInv /\ [EENext]_eeVars => EEInv'  BY NextInv
  <1> QED BY <1>1, <1>2, PTL DEF EESpec

-----------------------------------------------------------------------------
(* What the invariant says of the four properties the runs check.          *)
LEMMA InvPickMissesNone ==
  ASSUME EEInv
  PROVE  PickMissesNone
  <1> DEFINE k == Kernel
             h == k.links.head[IdlePriority]
             w == PlaceOf(k)
  <1>1. /\ k \in EEKernelType /\ w \in Places /\ LinkedAs(k.links, w)
        /\ Ranked(k.links) /\ k.links \in Links
        /\ \A q \in Priority : k.links.head[q] # None => k.lowest <= q
        /\ k.state[Idle] \in {"Run", "Ready"}
    BY InvType DEF Whole, Held, EEKernelType
  <1> HIDE DEF k
  <1>2. w[Idle] = IdlePriority
    BY <1>1, EEConstants DEF PlaceOf, QueueOf
  <1>3. h # None
    <2>1. w[Idle] # Nowhere  BY <1>2, EEConstants
    <2> QED BY <1>1, <1>2, <2>1, EEConstants, QueueHasHead
  <1>4. h \in Thread /\ w[h] = IdlePriority
    BY <1>1, <1>3, EEConstants DEF LinkedAs, Links, Index
  <1>5. QueueOf(k, h) = IdlePriority
    BY <1>1, <1>4, EEConstants, PlaceTells
  <1>6. h = Idle  BY <1>1, <1>4, <1>5, EEConstants, QueueOfIn
  <1> QED BY <1>1, <1>6, KernelFields DEF PickMissesNone, k

LEMMA InvBetterThreadRuns ==
  ASSUME EEInv
  PROVE  BetterThreadRuns
  <1> SUFFICES ASSUME NEW t \in Thread, state[t] = "Ready",
                      QueueOf(Kernel, t) < QueueOf(Kernel, current)
               PROVE  requested /\ (depth > 0 \/ loop \in Object)
    BY DEF BetterThreadRuns
  <1>1. QueueOf(Kernel, t) \in Nat /\ QueueOf(Kernel, current) \in Nat
    BY InvType, EEConstants, QueueOfIn
  <1>2. t # None  BY NoneIsNoThread
  <1>3. ~NoBetter(Kernel)
    <2>1. ~(QueueOf(Kernel, current) <= QueueOf(Kernel, t))  BY <1>1
    <2> QED BY <1>2, <2>1, KernelFields DEF NoBetter, NoBetterBut
  <1>4. requested = TRUE /\ ~(depth = 0 /\ loop \notin Object) /\ depth \in Nat
    BY <1>3 DEF EEInv
  <1> QED BY <1>4

LEMMA InvLiveFramesKept ==
  ASSUME EEInv
  PROVE  LiveFramesKept
  <1>1. \A t \in Thread : Fine(Kernel, t) /\ byInterrupt[t] \in BOOLEAN
    BY InvType
  <1>2. \A t \in Thread : state[t] \in {"Wait", "WaitSuspend"} => ~byInterrupt[t]
    BY <1>1, KernelFields DEF Fine, Waiting
  <1>3. \A t \in Thread : t # current /\ byInterrupt[t] => result[t] = "Live"
    BY <1>1, KernelFields DEF Fine, Framed
  <1> QED BY <1>2, <1>3 DEF LiveFramesKept

LEMMA InvNoWaitWithCount ==
  ASSUME EEInv
  PROVE  NoWaitWithCount
  BY InvType, KernelFields DEF NoWaitWithCount, Fine

(* lowest_ready hides no thread, and the boot thread is always there to be *)
(* picked, below all others: pickNext never finds nothing.                 *)
THEOREM EEPickMissesNone ==
  ASSUME Unsafe = {}
  PROVE  EESpec => []PickMissesNone
  <1>1. EEInv => PickMissesNone  BY InvPickMissesNone
  <1> QED BY <1>1, EEInvHolds, PTL

(* A ready thread better than the running one has a switch requested for   *)
(* it, which the outermost interrupt's exit or the deletion's end makes.   *)
THEOREM EEBetterThreadRuns ==
  ASSUME Unsafe = {}
  PROVE  EESpec => []BetterThreadRuns
  <1>1. EEInv => BetterThreadRuns  BY InvBetterThreadRuns
  <1> QED BY <1>1, EEInvHolds, PTL

(* No syscall's answer is written over the registers an interrupt saved.   *)
THEOREM EELiveFramesKept ==
  ASSUME Unsafe = {}
  PROVE  EESpec => []LiveFramesKept
  <1>1. EEInv => LiveFramesKept  BY InvLiveFramesKept
  <1> QED BY <1>1, EEInvHolds, PTL

(* No thread waits on an EE semaphore that has a count left.               *)
THEOREM EENoWaitWithCount ==
  ASSUME Unsafe = {}
  PROVE  EESpec => []NoWaitWithCount
  <1>1. EEInv => NoWaitWithCount  BY InvNoWaitWithCount
  <1> QED BY <1>1, EEInvHolds, PTL

-----------------------------------------------------------------------------
(* The queues' contents, and the count each semaphore keeps of its waiters.*)
(* The count is another inductive invariant, on top of EEInv: leaveWaitList*)
(* is the only place that lowers it, and every path that ends a wait goes  *)
(* through it, or the count would run away from the list.                  *)
Users(k, s) == {t \in Thread : k.wait[t] = s}
Counted(k) == \A s \in Object : k.waiters[s] = Cardinality(Users(k, s))

Unmoved(k, m) == m.wait = k.wait /\ m.waiters = k.waiters

LEMMA UnmovedCounted ==
  ASSUME NEW k, NEW m, Counted(k), Unmoved(k, m)
  PROVE  Counted(m)
  BY DEF Counted, Unmoved, Users

(* The helpers that move threads between ready queues.                     *)
LEMMA LinkReadyUnmoved ==
  ASSUME NEW k \in EEKernelType, NEW i \in Thread
  PROVE  LinkReady(k, i) \in EEKernelType /\ Unmoved(k, LinkReady(k, i))
  <1> DEFINE q == QueueOf(k, i)
             l == Enqueue(k.links, q, i)
  <1>1. q \in Priority /\ q \in Queue /\ k.links \in Links
    BY QueueOfIn, EEConstants DEF EEKernelType
  <1>2. l \in Links  BY <1>1, EnqueueType
  <1>3. k.requested \in BOOLEAN /\ k.lowest \in Priority  BY DEF EEKernelType
  <1> DEFINE b == (k.requested \/ q < QueueOf(k, k.current))
             w == IF q < k.lowest THEN q ELSE k.lowest
  <1>4. b \in BOOLEAN /\ w \in Priority  BY <1>1, <1>3
  <1>5. LinkReady(k, i) = [k EXCEPT !.links = l, !.lowest = w, !.requested = b]
    BY DEF LinkReady
  <1> HIDE DEF l, q, b, w
  <1> QED BY <1>2, <1>4, <1>5 DEF EEKernelType, Unmoved

LEMMA StateUnmoved ==
  ASSUME NEW k \in EEKernelType, NEW i \in Thread, NEW v \in State
  PROVE  /\ [k EXCEPT !.state[i] = v] \in EEKernelType
         /\ Unmoved(k, [k EXCEPT !.state[i] = v])
  <1> DEFINE f == [k.state EXCEPT ![i] = v]
  <1>1. f \in [Thread -> State]  BY DEF EEKernelType
  <1>2. [k EXCEPT !.state[i] = v] = [k EXCEPT !.state = f]  BY DEF EEKernelType
  <1> HIDE DEF f
  <1> QED BY <1>1, <1>2 DEF EEKernelType, Unmoved

LEMMA ResultUnmoved ==
  ASSUME NEW k \in EEKernelType, NEW i \in Thread, NEW v \in Result
  PROVE  /\ [k EXCEPT !.result[i] = v] \in EEKernelType
         /\ Unmoved(k, [k EXCEPT !.result[i] = v])
  <1> DEFINE f == [k.result EXCEPT ![i] = v]
  <1>1. f \in [Thread -> Result]  BY DEF EEKernelType
  <1>2. [k EXCEPT !.result[i] = v] = [k EXCEPT !.result = f]  BY DEF EEKernelType
  <1> HIDE DEF f
  <1> QED BY <1>1, <1>2 DEF EEKernelType, Unmoved

LEMMA UnmovedTwice ==
  ASSUME NEW k, NEW m, NEW n, Unmoved(k, m), Unmoved(m, n)
  PROVE  Unmoved(k, n)
  BY DEF Unmoved

LEMMA MakeReadyUnmoved ==
  ASSUME NEW k \in EEKernelType, NEW i \in Thread
  PROVE  MakeReady(k, i) \in EEKernelType /\ Unmoved(k, MakeReady(k, i))
  <1> DEFINE m == [k EXCEPT !.state[i] = "Ready"]
  <1>1. m \in EEKernelType /\ Unmoved(k, m)  BY StateUnmoved DEF State
  <1> HIDE DEF m
  <1>2. LinkReady(m, i) \in EEKernelType /\ Unmoved(k, LinkReady(m, i))
    BY <1>1, LinkReadyUnmoved, UnmovedTwice
  <1> QED BY <1>2 DEF MakeReady, m

LEMMA TakeOffUnmoved ==
  ASSUME NEW k \in EEKernelType, NEW i \in Thread
  PROVE  TakeOffReadyQueue(k, i) \in EEKernelType /\ Unmoved(k, TakeOffReadyQueue(k, i))
  <1> DEFINE l == Unlink(k.links, QueueOf(k, i), i)
  <1>1. QueueOf(k, i) \in Queue /\ k.links \in Links
    BY QueueOfIn, EEConstants DEF EEKernelType
  <1>2. l \in Links  BY <1>1, UnlinkType
  <1>3. TakeOffReadyQueue(k, i) = [k EXCEPT !.links = l]  BY DEF TakeOffReadyQueue
  <1> HIDE DEF l
  <1> QED BY <1>2, <1>3 DEF EEKernelType, Unmoved

LEMMA ParkUnmoved ==
  ASSUME NEW k \in EEKernelType, NEW v \in Result, NEW b \in BOOLEAN
  PROVE  Park(k, v, b) \in EEKernelType /\ Unmoved(k, Park(k, v, b))
         /\ Park(k, v, b).current = k.current
  <1> DEFINE f == [k.result EXCEPT ![k.current] = v]
             g == [k.byInterrupt EXCEPT ![k.current] = b]
  <1>1. f \in [Thread -> Result] /\ g \in [Thread -> BOOLEAN]
    BY DEF EEKernelType
  <1>2. Park(k, v, b) = [k EXCEPT !.result = f, !.byInterrupt = g]
    BY DEF Park, EEKernelType
  <1> HIDE DEF f, g
  <1> QED BY <1>1, <1>2 DEF EEKernelType, Unmoved

LEMMA ResumeUnmoved ==
  ASSUME NEW k \in EEKernelType
  PROVE  Unmoved(k, ResumeNext(k))
  BY DEF ResumeNext, EEKernelType, Unmoved

LEMMA YieldUnmoved ==
  ASSUME NEW k \in EEKernelType
  PROVE  Unmoved(k, Yield(k))
  <1> DEFINE m == Park(k, "Answer", FALSE)
             n == [m EXCEPT !.state[k.current] = "Ready"]
  <1>1. m \in EEKernelType /\ Unmoved(k, m)  BY ParkUnmoved DEF Result
  <1>2. k.current \in Thread  BY DEF EEKernelType
  <1> HIDE DEF m
  <1>3. n \in EEKernelType /\ Unmoved(m, n)  BY <1>1, <1>2, StateUnmoved DEF State
  <1> HIDE DEF n
  <1>4. Unmoved(k, ResumeNext(n))
    BY <1>1, <1>3, ResumeUnmoved, UnmovedTwice
  <1> QED BY <1>4 DEF Yield, n, m

-----------------------------------------------------------------------------
(* A thread leaves a semaphore's list, joins one, or changes its reason    *)
(* for another that is no semaphore.                                       *)
LEMMA UsersFinite ==
  ASSUME NEW k, NEW s
  PROVE  IsFiniteSet(Users(k, s))
  BY ThreadsFinite DEF Users

LEMMA LeaveCounted ==
  ASSUME NEW k \in EEKernelType, Counted(k), NEW i \in Thread
  PROVE  LET m == LeaveWaitList(k, i)
         IN  /\ m \in EEKernelType /\ Counted(m) /\ m.state = k.state
             /\ m.current = k.current
             /\ m.wait = [k.wait EXCEPT ![i] = "NotWaiting"]
  <1> DEFINE s == k.wait[i]
             f == [k.wait EXCEPT ![i] = "NotWaiting"]
             m == LeaveWaitList(k, i)
  <1>1. f \in [Thread -> WaitReason]  BY DEF EEKernelType, WaitReason
  <1>2. CASE s \notin Object
    <2>1. m = [k EXCEPT !.wait = f]  BY <1>2 DEF LeaveWaitList, EEKernelType
    <2> HIDE DEF f
    <2>2. m \in EEKernelType /\ m.state = k.state /\ m.wait = f
          /\ m.waiters = k.waiters /\ m.current = k.current
      BY <1>1, <2>1 DEF EEKernelType
    <2> HIDE DEF m
    <2>3. ASSUME NEW x \in Object  PROVE Users(m, x) = Users(k, x)
      BY <1>2, <2>2, EEConstants DEF Users, f, EEKernelType
    <2>4. Counted(m)  BY <2>2, <2>3 DEF Counted
    <2> QED BY <2>2, <2>4 DEF m, f
  <1>3. CASE s \in Object
    <2> DEFINE l == Unlink(k.links, s, i)
               n == IF k.waiters[s] > 0 THEN k.waiters[s] - 1 ELSE k.waiters[s]
               c == [k.waiters EXCEPT ![s] = n]
    <2>1. l \in Links /\ c \in [Object -> Nat]
      <3>1. k.links \in Links /\ s \in Queue  BY <1>3, EEConstants DEF EEKernelType
      <3>2. l \in Links  BY <3>1, UnlinkType
      <3>3. n \in Nat  BY <1>3 DEF EEKernelType
      <3> HIDE DEF n
      <3>4. c \in [Object -> Nat]  BY <3>3 DEF EEKernelType
      <3> QED BY <3>2, <3>4
    <2>2. m = [k EXCEPT !.wait = f, !.links = l, !.waiters = c]
      BY <1>3 DEF LeaveWaitList, EEKernelType
    <2>3. k.waiters[s] = Cardinality(Users(k, s)) /\ i \in Users(k, s)
      BY <1>3 DEF Counted, Users
    <2>4. /\ Cardinality(Users(k, s) \ {i}) = Cardinality(Users(k, s)) - 1
          /\ Cardinality(Users(k, s) \ {i}) \in Nat /\ Cardinality(Users(k, s)) \in Nat
      <3>1. IsFiniteSet(Users(k, s) \ {i})  BY UsersFinite, FS_RemoveElement
      <3> QED BY <2>3, <3>1, UsersFinite, FS_RemoveElement, FS_CardinalityType
    <2>5. n = Cardinality(Users(k, s) \ {i})  BY <2>3, <2>4
    <2> HIDE DEF f, l, c, n
    <2>6. m \in EEKernelType /\ m.state = k.state /\ m.wait = f
          /\ m.waiters = c /\ m.current = k.current
      BY <1>1, <2>1, <2>2 DEF EEKernelType
    <2> HIDE DEF m
    <2>7. ASSUME NEW x \in Object
          PROVE  Users(m, x) = IF x = s THEN Users(k, s) \ {i} ELSE Users(k, x)
      BY <1>3, <2>6, EEConstants DEF Users, f, EEKernelType
    <2>8. ASSUME NEW x \in Object
          PROVE  c[x] = IF x = s THEN n ELSE k.waiters[x]
      BY <1>3 DEF c, EEKernelType
    <2>9. ASSUME NEW x \in Object  PROVE m.waiters[x] = Cardinality(Users(m, x))
      BY <2>5, <2>6, <2>7, <2>8 DEF Counted
    <2>10. Counted(m)  BY <2>9 DEF Counted
    <2> QED BY <2>6, <2>10 DEF m, f
  <1> QED BY <1>2, <1>3

LEMMA JoinCounted ==
  ASSUME NEW k \in EEKernelType, NEW m, Counted(k), NEW i \in Thread, NEW s \in Object,
         k.wait[i] \notin Object,
         m.wait = [k.wait EXCEPT ![i] = s],
         m.waiters = [k.waiters EXCEPT ![s] = @ + 1]
  PROVE  Counted(m)
  <1>1. /\ Cardinality(Users(k, s) \cup {i}) = Cardinality(Users(k, s)) + 1
        /\ k.waiters[s] = Cardinality(Users(k, s))
    <2>1. i \notin Users(k, s)  BY DEF Users
    <2> QED BY <2>1, UsersFinite, FS_AddElement DEF Counted
  <1>2. ASSUME NEW x \in Object
        PROVE  Users(m, x) = IF x = s THEN Users(k, s) \cup {i} ELSE Users(k, x)
    BY <1>2 DEF Users, EEKernelType
  <1>3. ASSUME NEW x \in Object  PROVE m.waiters[x] = Cardinality(Users(m, x))
    <2>1. m.waiters[x] = IF x = s THEN k.waiters[s] + 1 ELSE k.waiters[x]
      BY <1>3 DEF EEKernelType
    <2> QED BY <1>1, <1>2, <2>1 DEF Counted
  <1> QED BY <1>3 DEF Counted

LEMMA ReasonCounted ==
  ASSUME NEW k \in EEKernelType, NEW m, Counted(k), NEW i \in Thread, NEW v,
         v \notin Object, k.wait[i] \notin Object,
         m.wait = [k.wait EXCEPT ![i] = v], m.waiters = k.waiters
  PROVE  Counted(m)
  <1>1. ASSUME NEW x \in Object  PROVE Users(m, x) = Users(k, x)
    BY <1>1 DEF Users, EEKernelType
  <1> QED BY <1>1 DEF Counted

-----------------------------------------------------------------------------
(* How each call ends.                                                     *)
LEMMA BecomesCounted ==
  ASSUME NEW m, Counted(m), Becomes(m)
  PROVE  Counted(Kernel)'
  BY DEF Counted, Users, Becomes, Kernel

LEMMA AnsweredCounted ==
  ASSUME NEW m \in EEKernelType, Counted(m), Answered(m)
  PROVE  Counted(Kernel)'
  <1>1. CASE InHandler
    BY <1>1, BecomesCounted DEF Answered
  <1>2. CASE ~InHandler
    <2>1. Becomes(Yield(m))  BY <1>2 DEF Answered
    <2>2. Counted(Yield(m))  BY YieldUnmoved, UnmovedCounted
    <2> QED BY <2>1, <2>2, BecomesCounted
  <1> QED BY <1>1, <1>2

LEMMA SwitchedCounted ==
  ASSUME NEW m \in EEKernelType, Counted(m), Becomes(ResumeNext(m))
  PROVE  Counted(Kernel)'
  <1>1. Counted(ResumeNext(m))  BY ResumeUnmoved, UnmovedCounted
  <1> QED BY <1>1, BecomesCounted

(* A thread that no longer waits is written afresh.                        *)
LEMMA DetachCounted ==
  ASSUME NEW k, Whole(k), Counted(k), NEW i \in Thread
  PROVE  LET m == Detach(k, i)
         IN  m \in EEKernelType /\ Counted(m) /\ m.wait[i] \notin Object
  <1>1. k \in EEKernelType /\ Fine(k, i)  BY WholeType DEF Whole
  <1>2. CASE k.state[i] \in {"Run", "Ready"}
    <2>1. k.wait[i] \notin Object
      BY <1>1, <1>2, EEConstants DEF Fine, Waiting
    <2> QED BY <1>1, <1>2, <2>1, TakeOffUnmoved, UnmovedCounted DEF Detach, Unmoved
  <1>3. CASE k.state[i] \in {"Wait", "WaitSuspend"}
    <2> DEFINE m == LeaveWaitList(k, i)
    <2>1. /\ m \in EEKernelType /\ Counted(m)
          /\ m.wait = [k.wait EXCEPT ![i] = "NotWaiting"]
      BY <1>1, LeaveCounted
    <2>2. Detach(k, i) = m  BY <1>3 DEF Detach
    <2> HIDE DEF m
    <2>3. m.wait[i] = "NotWaiting"  BY <1>1, <2>1 DEF EEKernelType
    <2> QED BY <2>1, <2>2, <2>3, EEConstants
  <1>4. CASE k.state[i] \notin {"Run", "Ready", "Wait", "WaitSuspend"}
    <2>1. k.wait[i] \notin Object
      BY <1>1, <1>4, EEConstants DEF Fine, Waiting
    <2>2. Detach(k, i) = k  BY <1>4 DEF Detach
    <2> QED BY <1>1, <2>1, <2>2
  <1> QED BY <1>2, <1>3, <1>4

LEMMA ResetCounted ==
  ASSUME NEW k \in EEKernelType, Counted(k), NEW i \in Thread,
         k.wait[i] \notin Object
  PROVE  ResetToDormant(k, i) \in EEKernelType /\ Counted(ResetToDormant(k, i))
  <1> DEFINE a == [k.state EXCEPT ![i] = "Dormant"]
             b == [k.priority EXCEPT ![i] = k.initial[i]]
             c == [k.wait EXCEPT ![i] = "NotWaiting"]
             d == [k.wakeups EXCEPT ![i] = 0]
             e == [k.result EXCEPT ![i] = "Live"]
             m == ResetToDormant(k, i)
  <1>1. /\ a \in [Thread -> State] /\ b \in [Thread -> 1 .. BootPriority]
        /\ c \in [Thread -> WaitReason] /\ d \in [Thread -> Nat]
        /\ e \in [Thread -> Result]
    BY DEF EEKernelType, State, WaitReason, Result
  <1>2. m = [k EXCEPT !.state = a, !.priority = b, !.wait = c, !.wakeups = d,
                      !.result = e]
    BY DEF ResetToDormant, EEKernelType
  <1> HIDE DEF a, b, d, e, c, m
  <1>3. m \in EEKernelType /\ m.wait = c /\ m.waiters = k.waiters
    BY <1>1, <1>2 DEF EEKernelType
  <1>4. Counted(m)  BY <1>3, ReasonCounted, EEConstants DEF c
  <1> QED BY <1>3, <1>4 DEF m

LEMMA FreeCounted ==
  ASSUME NEW k \in EEKernelType, Counted(k), NEW i \in Thread,
         k.wait[i] \notin Object
  PROVE  FreeThread(k, i) \in EEKernelType /\ Counted(FreeThread(k, i))
  <1> DEFINE a == [k.state EXCEPT ![i] = "Free"]
             b == [k.priority EXCEPT ![i] = BootPriority]
             n == [k.initial EXCEPT ![i] = BootPriority]
             c == [k.wait EXCEPT ![i] = "NotWaiting"]
             d == [k.wakeups EXCEPT ![i] = 0]
             e == [k.result EXCEPT ![i] = "Live"]
             g == [k.byInterrupt EXCEPT ![i] = FALSE]
             m == FreeThread(k, i)
  <1>1. /\ a \in [Thread -> State] /\ b \in [Thread -> 1 .. BootPriority]
        /\ n \in [Thread -> 1 .. BootPriority]
        /\ c \in [Thread -> WaitReason] /\ d \in [Thread -> Nat]
        /\ e \in [Thread -> Result] /\ g \in [Thread -> BOOLEAN]
    BY EEConstants DEF EEKernelType, State, WaitReason, Result
  <1>2. m = [k EXCEPT !.state = a, !.priority = b, !.initial = n, !.wait = c,
                      !.wakeups = d, !.result = e, !.byInterrupt = g]
    BY DEF FreeThread, EEKernelType
  <1> HIDE DEF a, b, n, d, e, g, c, m
  <1>3. m \in EEKernelType /\ m.wait = c /\ m.waiters = k.waiters
    BY <1>1, <1>2 DEF EEKernelType
  <1>4. Counted(m)  BY <1>3, ReasonCounted, EEConstants DEF c
  <1> QED BY <1>3, <1>4 DEF m

(* A waiter is woken.                                                      *)
LEMMA WakeWaiterCounted ==
  ASSUME NEW k \in EEKernelType, Counted(k), NEW i \in Thread
  PROVE  WakeWaiter(k, i) \in EEKernelType /\ Counted(WakeWaiter(k, i))
  <1> DEFINE m == LeaveWaitList(k, i)
  <1>1. m \in EEKernelType /\ Counted(m)  BY LeaveCounted
  <1>2. WakeWaiter(k, i) = IF k.state[i] = "Wait" THEN MakeReady(m, i)
                           ELSE [m EXCEPT !.state[i] = "Suspend"]
    BY DEF WakeWaiter
  <1> HIDE DEF m
  <1>3. MakeReady(m, i) \in EEKernelType /\ Counted(MakeReady(m, i))
    BY <1>1, MakeReadyUnmoved, UnmovedCounted
  <1>4. "Suspend" \in State  BY DEF State
  <1> DEFINE n == [m EXCEPT !.state[i] = "Suspend"]
  <1>5. n \in EEKernelType /\ Unmoved(m, n)  BY <1>1, <1>4, StateUnmoved
  <1> HIDE DEF n
  <1>6. Counted(n)  BY <1>1, <1>5, UnmovedCounted
  <1> QED BY <1>2, <1>3, <1>5, <1>6 DEF n

-----------------------------------------------------------------------------
(* Every call keeps the counts.                                            *)
CountInv == EEInv /\ Counted(Kernel)

LEMMA CountTells ==
  ASSUME CountInv
  PROVE  /\ Kernel \in EEKernelType /\ Whole(Kernel) /\ Counted(Kernel)
         /\ current \in Thread /\ Kernel.current = current
         /\ \A t \in Thread :
              state[t] \notin {"Wait", "WaitSuspend"} => wait[t] = "NotWaiting"
         /\ \A t \in Thread : Fine(Kernel, t)
         /\ "NotWaiting" \notin Object /\ "Sleeping" \notin Object
  <1>1. Kernel \in EEKernelType /\ Whole(Kernel)
    BY WholeType DEF CountInv, EEInv
  <1>2. \A t \in Thread : Fine(Kernel, t)  BY <1>1 DEF Whole
  <1>3. \A t \in Thread :
          state[t] \notin {"Wait", "WaitSuspend"} => wait[t] = "NotWaiting"
    BY <1>2, KernelFields DEF Fine, Waiting
  <1>4. Kernel.current \in Thread  BY <1>1 DEF EEKernelType
  <1> QED BY <1>1, <1>2, <1>3, <1>4, KernelFields, EEConstants DEF CountInv

LEMMA SameWaitsCounted ==
  ASSUME CountInv, wait' = wait, waiters' = waiters
  PROVE  Counted(Kernel)'
  BY DEF CountInv, Counted, Users, Kernel

LEMMA StartProgramCounted ==
  ASSUME CountInv, StartProgramThread
  PROVE  Counted(Kernel)'
  <1>1. Whole(Kernel) /\ Kernel \in EEKernelType /\ state[Idle] = "Ready"
        /\ current = Idle
    BY CountTells DEF StartProgramThread
  <1>2. Program \in Thread /\ wait[Program] = "NotWaiting"
    <2>1. state[Program] = "Free"
      BY <1>1, KernelFields, EEConstants DEF Whole, Booting
    <2> QED BY <2>1, CountTells, EEConstants
  <1> DEFINE k == Kernel
             S == [[k.state EXCEPT ![Idle] = "Ready"] EXCEPT ![Program] = "Run"]
             I == [k.initial EXCEPT ![Program] = BootPriority]
             P == [k.priority EXCEPT ![Program] = BootPriority]
             W == [k.wait EXCEPT ![Program] = "NotWaiting"]
             U == [k.wakeups EXCEPT ![Program] = 0]
             boot == [k EXCEPT !.state = S, !.initial = I, !.priority = P,
                               !.wait = W, !.wakeups = U]
             m == LinkReady(boot, Program)
             n == [m EXCEPT !.current = Program]
  <1>3. Becomes(n)
    <2>1. boot = [Kernel EXCEPT
                      !.state[Idle] = "Ready", !.state[Program] = "Run",
                      !.initial[Program] = BootPriority,
                      !.priority[Program] = BootPriority,
                      !.wait[Program] = "NotWaiting", !.wakeups[Program] = 0]
      BY <1>1 DEF EEKernelType
    <2> HIDE DEF boot
    <2> QED BY <2>1 DEF StartProgramThread
  <1>4. /\ S \in [Thread -> State] /\ I \in [Thread -> 1 .. BootPriority]
        /\ P \in [Thread -> 1 .. BootPriority]
        /\ W \in [Thread -> WaitReason] /\ U \in [Thread -> Nat]
    BY <1>1, EEConstants DEF EEKernelType, State, WaitReason
  <1> HIDE DEF S, I, P, U, W, k
  <1>5. boot \in EEKernelType /\ boot.wait = W /\ boot.waiters = k.waiters
    BY <1>1, <1>4 DEF EEKernelType, k
  <1> HIDE DEF boot
  <1>6. m \in EEKernelType /\ Unmoved(boot, m)  BY <1>2, <1>5, LinkReadyUnmoved
  <1> HIDE DEF m
  <1>7. n.wait = W /\ n.waiters = k.waiters
    BY <1>5, <1>6 DEF EEKernelType, Unmoved
  <1>8. wait' = W /\ waiters' = waiters
    BY <1>3, <1>7, KernelFields DEF Becomes, k
  <1>9. W = wait
    BY <1>1, <1>2, KernelFields DEF EEKernelType, W, k
  <1> QED BY <1>8, <1>9, SameWaitsCounted

LEMMA InterruptsCounted ==
  ASSUME CountInv, InterruptEntry \/ InterruptExit \/ TerminateOtherThreads
                   \/ OthersTerminated \/ \E s \in Object : DeleteSema(s)
  PROVE  Counted(Kernel)'
  <1>1. CASE InterruptEntry
    BY <1>1, SameWaitsCounted DEF InterruptEntry, Becomes, Kernel
  <1>2. CASE InterruptExit
    <2> DEFINE m == Park(Kernel, "Live", TRUE)
               n == [m EXCEPT !.requested = FALSE, !.state[current] = "Ready"]
    <2>1. Becomes(Kernel) \/ Becomes(ResumeNext(n))
      BY <1>2 DEF InterruptExit
    <2>2. m \in EEKernelType /\ Unmoved(Kernel, m)
      BY CountTells, ParkUnmoved DEF Result
    <2> HIDE DEF m
    <2>3. n \in EEKernelType /\ Unmoved(m, n)
      <3> DEFINE f == [m.state EXCEPT ![current] = "Ready"]
      <3>1. f \in [Thread -> State]  BY <2>2 DEF EEKernelType, State
      <3>2. n = [m EXCEPT !.requested = FALSE, !.state = f]
        BY <2>2 DEF EEKernelType
      <3> HIDE DEF f, n
      <3> QED BY <2>2, <3>1, <3>2 DEF EEKernelType, Unmoved
    <2> HIDE DEF n
    <2>4. Counted(n)  BY <2>2, <2>3, UnmovedTwice, UnmovedCounted, CountTells
    <2> QED BY <2>1, <2>3, <2>4, CountTells, BecomesCounted, SwitchedCounted
  <1>3. CASE TerminateOtherThreads \/ OthersTerminated
    BY <1>3, BecomesCounted, CountTells DEF TerminateOtherThreads, OthersTerminated
  <1>4. CASE \E s \in Object : DeleteSema(s)
    BY <1>4, BecomesCounted, CountTells DEF DeleteSema
  <1> QED BY <1>1, <1>2, <1>3, <1>4

(* Creation, start and the three ends of a thread.                         *)
LEMMA LivesCounted ==
  ASSUME CountInv, NEW i \in Target,
         \/ \E p \in CallPriority : CreateThread(i, p)
         \/ DeleteThread(i) \/ StartThread(i)
         \/ TerminateOther(i) \/ TerminateThread(i)
  PROVE  Counted(Kernel)'
  <1> DEFINE k == Kernel
  <1>1. k \in EEKernelType /\ Whole(k) /\ Counted(k) /\ i \in Thread
    BY CountTells DEF Target
  <1>2. state[i] \notin {"Wait", "WaitSuspend"} => k.wait[i] \notin Object
    BY <1>1, CountTells, KernelFields
  <1>3. CASE \E p \in CallPriority : CreateThread(i, p)
    <2>0. PICK p \in CallPriority : CreateThread(i, p)  BY <1>3
    <2> DEFINE f == [k.byInterrupt EXCEPT ![i] = FALSE]
               g == [k.initial EXCEPT ![i] = p]
               l == [k.links EXCEPT !.next[i] = None, !.prev[i] = None]
               m == [k EXCEPT !.byInterrupt = f, !.initial = g, !.links = l]
    <2>1. /\ f \in [Thread -> BOOLEAN] /\ g \in [Thread -> 1 .. BootPriority]
          /\ l \in Links
      BY <1>1, EEConstants DEF EEKernelType, Links, Index
    <2>2. m = [k EXCEPT !.byInterrupt[i] = FALSE, !.initial[i] = p,
                        !.links = [@ EXCEPT !.next[i] = None, !.prev[i] = None]]
      BY <1>1 DEF EEKernelType
    <2> HIDE DEF f, g, l, k
    <2>3. m \in EEKernelType /\ Unmoved(k, m)
      BY <1>1, <2>1 DEF EEKernelType, Unmoved
    <2>4. Becomes(ResetToDormant(m, i)) /\ state[i] = "Free"
      BY <2>0, <2>2 DEF CreateThread, Returned, k
    <2> HIDE DEF m
    <2>5. Counted(m) /\ m.wait[i] \notin Object
      BY <1>1, <1>2, <2>3, <2>4, UnmovedCounted DEF Unmoved
    <2> QED BY <1>1, <2>3, <2>4, <2>5, ResetCounted, BecomesCounted
  <1>4. CASE DeleteThread(i)
    <2>1. Becomes(FreeThread(k, i)) /\ state[i] = "Dormant"
      BY <1>4 DEF DeleteThread, Returned
    <2> QED BY <1>1, <1>2, <2>1, FreeCounted, BecomesCounted
  <1>5. CASE StartThread(i)
    <2>1. Becomes(Yield(MakeReady(k, i)))  BY <1>5 DEF StartThread, Returned
    <2>2. MakeReady(k, i) \in EEKernelType /\ Counted(MakeReady(k, i))
      BY <1>1, MakeReadyUnmoved, UnmovedCounted
    <2>3. Counted(Yield(MakeReady(k, i)))  BY <2>2, YieldUnmoved, UnmovedCounted
    <2> QED BY <2>1, <2>3, BecomesCounted
  <1>6. CASE TerminateOther(i)
    <2>1. Becomes(FreeThread(Detach(k, i), i))  BY <1>6 DEF TerminateOther
    <2>2. Counted(FreeThread(Detach(k, i), i))
      BY <1>1, DetachCounted, FreeCounted
    <2> QED BY <2>1, <2>2, BecomesCounted
  <1>7. CASE TerminateThread(i)
    <2> DEFINE m == ResetToDormant(Detach(k, i), i)
    <2>1. Answered(m) \/ Becomes(ResumeNext(m))
      BY <1>7 DEF TerminateThread, Returned
    <2>2. m \in EEKernelType /\ Counted(m)  BY <1>1, DetachCounted, ResetCounted
    <2> HIDE DEF m
    <2> QED BY <2>1, <2>2, AnsweredCounted, SwitchedCounted
  <1> QED BY <1>3, <1>4, <1>5, <1>6, <1>7

LEMMA ExitCounted ==
  ASSUME CountInv, ExitThread \/ ExitDeleteThread
  PROVE  Counted(Kernel)'
  <1> DEFINE k == Kernel
             m == TakeOffReadyQueue(k, current)
  <1>1. k \in EEKernelType /\ Whole(k) /\ Counted(k) /\ current \in Thread
    BY CountTells
  <1>2. InThread  BY DEF ExitThread, ExitDeleteThread, Returned
  <1>3. k.wait[current] \notin Object
    <2>1. state[current] \notin {"Wait", "WaitSuspend"}
      BY <1>1, <1>2, KernelFields DEF InThread, Whole, Booting
    <2> QED BY <1>1, <2>1, CountTells, KernelFields
  <1>4. m \in EEKernelType /\ Counted(m) /\ m.wait[current] \notin Object
    BY <1>1, <1>3, TakeOffUnmoved, UnmovedCounted DEF Unmoved
  <1>5. \/ Becomes(ResumeNext(ResetToDormant(m, current)))
        \/ Becomes(ResumeNext(FreeThread(m, current)))
    BY DEF ExitThread, ExitDeleteThread, Returned
  <1> HIDE DEF m
  <1> QED BY <1>1, <1>4, <1>5, ResetCounted, FreeCounted, SwitchedCounted

LEMMA ChangePriorityCounted ==
  ASSUME CountInv, NEW i \in Target, NEW p \in CallPriority, ChangeThreadPriority(i, p)
  PROVE  Counted(Kernel)'
  <1> DEFINE k == Kernel
             off == TakeOffReadyQueue(k, i)
             P == [off.priority EXCEPT ![i] = p]
             R == [k.priority EXCEPT ![i] = p]
             set == [off EXCEPT !.priority = P]
             m == IF state[i] \in {"Run", "Ready"} THEN LinkReady(set, i)
                  ELSE [k EXCEPT !.priority = R]
  <1>1. k \in EEKernelType /\ Counted(k) /\ i \in Thread /\ p \in 1 .. BootPriority
    BY CountTells, EEConstants DEF Target
  <1>2. off \in EEKernelType /\ Unmoved(k, off)  BY <1>1, TakeOffUnmoved
  <1>3. Answered(m)
    <2> HIDE DEF off
    <2>1. set = [off EXCEPT !.priority[i] = p]  BY <1>2 DEF EEKernelType
    <2>2. [k EXCEPT !.priority = R] = [k EXCEPT !.priority[i] = p]
      BY <1>1 DEF EEKernelType
    <2> QED BY <2>1, <2>2 DEF ChangeThreadPriority, off
  <1> HIDE DEF off, k
  <1>4. P \in [Thread -> 1 .. BootPriority] /\ R \in [Thread -> 1 .. BootPriority]
    BY <1>1, <1>2 DEF EEKernelType
  <1> HIDE DEF P, R
  <1>5. set \in EEKernelType /\ Unmoved(off, set)
    BY <1>2, <1>4 DEF EEKernelType, Unmoved
  <1>6. [k EXCEPT !.priority = R] \in EEKernelType
        /\ Unmoved(k, [k EXCEPT !.priority = R])
    BY <1>1, <1>4 DEF EEKernelType, Unmoved
  <1> HIDE DEF set
  <1>7. LinkReady(set, i) \in EEKernelType /\ Unmoved(set, LinkReady(set, i))
    BY <1>1, <1>5, LinkReadyUnmoved
  <1>8. Unmoved(k, LinkReady(set, i))  BY <1>2, <1>5, <1>7 DEF Unmoved
  <1>9. m \in EEKernelType /\ Counted(m)
    BY <1>1, <1>6, <1>7, <1>8, UnmovedCounted
  <1> HIDE DEF m
  <1> QED BY <1>3, <1>9, AnsweredCounted

LEMMA RotateCounted ==
  ASSUME CountInv, NEW p \in CallPriority, RotateThreadReadyQueue(p)
  PROVE  Counted(Kernel)'
  <1> DEFINE k == Kernel
             head == links.head[p]
             l == Enqueue(PopFront(links, p), p, head)
             m == IF head = None THEN k ELSE [k EXCEPT !.links = l]
  <1>1. k \in EEKernelType /\ Counted(k) /\ p \in Queue /\ links \in Links
    BY CountTells, EEConstants, KernelFields DEF EEKernelType
  <1>2. Answered(m)  BY KernelFields DEF RotateThreadReadyQueue
  <1>3. head # None => l \in Links
    <2>1. head \in Index  BY <1>1 DEF Links
    <2> QED BY <1>1, <2>1, PopFrontType, EnqueueType DEF Index
  <1> HIDE DEF l, head, k
  <1>4. m \in EEKernelType /\ Unmoved(k, m)
    BY <1>1, <1>3 DEF EEKernelType, Unmoved
  <1> HIDE DEF m
  <1>5. Counted(m)  BY <1>1, <1>4, UnmovedCounted
  <1> QED BY <1>2, <1>4, <1>5, AnsweredCounted

(* Release, wake-up, suspension and resumption.                            *)
LEMMA ReleaseWaitCounted ==
  ASSUME CountInv, NEW i \in Target, ReleaseWaitThread(i)
  PROVE  Counted(Kernel)'
  <1> DEFINE k == Kernel
             left == LeaveWaitList(k, i)
             refused == [left EXCEPT !.result[i] = "Refused"]
             aside == [refused EXCEPT !.state[i] = "Suspend"]
  <1>1. k \in EEKernelType /\ Counted(k) /\ i \in Thread
    BY CountTells DEF Target
  <1>2. left \in EEKernelType /\ Counted(left)  BY <1>1, LeaveCounted
  <1>3. \/ Answered(MakeReady(refused, i)) \/ Answered(aside) \/ Answered(k)
    <2>1. CASE state[i] = "Wait"  BY <2>1 DEF ReleaseWaitThread
    <2>2. CASE state[i] = "WaitSuspend"  BY <2>2 DEF ReleaseWaitThread
    <2>3. CASE state[i] \notin {"Wait", "WaitSuspend"}
      BY <2>3 DEF ReleaseWaitThread
    <2> QED BY <2>1, <2>2, <2>3
  <1> HIDE DEF left
  <1>4. refused \in EEKernelType /\ Counted(refused)
    BY <1>1, <1>2, ResultUnmoved, UnmovedCounted DEF Result
  <1> HIDE DEF refused
  <1>5. aside \in EEKernelType /\ Counted(aside)
    BY <1>1, <1>4, StateUnmoved, UnmovedCounted DEF State
  <1>6. MakeReady(refused, i) \in EEKernelType /\ Counted(MakeReady(refused, i))
    BY <1>1, <1>4, MakeReadyUnmoved, UnmovedCounted
  <1> HIDE DEF aside, k
  <1> QED BY <1>1, <1>3, <1>4, <1>5, <1>6, AnsweredCounted

LEMMA WakeupCounted ==
  ASSUME CountInv, NEW i \in Target, WakeupThread(i) \/ CancelWakeupThread(i)
  PROVE  Counted(Kernel)'
  <1> DEFINE k == Kernel
             W == [k.wait EXCEPT ![i] = "NotWaiting"]
             woken == [k EXCEPT !.wait = W]
             aside == [woken EXCEPT !.state[i] = "Suspend"]
  <1>1. k \in EEKernelType /\ Counted(k) /\ i \in Thread
    BY CountTells DEF Target
  <1>2. CASE wait[i] = "Sleeping" /\ WakeupThread(i)
    <2>1. woken = [k EXCEPT !.wait[i] = "NotWaiting"]  BY <1>1 DEF EEKernelType
    <2>2. Answered(MakeReady(woken, i)) \/ Answered(aside)
      BY <1>2, <2>1 DEF WakeupThread
    <2>3. W \in [Thread -> WaitReason]  BY <1>1 DEF EEKernelType, WaitReason
    <2>4. k.wait[i] = "Sleeping"  BY <1>2, KernelFields
    <2> HIDE DEF k
    <2>5. woken \in EEKernelType /\ woken.wait = W /\ woken.waiters = k.waiters
      BY <1>1, <2>3 DEF EEKernelType
    <2> HIDE DEF woken
    <2>6. Counted(woken)
      BY <1>1, <2>4, <2>5, ReasonCounted, CountTells
    <2>7. aside \in EEKernelType /\ Counted(aside)
      BY <1>1, <2>5, <2>6, StateUnmoved, UnmovedCounted DEF State
    <2>8. MakeReady(woken, i) \in EEKernelType /\ Counted(MakeReady(woken, i))
      BY <1>1, <2>5, <2>6, MakeReadyUnmoved, UnmovedCounted
    <2> HIDE DEF aside
    <2> QED BY <2>2, <2>7, <2>8, AnsweredCounted
  <1>3. CASE ~(wait[i] = "Sleeping" /\ WakeupThread(i))
    <2> DEFINE n == IF CancelWakeupThread(i) THEN 0 ELSE wakeups[i] + 1
    <2>1. \E c \in Nat : \/ Answered([k EXCEPT !.wakeups[i] = c])
                         \/ Becomes([k EXCEPT !.wakeups[i] = c])
      <3>1. CASE CancelWakeupThread(i)
        BY <3>1 DEF CancelWakeupThread
      <3>2. CASE WakeupThread(i)
        <4>1. wakeups[i] + 1 \in Nat
          BY <1>1, KernelFields DEF EEKernelType
        <4>2. Answered([k EXCEPT !.wakeups[i] = wakeups[i] + 1])
          BY <1>3, <3>2, KernelFields DEF WakeupThread
        <4> QED BY <4>1, <4>2
      <3> QED BY <3>1, <3>2
    <2>2. PICK c \in Nat : \/ Answered([k EXCEPT !.wakeups[i] = c])
                           \/ Becomes([k EXCEPT !.wakeups[i] = c])
      BY <2>1
    <2> DEFINE U == [k.wakeups EXCEPT ![i] = c]
               m == [k EXCEPT !.wakeups = U]
    <2>3. m = [k EXCEPT !.wakeups[i] = c]  BY <1>1 DEF EEKernelType
    <2>4. U \in [Thread -> Nat]  BY <1>1 DEF EEKernelType
    <2> HIDE DEF U, k
    <2>5. m \in EEKernelType /\ Unmoved(k, m)
      BY <1>1, <2>4 DEF EEKernelType, Unmoved
    <2>6. Counted(m)
      <3> HIDE DEF m
      <3> QED BY <1>1, <2>5, UnmovedCounted
    <2>7. Answered(m) \/ Becomes(m)  BY <2>2, <2>3
    <2> HIDE DEF m
    <2> QED BY <2>5, <2>6, <2>7, AnsweredCounted, BecomesCounted
  <1> QED BY <1>2, <1>3

LEMMA SuspendCounted ==
  ASSUME CountInv, NEW i \in Target, SuspendThread(i) \/ ResumeThread(i)
  PROVE  Counted(Kernel)'
  <1> DEFINE k == Kernel
             off == TakeOffReadyQueue(k, i)
  <1>1. k \in EEKernelType /\ Counted(k) /\ i \in Thread
    BY CountTells DEF Target
  <1>2. off \in EEKernelType /\ Counted(off)
    BY <1>1, TakeOffUnmoved, UnmovedCounted
  <1>3. \/ Becomes([k EXCEPT !.state[i] = "WaitSuspend"])
        \/ Becomes([off EXCEPT !.state[i] = "Suspend"])
        \/ Answered(MakeReady(k, i)) \/ Answered([k EXCEPT !.state[i] = "Wait"])
    <2>1. CASE SuspendThread(i)  BY <2>1 DEF SuspendThread
    <2>2. CASE ResumeThread(i)  BY <2>2 DEF ResumeThread
    <2> QED BY <2>1, <2>2
  <1> HIDE DEF k, off
  <1> DEFINE a == [k EXCEPT !.state[i] = "WaitSuspend"]
             b == [off EXCEPT !.state[i] = "Suspend"]
             c == [k EXCEPT !.state[i] = "Wait"]
  <1>4. a \in EEKernelType /\ Counted(a)
    BY <1>1, StateUnmoved, UnmovedCounted DEF State
  <1>5. b \in EEKernelType /\ Counted(b)
    BY <1>1, <1>2, StateUnmoved, UnmovedCounted DEF State
  <1>6. c \in EEKernelType /\ Counted(c)
    BY <1>1, StateUnmoved, UnmovedCounted DEF State
  <1>7. MakeReady(k, i) \in EEKernelType /\ Counted(MakeReady(k, i))
    BY <1>1, MakeReadyUnmoved, UnmovedCounted
  <1>8. Becomes(a) \/ Becomes(b) \/ Answered(MakeReady(k, i)) \/ Answered(c)
    BY <1>3
  <1> HIDE DEF a, b, c
  <1> QED BY <1>4, <1>5, <1>6, <1>7, <1>8, BecomesCounted, AnsweredCounted

LEMMA SleepCounted ==
  ASSUME CountInv, SleepThread
  PROVE  Counted(Kernel)'
  <1> DEFINE k == Kernel
             c == current
  <1>1. k \in EEKernelType /\ Whole(k) /\ Counted(k) /\ c \in Thread /\ k.current = c
    BY CountTells
  <1>2. InThread  BY DEF SleepThread, Returned
  <1>3. CASE wakeups[c] > 0
    BY <1>3, SameWaitsCounted DEF SleepThread, Returned, Becomes, Kernel
  <1>4. CASE ~(wakeups[c] > 0)
    <2> DEFINE m == Park(k, "Answer", FALSE)
               off == TakeOffReadyQueue(m, c)
               S == [off.state EXCEPT ![c] = "Wait"]
               W == [off.wait EXCEPT ![c] = "Sleeping"]
               n == [off EXCEPT !.state = S, !.wait = W]
    <2>1. m \in EEKernelType /\ Unmoved(k, m)  BY <1>1, ParkUnmoved DEF Result
    <2> HIDE DEF m
    <2>2. off \in EEKernelType /\ Unmoved(m, off)  BY <1>1, <2>1, TakeOffUnmoved
    <2> HIDE DEF off
    <2>3. n = [off EXCEPT !.state[c] = "Wait", !.wait[c] = "Sleeping"]
      BY <2>2 DEF EEKernelType
    <2>4. Becomes(ResumeNext(n))
      <3>1. Becomes(Block(k, "Sleeping"))  BY <1>4 DEF SleepThread, Returned
      <3> QED BY <1>1, <2>3, <3>1 DEF Block, off, m
    <2>5. S \in [Thread -> State] /\ W \in [Thread -> WaitReason]
      BY <2>2 DEF EEKernelType, State, WaitReason
    <2> HIDE DEF S
    <2>6. n \in EEKernelType /\ n.wait = W /\ n.waiters = off.waiters
      <3> HIDE DEF W
      <3> QED BY <2>2, <2>5 DEF EEKernelType
    <2>7. off.wait = k.wait /\ off.waiters = k.waiters
      BY <2>1, <2>2 DEF Unmoved
    <2>8. k.wait[c] \notin Object
      <3>1. state[c] \notin {"Wait", "WaitSuspend"}
        BY <1>1, <1>2, KernelFields DEF InThread, Whole, Booting
      <3> QED BY <1>1, <3>1, CountTells, KernelFields
    <2> HIDE DEF n, k, c
    <2>9. Counted(n)  BY <1>1, <2>6, <2>7, <2>8, ReasonCounted, CountTells
    <2> QED BY <2>4, <2>6, <2>9, SwitchedCounted
  <1> QED BY <1>3, <1>4

(* The semaphores' own calls.  One is created with no waiters, and nobody  *)
(* waits on a free one.                                                    *)
LEMMA CreateSemaCounted ==
  ASSUME CountInv, NEW s \in Object, NEW start \in 0 .. MaxCount, CreateSema(s, start)
  PROVE  Counted(Kernel)'
  <1>1. wait' = wait /\ waiters' = [waiters EXCEPT ![s] = 0] /\ count[s] < 0
    BY DEF CreateSema, Returned, Becomes, Kernel
  <1>2. \A t \in Thread : wait[t] # s
    <2> SUFFICES ASSUME NEW t \in Thread, wait[t] = s PROVE FALSE  OBVIOUS
    <2>1. count[s] = 0  BY CountTells, KernelFields DEF Fine
    <2> QED BY <1>1, <2>1
  <1>3. waiters \in [Object -> Nat]  BY CountTells, KernelFields DEF EEKernelType
  <1>4. Users(Kernel, s) = {}  BY <1>2, KernelFields DEF Users
  <1>5. Cardinality(Users(Kernel, s)) = 0  BY <1>4, FS_EmptySet
  <1>6. ASSUME NEW x \in Object  PROVE waiters'[x] = Cardinality(Users(Kernel, x))
    BY <1>1, <1>3, <1>5, CountTells, KernelFields DEF Counted
  <1>7. ASSUME NEW x \in Object
        PROVE  {t \in Thread : wait'[t] = x} = Users(Kernel, x)
    BY <1>1, KernelFields DEF Users
  <1>8. \A x \in Object : waiters'[x] = Cardinality({t \in Thread : wait'[t] = x})
    BY <1>6, <1>7
  <1> QED BY <1>8 DEF Counted, Users, Kernel

LEMMA CountsCounted ==
  ASSUME CountInv, NEW s \in Object, SemaDeleted(s) \/ PollSema(s)
  PROVE  Counted(Kernel)'
  <1> DEFINE k == Kernel
  <1>1. k \in EEKernelType /\ Counted(k)  BY CountTells
  <1> DEFINE To(c) == \/ Becomes([k EXCEPT !.count[s] = c])
                      \/ Becomes(Yield([k EXCEPT !.count[s] = c]))
  <1>2. \E c \in Int : To(c)
    <2>1. CASE SemaDeleted(s)
      <3>1. To(-1)  BY <2>1 DEF SemaDeleted
      <3> HIDE DEF To
      <3> QED BY <3>1
    <2>2. CASE PollSema(s)
      <3>1. count[s] - 1 \in Int  BY <1>1, KernelFields DEF EEKernelType
      <3>2. To(count[s] - 1)  BY <2>2, KernelFields DEF PollSema
      <3> HIDE DEF To
      <3> QED BY <3>1, <3>2
    <2> QED BY <2>1, <2>2
  <1> HIDE DEF To
  <1>2a. PICK c \in Int : To(c)  BY <1>2
  <1> DEFINE C == [k.count EXCEPT ![s] = c]
             m == [k EXCEPT !.count = C]
  <1>3. m = [k EXCEPT !.count[s] = c]  BY <1>1 DEF EEKernelType
  <1>4. C \in [Object -> Int]  BY <1>1 DEF EEKernelType
  <1> HIDE DEF C, k
  <1>5. m \in EEKernelType /\ Unmoved(k, m)
    BY <1>1, <1>4 DEF EEKernelType, Unmoved
  <1>6. Becomes(m) \/ Becomes(Yield(m))  BY <1>2a, <1>3 DEF To
  <1> HIDE DEF m
  <1>7. Counted(m) /\ Counted(Yield(m))
    BY <1>1, <1>5, YieldUnmoved, UnmovedCounted
  <1> QED BY <1>6, <1>7, BecomesCounted

LEMMA RefuseWaiterCounted ==
  ASSUME CountInv, NEW s \in Object, RefuseWaiter(s)
  PROVE  Counted(Kernel)'
  <1> DEFINE k == Kernel
             h == links.head[s]
             m == [k EXCEPT !.result[h] = "Refused"]
  <1>1. k \in EEKernelType /\ Counted(k)  BY CountTells
  <1>2. h \in Thread
    <2>1. links \in Links /\ s \in Queue
      BY <1>1, KernelFields, EEConstants DEF EEKernelType
    <2> QED BY <2>1 DEF RefuseWaiter, Links, Index
  <1>3. m \in EEKernelType /\ Unmoved(k, m)  BY <1>1, <1>2, ResultUnmoved DEF Result
  <1>4. Becomes(WakeWaiter(m, h))  BY DEF RefuseWaiter
  <1> HIDE DEF m, h, k
  <1>5. Counted(WakeWaiter(m, h))
    BY <1>1, <1>2, <1>3, WakeWaiterCounted, UnmovedCounted
  <1> QED BY <1>4, <1>5, BecomesCounted

LEMMA SignalSemaCounted ==
  ASSUME CountInv, NEW s \in Object, SignalSema(s)
  PROVE  Counted(Kernel)'
  <1> DEFINE k == Kernel
             h == links.head[s]
  <1>1. k \in EEKernelType /\ Counted(k)  BY CountTells
  <1>2. CASE h = None
    <2> DEFINE C == [k.count EXCEPT ![s] = k.count[s] + 1]
               m == [k EXCEPT !.count = C]
    <2>1. Answered(m)
      <3>1. m = [k EXCEPT !.count[s] = @ + 1]  BY <1>1 DEF EEKernelType
      <3> HIDE DEF m
      <3> QED BY <1>2, <3>1 DEF SignalSema
    <2>2. C \in [Object -> Int]  BY <1>1 DEF EEKernelType
    <2> HIDE DEF C, k
    <2>3. m \in EEKernelType /\ Unmoved(k, m)
      BY <1>1, <2>2 DEF EEKernelType, Unmoved
    <2> HIDE DEF m
    <2> QED BY <1>1, <2>1, <2>3, UnmovedCounted, AnsweredCounted
  <1>3. CASE h # None
    <2> DEFINE m == [k EXCEPT !.result[h] = "Answer"]
    <2>1. h \in Thread
      <3>1. links \in Links /\ s \in Queue
        BY <1>1, KernelFields, EEConstants DEF EEKernelType
      <3> QED BY <1>3, <3>1 DEF Links, Index
    <2>2. m \in EEKernelType /\ Unmoved(k, m)
      BY <1>1, <2>1, ResultUnmoved DEF Result
    <2>3. Answered(WakeWaiter(m, h))  BY <1>3 DEF SignalSema
    <2> HIDE DEF m, h, k
    <2>4. WakeWaiter(m, h) \in EEKernelType /\ Counted(WakeWaiter(m, h))
      BY <1>1, <2>1, <2>2, WakeWaiterCounted, UnmovedCounted
    <2> QED BY <2>3, <2>4, AnsweredCounted
  <1> QED BY <1>2, <1>3

LEMMA WaitSemaCounted ==
  ASSUME CountInv, NEW s \in Object, WaitSema(s)
  PROVE  Counted(Kernel)'
  <1> DEFINE k == Kernel
             c == current
  <1>1. k \in EEKernelType /\ Whole(k) /\ Counted(k) /\ c \in Thread /\ k.current = c
    BY CountTells
  <1>2. InThread  BY DEF WaitSema, Returned
  <1>3. CASE count[s] > 0
    BY <1>3, SameWaitsCounted DEF WaitSema, Returned, Becomes, Kernel
  <1>4. CASE ~(count[s] > 0)
    <2> DEFINE l == Enqueue(k.links, s, c)
               v == [k.waiters EXCEPT ![s] = k.waiters[s] + 1]
               j == [k EXCEPT !.links = l, !.waiters = v]
               m == Park(j, "Answer", FALSE)
               off == TakeOffReadyQueue(m, c)
               S == [off.state EXCEPT ![c] = "Wait"]
               W == [off.wait EXCEPT ![c] = s]
               n == [off EXCEPT !.state = S, !.wait = W]
    <2>1. l \in Links /\ v \in [Object -> Nat]
      <3>1. k.links \in Links /\ s \in Queue  BY <1>1, EEConstants DEF EEKernelType
      <3>2. l \in Links  BY <1>1, <3>1, EnqueueType
      <3>3. v \in [Object -> Nat]  BY <1>1 DEF EEKernelType
      <3> QED BY <3>2, <3>3
    <2>2. Becomes(Block(j, s))
      <3>1. j = [Kernel EXCEPT !.links = Enqueue(@, s, current), !.waiters[s] = @ + 1]
        BY <1>1 DEF EEKernelType
      <3> HIDE DEF j
      <3>2. Becomes(Block(j, s))  BY <1>4, <3>1 DEF WaitSema, Returned
      <3> QED BY <3>2
    <2> HIDE DEF l, v, k
    <2>3. j \in EEKernelType /\ j.wait = k.wait /\ j.waiters = v /\ j.current = c
      BY <1>1, <2>1 DEF EEKernelType
    <2> HIDE DEF j
    <2>4. m \in EEKernelType /\ Unmoved(j, m)  BY <2>3, ParkUnmoved DEF Result
    <2> HIDE DEF m
    <2>5. off \in EEKernelType /\ Unmoved(m, off)  BY <1>1, <2>4, TakeOffUnmoved
    <2> HIDE DEF off
    <2>6. n = [off EXCEPT !.state[c] = "Wait", !.wait[c] = s]
      BY <2>5 DEF EEKernelType
    <2>7. Becomes(ResumeNext(n))
      BY <2>2, <2>3, <2>6 DEF Block, off, m
    <2>8. S \in [Thread -> State] /\ W \in [Thread -> WaitReason]
      BY <2>5 DEF EEKernelType, State, WaitReason
    <2> HIDE DEF S
    <2>9. n \in EEKernelType /\ n.wait = W /\ n.waiters = off.waiters
      <3> HIDE DEF W
      <3> QED BY <2>5, <2>8 DEF EEKernelType
    <2>10. n.wait = [k.wait EXCEPT ![c] = s]
           /\ n.waiters = [k.waiters EXCEPT ![s] = k.waiters[s] + 1]
      BY <2>3, <2>4, <2>5, <2>9 DEF Unmoved, v
    <2>11. k.wait[c] \notin Object
      <3>1. state[c] \notin {"Wait", "WaitSuspend"}
        BY <1>1, <1>2, KernelFields DEF InThread, Whole, Booting, k
      <3> QED BY <1>1, <3>1, CountTells, KernelFields DEF k
    <2> HIDE DEF n, c, W
    <2>12. Counted(n)  BY <1>1, <2>10, <2>11, JoinCounted
    <2> QED BY <2>7, <2>9, <2>12, SwitchedCounted
  <1> QED BY <1>3, <1>4

LEMMA InitCounted ==
  ASSUME EEInit
  PROVE  Counted(Kernel)
  <1>1. \A t \in Thread : wait[t] = "NotWaiting"  BY DEF EEInit
  <1>2. \A s \in Object : waiters[s] = 0  BY DEF EEInit
  <1>3. ASSUME NEW s \in Object  PROVE Users(Kernel, s) = {}
    BY <1>1, EEConstants, KernelFields DEF Users
  <1> QED BY <1>2, <1>3, FS_EmptySet, KernelFields DEF Counted

LEMMA NextCounted ==
  ASSUME CountInv, [EENext]_eeVars
  PROVE  Counted(Kernel)'
  <1>1. CASE StartProgramThread \/ InterruptEntry \/ InterruptExit
             \/ TerminateOtherThreads \/ OthersTerminated
             \/ \E s \in Object : DeleteSema(s)
    BY <1>1, StartProgramCounted, InterruptsCounted
  <1>2. CASE SleepThread \/ ExitThread \/ ExitDeleteThread
    BY <1>2, SleepCounted, ExitCounted
  <1>3. CASE \E i \in Target :
                \/ \E p \in CallPriority : CreateThread(i, p)
                \/ DeleteThread(i) \/ StartThread(i) \/ TerminateOther(i)
                \/ TerminateThread(i)
                \/ \E p \in CallPriority : ChangeThreadPriority(i, p)
    <2>1. PICK i \in Target :
                \/ \E p \in CallPriority : CreateThread(i, p)
                \/ DeleteThread(i) \/ StartThread(i) \/ TerminateOther(i)
                \/ TerminateThread(i)
                \/ \E p \in CallPriority : ChangeThreadPriority(i, p)
      BY <1>3
    <2> QED BY <2>1, LivesCounted, ChangePriorityCounted
  <1>4. CASE \E i \in Target :
                \/ ReleaseWaitThread(i) \/ WakeupThread(i) \/ CancelWakeupThread(i)
                \/ SuspendThread(i) \/ ResumeThread(i)
    BY <1>4, ReleaseWaitCounted, WakeupCounted, SuspendCounted
  <1>5. CASE \E p \in CallPriority : RotateThreadReadyQueue(p)
    BY <1>5, RotateCounted
  <1>6. CASE \E s \in Object :
                \/ \E start \in 0 .. MaxCount : CreateSema(s, start)
                \/ RefuseWaiter(s) \/ SemaDeleted(s)
                \/ SignalSema(s) \/ WaitSema(s) \/ PollSema(s)
    <2>1. PICK s \in Object :
                \/ \E start \in 0 .. MaxCount : CreateSema(s, start)
                \/ RefuseWaiter(s) \/ SemaDeleted(s)
                \/ SignalSema(s) \/ WaitSema(s) \/ PollSema(s)
      BY <1>6
    <2> QED BY <2>1, CreateSemaCounted, RefuseWaiterCounted, CountsCounted,
               SignalSemaCounted, WaitSemaCounted
  <1>7. CASE UNCHANGED eeVars
    BY <1>7, SameWaitsCounted DEF eeVars
  <1> QED BY <1>1, <1>2, <1>3, <1>4, <1>5, <1>6, <1>7 DEF EENext

LEMMA InvQueuesHold ==
  ASSUME CountInv
  PROVE  QueuesHoldThreads
  <1> DEFINE k == Kernel
  <1>1. k \in EEKernelType /\ Whole(k) /\ Counted(k)  BY CountTells
  <1>2. Place = PlaceOf(k)  BY KernelFields DEF Place, PlaceOf
  <1>3. Held(k, PlaceOf(k))  BY <1>1 DEF Whole
  <1>4. k.links = links /\ k.waiters = waiters /\ k.wait = wait  BY KernelFields
  <1> HIDE DEF k
  <1>5. k.links \in Links /\ PlaceOf(k) \in Places /\ LinkedAs(k.links, PlaceOf(k))
        /\ Ranked(k.links)
    BY <1>1, <1>3 DEF Held, EEKernelType
  <1>6. links \in Links /\ Place \in Places /\ LinkedAs(links, Place) /\ Ranked(links)
    BY <1>2, <1>4, <1>5
  <1>7. \A s \in Object : waiters[s] = Cardinality({t \in Thread : wait[t] = s})
    BY <1>1, <1>4 DEF Counted, Users
  <1> QED BY <1>6, <1>7, ContentsHold DEF QueuesHoldThreads

(* Every ready queue and wait list of the EE kernel, walked from its head, *)
(* meets exactly the threads that run or are ready in it or wait on it,    *)
(* each once, and a semaphore's wait_count is the number of its waiters:   *)
(* a suspended waiter still counts, and every way out of a wait, a         *)
(* deletion's and a program load's included, takes the thread off both.    *)
THEOREM EEQueuesHoldThreads ==
  ASSUME Unsafe = {}
  PROVE  EESpec => []QueuesHoldThreads
  <1>1. EEInit => CountInv  BY InitInv, InitCounted DEF CountInv
  <1>2. CountInv /\ [EENext]_eeVars => CountInv'
    BY NextInv, NextCounted DEF CountInv
  <1>3. CountInv => QueuesHoldThreads  BY InvQueuesHold
  <1> QED BY <1>1, <1>2, <1>3, PTL DEF EESpec
=============================================================================
