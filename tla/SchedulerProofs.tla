--------------------------- MODULE SchedulerProofs ---------------------------
(***************************************************************************)
(* Theorems about THREADMAN's scheduler: its types, and that its queues    *)
(* are chains that agree with the threads' states, one thread runs, the    *)
(* best, and no wake-up or alarm is lost.                                  *)
(*                                                                         *)
(* The argument.  Every helper of the code takes a thread off a queue or   *)
(* puts one on, so it is described by what it does to the function w that  *)
(* says in which queue each thread is (Queues(k, w)); the states of the    *)
(* threads are compared with w only at the ends of a call (Sound).         *)
(***************************************************************************)
EXTENDS Scheduler, ThreadQueueProofs

-----------------------------------------------------------------------------
(* The records that the helpers take and return.  Between two helpers      *)
(* pending may be None.                                                    *)
KernelType ==
    [links : Links, readyBits : SUBSET Priority,
     state : [Thread -> State], wait : [Thread -> WaitReason],
     priority : [Thread -> Priority], initial : [Thread -> Priority],
     wakeups : [Thread -> 0 .. MaxWakeups], answer : [Thread -> Answer],
     inUse : SUBSET Object, waiters : [Object -> Int],
     delayed : SUBSET Thread, closing : SUBSET Object,
     current : Thread, pending : Index]

(* What holds of one at the start and at the end of a call.                *)
Settled(k) ==
    /\ k \in KernelType
    /\ k.pending \in Thread
    /\ k.closing \subseteq k.inUse

(* What an operator that only moves threads leaves alone.                  *)
SameObjects(k, r) == r.inUse = k.inUse /\ r.closing = k.closing

LEMMA QueueKinds == Priority \subseteq Queue /\ Object \subseteq Queue
  BY DEF Queue

LEMMA ReadiedType ==
  ASSUME NEW k \in KernelType, NEW i \in Thread, NEW l \in Links
  PROVE  /\ Readied(k, i, l) \in KernelType
         /\ SameObjects(k, Readied(k, i, l))
         /\ Readied(k, i, l).pending = k.pending
  <1> DEFINE r == Readied(k, i, l)
  <1>1. [k.state EXCEPT ![i] = "Ready"] \in [Thread -> State]
    BY DEF KernelType, State
  <1>2. [k.wait EXCEPT ![i] = "NotWaiting"] \in [Thread -> WaitReason]
    BY DEF KernelType, WaitReason
  <1>3. k.readyBits \cup {k.priority[i]} \subseteq Priority
    BY DEF KernelType
  <1>4. r \in KernelType
    BY <1>1, <1>2, <1>3 DEF Readied, KernelType
  <1> QED BY <1>4 DEF Readied, KernelType, SameObjects

LEMMA MakeReadyType ==
  ASSUME NEW k \in KernelType, NEW i \in Thread
  PROVE  /\ MakeReady(k, i) \in KernelType
         /\ SameObjects(k, MakeReady(k, i))
         /\ MakeReady(k, i).pending = k.pending
  <1>1. k.priority[i] \in Queue /\ k.links \in Links  BY QueueKinds DEF KernelType
  <1> QED BY <1>1, EnqueueType, ReadiedType DEF MakeReady

LEMMA MakeReadyFirstType ==
  ASSUME NEW k \in KernelType, NEW i \in Thread
  PROVE  /\ MakeReadyFirst(k, i) \in KernelType
         /\ SameObjects(k, MakeReadyFirst(k, i))
         /\ MakeReadyFirst(k, i).pending = k.pending
  <1>1. k.priority[i] \in Queue /\ k.links \in Links  BY QueueKinds DEF KernelType
  <1> QED BY <1>1, EnqueueFirstType, ReadiedType DEF MakeReadyFirst

LEMMA DequeuedType ==
  ASSUME NEW k \in KernelType, NEW p \in Priority, NEW l \in Links
  PROVE  /\ Dequeued(k, p, l) \in KernelType
         /\ SameObjects(k, Dequeued(k, p, l))
         /\ Dequeued(k, p, l).pending = k.pending
  BY DEF Dequeued, KernelType, SameObjects

LEMMA TakeOffReadyType ==
  ASSUME NEW k \in KernelType, NEW i \in Thread
  PROVE  /\ TakeOffReady(k, i) \in KernelType
         /\ SameObjects(k, TakeOffReady(k, i))
         /\ TakeOffReady(k, i).pending = k.pending
  <1>1. k.priority[i] \in Priority /\ k.links \in Links  BY DEF KernelType
  <1> QED BY <1>1, QueueKinds, UnlinkType, DequeuedType DEF TakeOffReady

(* A set of priorities that is not empty has a best one.                   *)
LEMMA MinIsBest ==
  ASSUME NEW S \in SUBSET Priority, S # {}
  PROVE  Min(S) \in S /\ \A p \in S : Min(S) <= p
  <1>1. S \in SUBSET Nat  BY QueueAssumption DEF Priority
  <1>2. \E x \in S : \A y \in S : x <= y  BY <1>1, LeastOf
  <1> QED BY <1>2 DEF Min

LEMMA PickPendingType ==
  ASSUME NEW k \in KernelType
  PROVE  /\ Best(k) \in Index
         /\ Picked(k) \in KernelType /\ SameObjects(k, Picked(k))
         /\ PickPending(k) \in KernelType /\ SameObjects(k, PickPending(k))
  <1>1. Best(k) \in Index
    BY MinIsBest, QueueKinds DEF Best, KernelType, Links, Index
  <1>2. Picked(k) \in KernelType /\ SameObjects(k, Picked(k))
    <2>1. CASE k.readyBits = {}
      BY <2>1 DEF Picked, SameObjects
    <2>2. CASE k.readyBits # {}
      <3>1. Min(k.readyBits) \in Priority /\ k.links \in Links
        BY <2>2, MinIsBest DEF KernelType
      <3>2. PopFront(k.links, Min(k.readyBits)) \in Links
        BY <3>1, QueueKinds, PopFrontType
      <3> QED BY <2>2, <3>1, <3>2, DequeuedType DEF Picked
    <2> QED BY <2>1, <2>2
  <1> QED BY <1>1, <1>2 DEF PickPending, KernelType, SameObjects

LEMMA PickedKeepsPending ==
  ASSUME NEW k \in KernelType
  PROVE  Picked(k).pending = k.pending
  BY DEF Picked, Dequeued, KernelType

LEMMA LeaveWaitType ==
  ASSUME NEW k \in KernelType, NEW i \in Thread
  PROVE  /\ LeaveWait(k, i) \in KernelType
         /\ SameObjects(k, LeaveWait(k, i))
         /\ LeaveWait(k, i).pending = k.pending
  <1> DEFINE o == k.wait[i]
             left == [k EXCEPT !.wait[i] = "NotWaiting",
                               !.delayed = IF o = "Delay" THEN @ \ {i} ELSE @]
  <1>1. left \in KernelType /\ SameObjects(k, left) /\ left.pending = k.pending
    <2>1. [k.wait EXCEPT ![i] = "NotWaiting"] \in [Thread -> WaitReason]
      BY DEF KernelType, WaitReason
    <2> QED BY <2>1 DEF KernelType, SameObjects
  <1>2. CASE o \notin k.inUse
    BY <1>1, <1>2 DEF LeaveWait
  <1>3. CASE o \in k.inUse
    <2> DEFINE r == [left EXCEPT !.links = Unlink(@, o, i), !.waiters[o] = @ - 1]
    <2>1. o \in Queue /\ o \in Object  BY <1>3, QueueKinds DEF KernelType
    <2>2. Unlink(left.links, o, i) \in Links
      <3>1. left.links \in Links  BY <1>1 DEF KernelType
      <3> QED BY <2>1, <3>1, UnlinkType
    <2>3. [left.waiters EXCEPT ![o] = left.waiters[o] - 1] \in [Object -> Int]
      BY <1>1, <2>1 DEF KernelType
    <2> HIDE DEF left
    <2>4. r \in KernelType /\ SameObjects(left, r) /\ r.pending = left.pending
      BY <1>1, <2>2, <2>3 DEF KernelType, SameObjects
    <2>5. LeaveWait(k, i) = r
      BY <1>3 DEF LeaveWait, left
    <2> QED BY <1>1, <2>4, <2>5 DEF SameObjects
  <1> QED BY <1>2, <1>3

LEMMA NewContextType ==
  ASSUME NEW k \in KernelType
  PROVE  /\ NewContext(k) \in KernelType
         /\ SameObjects(k, NewContext(k))
         /\ NewContext(k).pending \in Thread
  <1> DEFINE chosen == IF k.pending \in {None, k.current} THEN PickPending(k) ELSE k
             next == IF chosen.pending = None THEN chosen.current ELSE chosen.pending
  <1>1. chosen \in KernelType /\ SameObjects(k, chosen)
    BY PickPendingType DEF SameObjects
  <1> HIDE DEF chosen
  <1>2. next \in Thread  BY <1>1 DEF KernelType, Index
  <1>3. [chosen.state EXCEPT ![next] = "Run"] \in [Thread -> State]
    BY <1>1, <1>2 DEF KernelType, State
  <1> HIDE DEF next
  <1> DEFINE r == [chosen EXCEPT !.pending = next, !.current = next,
                                 !.state[next] = "Run"]
  <1>4. r \in KernelType /\ SameObjects(chosen, r) /\ r.pending \in Thread
    BY <1>1, <1>2, <1>3 DEF KernelType, SameObjects, Index
  <1>5. NewContext(k) = r  BY DEF NewContext, chosen, next
  <1> QED BY <1>1, <1>4, <1>5 DEF SameObjects

LEMMA RescheduleType ==
  ASSUME NEW k \in KernelType
  PROVE  /\ Reschedule(k) \in KernelType
         /\ SameObjects(k, Reschedule(k))
         /\ Reschedule(k).pending \in Thread
  <1>1. CASE k.pending # k.current  BY <1>1, NewContextType DEF Reschedule
  <1>2. CASE k.pending = k.current  BY <1>2 DEF Reschedule, KernelType, SameObjects
  <1> QED BY <1>1, <1>2

LEMMA SwitchNowType ==
  ASSUME NEW k \in KernelType
  PROVE  /\ SwitchNow(k) \in KernelType
         /\ SameObjects(k, SwitchNow(k))
         /\ SwitchNow(k).pending \in Thread
  <1> DEFINE r == [k EXCEPT !.answer[k.current] = "Ok"]
  <1>1. r \in KernelType /\ SameObjects(k, r)
    <2>1. [k.answer EXCEPT ![k.current] = "Ok"] \in [Thread -> Answer]
      BY DEF KernelType, Answer
    <2> QED BY <2>1 DEF KernelType, SameObjects
  <1> HIDE DEF r
  <1>2. SwitchNow(k) = Reschedule(r)  BY DEF SwitchNow, r
  <1> QED BY <1>1, <1>2, RescheduleType DEF SameObjects

(* The typed updates of one field that the calls make.                     *)
LEMMA FieldTypes ==
  ASSUME NEW k \in KernelType, NEW i \in Thread
  PROVE  /\ \A s \in State : [k EXCEPT !.state[i] = s] \in KernelType
         /\ \A w \in WaitReason : [k EXCEPT !.wait[i] = w] \in KernelType
         /\ \A p \in Priority : [k EXCEPT !.priority[i] = p] \in KernelType
         /\ \A p \in Priority : [k EXCEPT !.initial[i] = p] \in KernelType
         /\ \A n \in 0 .. MaxWakeups : [k EXCEPT !.wakeups[i] = n] \in KernelType
         /\ \A a \in Answer : [k EXCEPT !.answer[i] = a] \in KernelType
         /\ \A j \in Index : [k EXCEPT !.pending = j] \in KernelType
         /\ \A l \in Links : [k EXCEPT !.links = l] \in KernelType
         /\ \A d \in SUBSET Thread : [k EXCEPT !.delayed = d] \in KernelType
         /\ \A b \in SUBSET Priority : [k EXCEPT !.readyBits = b] \in KernelType
  BY DEF KernelType

LEMMA BlockCurrentType ==
  ASSUME NEW k \in KernelType, NEW reason \in WaitReason
  PROVE  /\ BlockCurrent(k, reason) \in KernelType
         /\ SameObjects(k, BlockCurrent(k, reason))
         /\ BlockCurrent(k, reason).pending \in Thread
  <1> DEFINE s == [k EXCEPT !.state[k.current] = "Wait"]
             r == [k EXCEPT !.state[k.current] = "Wait",
                            !.wait[k.current] = reason]
  <1>1. k.current \in Thread /\ "Wait" \in State  BY DEF KernelType, State
  <1>2. s \in KernelType /\ SameObjects(k, s)
    BY <1>1, FieldTypes DEF SameObjects
  <1>3. r \in KernelType /\ SameObjects(k, r)
    <2>1. r = [s EXCEPT !.wait[k.current] = reason]  OBVIOUS
    <2> HIDE DEF s, r
    <2>2. SameObjects(s, r)  BY <2>1, <1>2 DEF SameObjects, KernelType
    <2> QED BY <1>1, <1>2, <2>1, <2>2, FieldTypes DEF SameObjects
  <1> HIDE DEF r
  <1>4. BlockCurrent(k, reason) = SwitchNow(PickPending(r))  BY DEF BlockCurrent, r
  <1> QED BY <1>3, <1>4, PickPendingType, SwitchNowType DEF SameObjects

LEMMA HandOffIfBetterType ==
  ASSUME NEW k \in KernelType, NEW i \in Thread, k.pending \in Thread
  PROVE  /\ HandOffIfBetter(k, i) \in KernelType
         /\ SameObjects(k, HandOffIfBetter(k, i))
         /\ HandOffIfBetter(k, i).pending \in Thread
  <1> DEFINE c == k.current
             l == Enqueue(k.links, k.priority[c], c)
             yielded == [k EXCEPT !.state[c] = "Ready", !.links = l,
                                  !.readyBits = @ \cup {k.priority[c]}]
             taken == TakeOffReady(yielded, i)
             r == [taken EXCEPT !.pending = i]
  <1>1. CASE k.priority[i] >= k.priority[k.current]
    BY <1>1 DEF HandOffIfBetter, SameObjects
  <1>2. CASE ~(k.priority[i] >= k.priority[k.current])
    <2>1. l \in Links
      BY EnqueueType, QueueKinds DEF KernelType
    <2>2. [k.state EXCEPT ![c] = "Ready"] \in [Thread -> State]
      BY DEF KernelType, State
    <2>3. k.readyBits \cup {k.priority[c]} \subseteq Priority
      BY DEF KernelType
    <2> HIDE DEF l
    <2>4. yielded \in KernelType /\ SameObjects(k, yielded)
      BY <2>1, <2>2, <2>3 DEF KernelType, SameObjects
    <2> HIDE DEF yielded
    <2>5. taken \in KernelType /\ SameObjects(yielded, taken)
      BY <2>4, TakeOffReadyType
    <2> HIDE DEF taken
    <2>6. r \in KernelType /\ SameObjects(taken, r)
      BY <2>5 DEF KernelType, SameObjects, Index
    <2>7. HandOffIfBetter(k, i) = SwitchNow(r)
      BY <1>2 DEF HandOffIfBetter, taken, yielded, l
    <2> QED BY <2>4, <2>5, <2>6, <2>7, SwitchNowType DEF SameObjects
  <1> QED BY <1>1, <1>2

LEMMA StageIfBetterType ==
  ASSUME NEW k \in KernelType, NEW i \in Thread, k.pending \in Thread
  PROVE  /\ StageIfBetter(k, i) \in KernelType
         /\ SameObjects(k, StageIfBetter(k, i))
         /\ StageIfBetter(k, i).pending \in Thread
  <1> DEFINE nothing == k.pending \in {None, k.current}
             displaced == IF nothing THEN MakeReadyFirst(k, k.current)
                                     ELSE MakeReady(k, k.pending)
             taken == TakeOffReady(displaced, i)
             r == [taken EXCEPT !.pending = i]
  <1>1. displaced \in KernelType /\ SameObjects(k, displaced)
    BY MakeReadyType, MakeReadyFirstType DEF KernelType
  <1> HIDE DEF displaced
  <1>2. taken \in KernelType /\ SameObjects(displaced, taken)
    BY <1>1, TakeOffReadyType
  <1> HIDE DEF taken
  <1>3. r \in KernelType /\ SameObjects(taken, r) /\ r.pending \in Thread
    BY <1>2 DEF KernelType, SameObjects, Index
  <1>4. StageIfBetter(k, i) \in {k, r}
    BY DEF StageIfBetter, taken, displaced
  <1> QED BY <1>1, <1>2, <1>3, <1>4 DEF SameObjects

LEMMA WakeType ==
  ASSUME NEW k \in KernelType, NEW i \in Thread, k.pending \in Thread,
         NEW a \in Answer, NEW interrupt \in BOOLEAN
  PROVE  /\ Wake(k, i, a, interrupt) \in KernelType
         /\ SameObjects(k, Wake(k, i, a, interrupt))
         /\ Wake(k, i, a, interrupt).pending \in Thread
  <1> DEFINE left == LeaveWait(k, i)
             r == [left EXCEPT !.answer[i] = a]
             woken == MakeReady(r, i)
  <1>1. left \in KernelType /\ SameObjects(k, left) /\ left.pending = k.pending
    BY LeaveWaitType
  <1> HIDE DEF left
  <1>2. r \in KernelType /\ SameObjects(left, r) /\ r.pending = left.pending
    <2>1. [left.answer EXCEPT ![i] = a] \in [Thread -> Answer]
      BY <1>1 DEF KernelType
    <2> QED BY <1>1, <2>1 DEF KernelType, SameObjects
  <1> HIDE DEF r
  <1>3. /\ woken \in KernelType /\ SameObjects(r, woken)
        /\ woken.pending \in Thread
    BY <1>1, <1>2, MakeReadyType
  <1> HIDE DEF woken
  <1>4. SameObjects(k, woken)  BY <1>1, <1>2, <1>3 DEF SameObjects
  <1>5. Wake(k, i, a, interrupt)
          = IF interrupt THEN StageIfBetter(woken, i) ELSE HandOffIfBetter(woken, i)
    BY DEF Wake, woken, r, left
  <1> QED BY <1>3, <1>4, <1>5, StageIfBetterType, HandOffIfBetterType DEF SameObjects

-----------------------------------------------------------------------------
LEMMA KernelSettled == TypeOK => Settled(Kernel)
  BY DEF TypeOK, Settled, Kernel, KernelType, Index

LEMMA BecomesTyped ==
  ASSUME NEW k, Settled(k), Becomes(k), mode' \in {"thread", "intr"}
  PROVE  TypeOK'
  BY DEF Settled, Becomes, KernelType, TypeOK

(* A call that goes through the helpers ends settled.                      *)
LEMMA StaysSettled ==
  ASSUME NEW k, NEW r, Settled(k), r \in KernelType, SameObjects(k, r),
         r.pending \in Thread
  PROVE  Settled(r)
  BY DEF Settled, SameObjects

(* One field of one thread's record is set.                                *)
LEMMA SetField ==
  ASSUME NEW k, Settled(k), NEW i \in Thread
  PROVE  /\ \A s \in State : Settled([k EXCEPT !.state[i] = s])
         /\ \A w \in WaitReason : Settled([k EXCEPT !.wait[i] = w])
         /\ \A p \in Priority : Settled([k EXCEPT !.priority[i] = p])
         /\ \A p \in Priority : Settled([k EXCEPT !.initial[i] = p])
         /\ \A n \in 0 .. MaxWakeups : Settled([k EXCEPT !.wakeups[i] = n])
         /\ \A a \in Answer : Settled([k EXCEPT !.answer[i] = a])
         /\ Settled([k EXCEPT !.pending = i])
         /\ \A l \in Links : Settled([k EXCEPT !.links = l])
         /\ \A d \in SUBSET Thread : Settled([k EXCEPT !.delayed = d])
  <1>1. k \in KernelType /\ i \in Index  BY DEF Settled, Index
  <1>2. \A s \in State : Settled([k EXCEPT !.state[i] = s])
    BY <1>1, FieldTypes DEF Settled, KernelType
  <1>3. \A w \in WaitReason : Settled([k EXCEPT !.wait[i] = w])
    BY <1>1, FieldTypes DEF Settled, KernelType
  <1>4. \A p \in Priority : Settled([k EXCEPT !.priority[i] = p])
    BY <1>1, FieldTypes DEF Settled, KernelType
  <1>5. \A p \in Priority : Settled([k EXCEPT !.initial[i] = p])
    BY <1>1, FieldTypes DEF Settled, KernelType
  <1>6. \A n \in 0 .. MaxWakeups : Settled([k EXCEPT !.wakeups[i] = n])
    BY <1>1, FieldTypes DEF Settled, KernelType
  <1>7. \A a \in Answer : Settled([k EXCEPT !.answer[i] = a])
    BY <1>1, FieldTypes DEF Settled, KernelType
  <1>8. Settled([k EXCEPT !.pending = i])
    BY <1>1, FieldTypes DEF Settled, KernelType
  <1>9. \A l \in Links : Settled([k EXCEPT !.links = l])
    BY <1>1, FieldTypes DEF Settled, KernelType
  <1>10. \A d \in SUBSET Thread : Settled([k EXCEPT !.delayed = d])
    BY <1>1, FieldTypes DEF Settled, KernelType
  <1> QED BY <1>2, <1>3, <1>4, <1>5, <1>6, <1>7, <1>8, <1>9, <1>10

LEMMA MakeReadySettled ==
  ASSUME NEW k, Settled(k), NEW i \in Thread
  PROVE  Settled(MakeReady(k, i))
  <1>1. k \in KernelType /\ k.pending \in Thread  BY DEF Settled
  <1> QED BY <1>1, MakeReadyType, StaysSettled

LEMMA TakeOffReadySettled ==
  ASSUME NEW k, Settled(k), NEW i \in Thread
  PROVE  Settled(TakeOffReady(k, i))
  <1>1. k \in KernelType /\ k.pending \in Thread  BY DEF Settled
  <1> QED BY <1>1, TakeOffReadyType, StaysSettled

LEMMA LeaveWaitSettled ==
  ASSUME NEW k, Settled(k), NEW i \in Thread
  PROVE  Settled(LeaveWait(k, i))
  <1>1. k \in KernelType /\ k.pending \in Thread  BY DEF Settled
  <1> QED BY <1>1, LeaveWaitType, StaysSettled

LEMMA PickAndSwitchSettled ==
  ASSUME NEW k, Settled(k)
  PROVE  Settled(SwitchNow(PickPending(k)))
  <1>1. k \in KernelType  BY DEF Settled
  <1>2. PickPending(k) \in KernelType /\ SameObjects(k, PickPending(k))
    BY <1>1, PickPendingType
  <1> DEFINE r == SwitchNow(PickPending(k))
  <1>3. r \in KernelType /\ SameObjects(PickPending(k), r) /\ r.pending \in Thread
    BY <1>2, SwitchNowType
  <1>4. SameObjects(k, r)  BY <1>2, <1>3 DEF SameObjects
  <1> QED BY <1>3, <1>4, StaysSettled

LEMMA HandOffSettled ==
  ASSUME NEW k, Settled(k), NEW i \in Thread
  PROVE  Settled(HandOffIfBetter(k, i))
  <1>1. k \in KernelType /\ k.pending \in Thread  BY DEF Settled
  <1> QED BY <1>1, HandOffIfBetterType, StaysSettled

LEMMA WakeSettled ==
  ASSUME NEW k, Settled(k), NEW i \in Thread, NEW a \in Answer,
         NEW interrupt \in BOOLEAN
  PROVE  Settled(Wake(k, i, a, interrupt))
  <1>1. k \in KernelType /\ k.pending \in Thread  BY DEF Settled
  <1> QED BY <1>1, WakeType, StaysSettled

LEMMA BlockSettled ==
  ASSUME NEW k, Settled(k), NEW reason \in WaitReason
  PROVE  Settled(BlockCurrent(k, reason))
  <1>1. k \in KernelType  BY DEF Settled
  <1> QED BY <1>1, BlockCurrentType, StaysSettled

-----------------------------------------------------------------------------
(* The scheduler starts in a typed state.                                  *)
LEMMA SchedInitTyped == SchedInit => TypeOK
  <1> DEFINE blank == [links |-> NoLinks, readyBits |-> {},
                  state |-> [t \in Thread |-> IF t = Boot THEN "Run" ELSE "Free"],
                  wait |-> [t \in Thread |-> "NotWaiting"],
                  priority |-> [t \in Thread |-> IF t = Boot THEN BootPriority
                                                 ELSE IdlePriority],
                  initial |-> [t \in Thread |-> IF t = Boot THEN BootInitial
                                                ELSE IdlePriority],
                  wakeups |-> [t \in Thread |-> 0],
                  answer |-> [t \in Thread |-> "Ok"],
                  inUse |-> {}, waiters |-> [o \in Object |-> 0],
                  delayed |-> {}, closing |-> {}, current |-> Boot, pending |-> Boot]
             k == MakeReady(blank, Idle)
  <1>1. Boot \in Thread /\ Idle \in Thread /\ IdlePriority \in Priority
    BY QueueAssumption DEF Boot, Idle, Thread, Priority
  <1>2. NoLinks \in Links  BY DEF NoLinks, Links, Index
  <1>3. /\ BootPriority \in Priority /\ BootInitial \in Priority
        /\ 0 \in 0 .. MaxWakeups
    BY SchedulerAssumption
  <1>4. blank \in KernelType
    BY <1>1, <1>2, <1>3 DEF KernelType, State, WaitReason, Answer, Index
  <1>5. Settled(blank)  BY <1>1, <1>4 DEF Settled
  <1> HIDE DEF blank
  <1>6. Settled(k)  BY <1>1, <1>5, MakeReadySettled
  <1> HIDE DEF k
  <1>7. SchedInit =>
          /\ links = k.links        /\ readyBits = k.readyBits
          /\ state = k.state        /\ wait = k.wait      /\ priority = k.priority
          /\ initial = k.initial    /\ wakeups = k.wakeups /\ answer = k.answer
          /\ inUse = k.inUse        /\ waiters = k.waiters
          /\ delayed = k.delayed    /\ closing = k.closing
          /\ current = k.current    /\ pending = k.pending
          /\ mode = "thread"
    BY DEF SchedInit, k, blank
  <1> QED BY <1>6, <1>7 DEF Settled, KernelType, TypeOK

-----------------------------------------------------------------------------
(* The field of the record that each variable is.                          *)
LEMMA KernelFields ==
  /\ Kernel.links = links /\ Kernel.state = state /\ Kernel.wait = wait
  /\ Kernel.priority = priority /\ Kernel.initial = initial
  /\ Kernel.wakeups = wakeups /\ Kernel.delayed = delayed
  /\ Kernel.inUse = inUse /\ Kernel.closing = closing
  /\ Kernel.current = current /\ Kernel.pending = pending
  BY DEF Kernel

LEMMA StateNames ==
  /\ "Free" \in State /\ "Dormant" \in State /\ "Ready" \in State
  /\ "NotWaiting" \in WaitReason /\ "Sleep" \in WaitReason
  /\ "Delay" \in WaitReason
  /\ "Ok" \in Answer /\ "ReleaseWait" \in Answer /\ "WaitDelete" \in Answer
  BY DEF State, WaitReason, Answer

LEMMA HeadToTailSettled ==
  ASSUME NEW k, Settled(k), NEW p \in Priority
  PROVE  Settled(HeadToTail(k, p))
  <1>1. k.links \in Links /\ p \in Queue  BY QueueKinds DEF Settled, KernelType
  <1>2. CASE k.links.head[p] = None  BY <1>2 DEF HeadToTail
  <1>3. CASE k.links.head[p] # None
    <2>1. k.links.head[p] \in Thread  BY <1>1, <1>3 DEF Links, Index
    <2>2. PopFront(k.links, p) \in Links  BY <1>1, PopFrontType
    <2>3. Enqueue(PopFront(k.links, p), p, k.links.head[p]) \in Links
      BY <1>1, <2>1, <2>2, EnqueueType
    <2> DEFINE l == Enqueue(PopFront(k.links, p), p, k.links.head[p])
    <2>4. HeadToTail(k, p) = [k EXCEPT !.links = l]
      BY <1>3 DEF HeadToTail
    <2> HIDE DEF l
    <2>5. l \in Links  BY <2>3 DEF l
    <2>6. Settled([k EXCEPT !.links = l])  BY <2>1, <2>5, SetField
    <2> QED BY <2>4, <2>6, Zenon
  <1> QED BY <1>2, <1>3

(* Every call, every expiry and both ends of an interrupt keep the types.  *)
LEMMA CreateThreadTyped ==
  ASSUME TypeOK, NEW p \in Priority, CreateThread(p)
  PROVE  TypeOK'
  <1>1. PICK i \in Thread :
          Becomes([Kernel EXCEPT
             !.state[i] = "Dormant", !.wait[i] = "NotWaiting",
             !.initial[i] = p, !.priority[i] = p, !.wakeups[i] = 0,
             !.links.next[i] = None, !.links.prev[i] = None])
    BY DEF CreateThread
  <1>2. /\ state' = [state EXCEPT ![i] = "Dormant"]
        /\ wait' = [wait EXCEPT ![i] = "NotWaiting"]
        /\ initial' = [initial EXCEPT ![i] = p]
        /\ priority' = [priority EXCEPT ![i] = p]
        /\ wakeups' = [wakeups EXCEPT ![i] = 0]
    <2>1. /\ state' = [state EXCEPT ![i] = "Dormant"]
          /\ wait' = [wait EXCEPT ![i] = "NotWaiting"]
      BY <1>1, Zenon DEF Becomes, Kernel
    <2>2. /\ initial' = [initial EXCEPT ![i] = p]
          /\ priority' = [priority EXCEPT ![i] = p]
      BY <1>1, Zenon DEF Becomes, Kernel
    <2>3. wakeups' = [wakeups EXCEPT ![i] = 0]
      BY <1>1, Zenon DEF Becomes, Kernel
    <2> QED BY <2>1, <2>2, <2>3
  <1>3. links' = [links EXCEPT !.next[i] = None, !.prev[i] = None]
    BY <1>1 DEF Becomes, Kernel
  <1>4. /\ readyBits' = readyBits /\ answer' = answer /\ inUse' = inUse
        /\ waiters' = waiters /\ delayed' = delayed /\ closing' = closing
        /\ current' = current /\ pending' = pending /\ mode' = mode
    <2>1. mode' = mode  BY DEF CreateThread
    <2>2. readyBits' = readyBits /\ answer' = answer /\ inUse' = inUse
      BY <1>1, Zenon DEF Becomes, Kernel
    <2>3. waiters' = waiters /\ delayed' = delayed /\ closing' = closing
      BY <1>1, Zenon DEF Becomes, Kernel
    <2>4. current' = current /\ pending' = pending
      BY <1>1, Zenon DEF Becomes, Kernel
    <2> QED BY <2>1, <2>2, <2>3, <2>4
  <1>5. links' \in Links  BY <1>3 DEF TypeOK, Links, Index
  <1>6. wakeups' \in [Thread -> 0 .. MaxWakeups]
    BY <1>2, SchedulerAssumption DEF TypeOK
  <1>7. state' \in [Thread -> State] /\ wait' \in [Thread -> WaitReason]
    BY <1>2, StateNames DEF TypeOK
  <1> QED BY <1>2, <1>4, <1>5, <1>6, <1>7 DEF TypeOK

LEMMA StartThreadTyped ==
  ASSUME TypeOK, NEW i \in Thread, StartThread(i)
  PROVE  TypeOK'
  <1> DEFINE changed == [Kernel EXCEPT !.priority[i] = initial[i]]
             primed == [changed EXCEPT !.answer[i] = "Ok"]
  <1>1. Settled(changed)
    BY KernelSettled, SetField DEF TypeOK
  <1>2. Settled(primed)
    <2> HIDE DEF changed
    <2> QED BY <1>1, StateNames, SetField
  <1>3. Becomes(HandOffIfBetter(MakeReady(primed, i), i))
    BY DEF StartThread
  <1> HIDE DEF primed
  <1>4. Settled(HandOffIfBetter(MakeReady(primed, i), i))
    BY <1>2, MakeReadySettled, HandOffSettled
  <1>5. mode' \in {"thread", "intr"}  BY DEF StartThread, TypeOK
  <1> QED BY <1>3, <1>4, <1>5, BecomesTyped

LEMMA ExitThreadTyped ==
  ASSUME TypeOK, ExitThread
  PROVE  TypeOK'
  <1> DEFINE s == [Kernel EXCEPT !.state[current] = "Dormant"]
             r == [s EXCEPT !.wait[current] = "NotWaiting"]
  <1>1. current \in Thread  BY DEF TypeOK
  <1>2. Settled(s)  BY <1>1, KernelSettled, SetField, StateNames
  <1>3. Settled(r)
    <2> HIDE DEF s
    <2> QED BY <1>1, <1>2, SetField, StateNames
  <1>4. Becomes(SwitchNow(PickPending(r)))  BY DEF ExitThread
  <1> HIDE DEF r
  <1>5. mode' \in {"thread", "intr"}  BY DEF ExitThread, TypeOK
  <1> QED BY <1>3, <1>4, <1>5, PickAndSwitchSettled, BecomesTyped

LEMMA TerminateThreadTyped ==
  ASSUME TypeOK, NEW i \in Thread, TerminateThread(i)
  PROVE  TypeOK'
  <1> DEFINE out == IF state[i] = "Ready" THEN TakeOffReady(Kernel, i)
                    ELSE IF state[i] = "Wait" THEN LeaveWait(Kernel, i)
                    ELSE Kernel
             p == IF out.pending = i THEN current ELSE out.pending
             s == [out EXCEPT !.pending = p]
             r == [s EXCEPT !.state[i] = "Dormant"]
  <1>1. Becomes(r)  BY DEF TerminateThread
  <1>2. Settled(out)
    BY KernelSettled, TakeOffReadySettled, LeaveWaitSettled
  <1> HIDE DEF out
  <1>3. p \in Thread  BY <1>2 DEF Settled, TypeOK
  <1> HIDE DEF p
  <1>4. Settled(s)  BY <1>2, <1>3, SetField
  <1> HIDE DEF s
  <1>5. Settled(r)  BY <1>4, SetField, StateNames
  <1>6. mode' \in {"thread", "intr"}  BY DEF TerminateThread, TypeOK
  <1> QED BY <1>1, <1>5, <1>6, BecomesTyped

LEMMA ChangeThreadPriorityTyped ==
  ASSUME TypeOK, NEW i \in Thread, NEW p \in Priority,
         ChangeThreadPriority(i, p) \/ IChangeThreadPriority(i, p)
  PROVE  TypeOK'
  <1> DEFINE changed == [Kernel EXCEPT !.priority[i] = p]
             taken == TakeOffReady(Kernel, i)
             requeued == MakeReady([taken EXCEPT !.priority[i] = p], i)
             best == Best(changed)
             rotated == MakeReady(Picked(changed), best)
             yielded == [MakeReady(Picked(changed), i) EXCEPT !.pending = best]
             switched == SwitchNow(yielded)
             handed == HandOffIfBetter(requeued, i)
  <1>1. Settled(changed)  BY KernelSettled, SetField
  <1>2. Settled(taken)  BY KernelSettled, TakeOffReadySettled
  <1>3. /\ mode' \in {"thread", "intr"}
        /\ \/ Becomes(changed) \/ Becomes(requeued) \/ Becomes(handed)
           \/ best # None /\ (Becomes(switched) \/ Becomes(rotated))
    <2>1. mode' = mode  BY DEF ChangeThreadPriority, IChangeThreadPriority
    <2>2. mode \in {"thread", "intr"}  BY DEF TypeOK
    <2>3. CASE IChangeThreadPriority(i, p)
      <3>1. Becomes(IF state[i] = "Ready" THEN requeued ELSE changed)
        BY <2>3, Zenon DEF IChangeThreadPriority
      <3> HIDE DEF changed, requeued
      <3> QED BY <2>1, <2>2, <3>1
    <2>4. CASE ChangeThreadPriority(i, p)
      <3>1. Becomes(IF state[i] = "Ready" THEN handed
                    ELSE IF i # current \/ best = None THEN changed
                    ELSE IF changed.priority[best] < p THEN switched
                    ELSE rotated)
        BY <2>4, Zenon DEF ChangeThreadPriority
      <3> HIDE DEF changed, handed, best, switched, rotated
      <3> QED BY <2>1, <2>2, <3>1
    <2> QED BY <2>3, <2>4
  <1> HIDE DEF changed, taken
  <1>4. Settled(requeued)
    <2>1. Settled([taken EXCEPT !.priority[i] = p])  BY <1>2, SetField
    <2> QED BY <2>1, MakeReadySettled
  <1> HIDE DEF requeued
  <1>5. Settled(handed)  BY <1>4, HandOffSettled
  <1>6. best # None => Settled(switched) /\ Settled(rotated)
    <2> SUFFICES ASSUME best # None PROVE Settled(switched) /\ Settled(rotated)
      OBVIOUS
    <2>1. /\ best \in Thread /\ changed \in KernelType
          /\ Picked(changed) \in KernelType /\ SameObjects(changed, Picked(changed))
      BY <1>1, PickPendingType DEF Settled, Index
    <2> HIDE DEF best
    <2> DEFINE readied == MakeReady(Picked(changed), i)
    <2>2. readied \in KernelType /\ SameObjects(Picked(changed), readied)
      BY <2>1, MakeReadyType
    <2> HIDE DEF readied
    <2>3. yielded \in KernelType /\ SameObjects(readied, yielded)
      <3>1. yielded = [readied EXCEPT !.pending = best]  BY Zenon DEF readied
      <3>2. best \in Index  BY <2>1 DEF Index
      <3> QED BY <2>2, <3>1, <3>2 DEF KernelType, SameObjects
    <2> HIDE DEF yielded
    <2>4. /\ switched \in KernelType /\ SameObjects(yielded, switched)
          /\ switched.pending \in Thread
      BY <2>3, SwitchNowType
    <2> HIDE DEF switched
    <2>5. SameObjects(changed, switched)
      BY <2>1, <2>2, <2>3, <2>4 DEF SameObjects
    <2>6. /\ rotated \in KernelType /\ SameObjects(Picked(changed), rotated)
          /\ rotated.pending = Picked(changed).pending
      BY <2>1, MakeReadyType
    <2>7. Picked(changed).pending \in Thread  BY <1>1, PickedKeepsPending DEF Settled
    <2> HIDE DEF rotated
    <2>8. SameObjects(changed, rotated)  BY <2>1, <2>6 DEF SameObjects
    <2> QED BY <1>1, <2>4, <2>5, <2>6, <2>7, <2>8, StaysSettled
  <1> QED BY <1>1, <1>3, <1>4, <1>5, <1>6, BecomesTyped

LEMMA RotateTyped ==
  ASSUME TypeOK, NEW p \in Priority,
         RotateThreadReadyQueue(p) \/ IRotateThreadReadyQueue(p)
  PROVE  TypeOK'
  <1> DEFINE turned == HeadToTail(Kernel, p)
             switched == SwitchNow(PickPending(MakeReady(Kernel, current)))
  <1>1. Settled(turned)  BY KernelSettled, HeadToTailSettled
  <1>2. Settled(switched)
    <2>1. current \in Thread  BY DEF TypeOK
    <2> QED BY <2>1, KernelSettled, MakeReadySettled, PickAndSwitchSettled
  <1>3. Becomes(turned) \/ Becomes(switched)
    BY DEF RotateThreadReadyQueue, IRotateThreadReadyQueue
  <1>4. mode' \in {"thread", "intr"}
    BY DEF RotateThreadReadyQueue, IRotateThreadReadyQueue, TypeOK
  <1> QED BY <1>1, <1>2, <1>3, <1>4, BecomesTyped

LEMMA WakersTyped ==
  ASSUME TypeOK, NEW i \in Thread,
         ReleaseWaitThread(i) \/ WakeupThread(i) \/ CancelWakeupThread(i)
  PROVE  TypeOK'
  <1>1. mode' \in {"thread", "intr"}
    BY DEF ReleaseWaitThread, WakeupThread, CancelWakeupThread, TypeOK
  <1>2. InInterrupt \in BOOLEAN  BY DEF InInterrupt
  <1> DEFINE more == [Kernel EXCEPT !.wakeups[i] = wakeups[i] + 1]
             none == [Kernel EXCEPT !.wakeups[i] = 0]
  <1>3. \A a \in Answer : Settled(Wake(Kernel, i, a, InInterrupt))
    BY <1>2, KernelSettled, WakeSettled
  <1>4. Settled(none)
    <2>1. 0 \in 0 .. MaxWakeups  BY SchedulerAssumption
    <2> QED BY <2>1, KernelSettled, SetField
  <1>5. wakeups[i] < MaxWakeups => Settled(more)
    <2>1. wakeups[i] < MaxWakeups => wakeups[i] + 1 \in 0 .. MaxWakeups
      BY SchedulerAssumption DEF TypeOK
    <2> QED BY <2>1, KernelSettled, SetField
  <1>6. \/ \E a \in Answer : Becomes(Wake(Kernel, i, a, InInterrupt))
        \/ Becomes(none)
        \/ wakeups[i] < MaxWakeups /\ Becomes(more)
    <2>1. CASE ReleaseWaitThread(i)
      BY <2>1, StateNames DEF ReleaseWaitThread
    <2>2. CASE WakeupThread(i)
      BY <2>2, StateNames, KernelFields DEF WakeupThread
    <2>3. CASE CancelWakeupThread(i)
      BY <2>3 DEF CancelWakeupThread
    <2> QED BY <2>1, <2>2, <2>3
  <1> HIDE DEF more, none
  <1> QED BY <1>1, <1>3, <1>4, <1>5, <1>6, BecomesTyped

LEMMA SleepThreadTyped ==
  ASSUME TypeOK, SleepThread
  PROVE  TypeOK'
  <1> DEFINE less == [Kernel EXCEPT !.wakeups[current] = wakeups[current] - 1]
  <1>1. current \in Thread /\ wakeups[current] \in 0 .. MaxWakeups
    BY DEF TypeOK
  <1>2. wakeups[current] > 0 => Settled(less)
    <2>1. wakeups[current] > 0 => wakeups[current] - 1 \in 0 .. MaxWakeups
      BY <1>1, SchedulerAssumption
    <2> QED BY <1>1, <2>1, KernelSettled, SetField
  <1>3. Settled(BlockCurrent(Kernel, "Sleep"))
    BY KernelSettled, BlockSettled, StateNames
  <1>4. \/ wakeups[current] > 0 /\ Becomes(less)
        \/ Becomes(BlockCurrent(Kernel, "Sleep"))
    BY KernelFields DEF SleepThread
  <1>5. mode' \in {"thread", "intr"}  BY DEF SleepThread, TypeOK
  <1> HIDE DEF less
  <1> QED BY <1>2, <1>3, <1>4, <1>5, BecomesTyped

LEMMA DelayTyped ==
  ASSUME TypeOK, DelayThread \/ \E i \in Thread : DelayExpired(i)
  PROVE  TypeOK'
  <1>1. mode' \in {"thread", "intr"}  BY DEF DelayThread, DelayExpired, TypeOK
  <1>2. CASE DelayThread
    <2> DEFINE set == [Kernel EXCEPT !.delayed = delayed \cup {current}]
    <2>1. current \in Thread /\ delayed \cup {current} \in SUBSET Thread
      BY DEF TypeOK
    <2>2. Settled(set)  BY <2>1, KernelSettled, SetField
    <2>3. Becomes(BlockCurrent(set, "Delay"))
      BY <1>2, KernelFields DEF DelayThread
    <2> HIDE DEF set
    <2> QED BY <1>1, <2>2, <2>3, BlockSettled, StateNames, BecomesTyped
  <1>3. ASSUME NEW i \in Thread, DelayExpired(i)
        PROVE  TypeOK'
    <2> DEFINE unlinked == [Kernel EXCEPT !.delayed = delayed \ {i}]
    <2>1. delayed \ {i} \in SUBSET Thread  BY DEF TypeOK
    <2>2. Settled(unlinked)  BY <2>1, KernelSettled, SetField
    <2>3. Becomes(unlinked) \/ Becomes(Wake(unlinked, i, "Ok", TRUE))
      BY <1>3, KernelFields DEF DelayExpired
    <2> HIDE DEF unlinked
    <2> QED BY <1>1, <2>2, <2>3, WakeSettled, StateNames, BecomesTyped
  <1> QED BY <1>2, <1>3

LEMMA DeleteStepTyped ==
  ASSUME TypeOK, DeleteStep
  PROVE  TypeOK'
  <1>1. mode' \in {"thread", "intr"}  BY DEF DeleteStep, TypeOK
  <1>2. PICK o \in closing :
          Becomes(IF links.head[o] # None
                  THEN Wake(Kernel, links.head[o], "WaitDelete", TRUE)
                  ELSE [Kernel EXCEPT !.inUse = @ \ {o}, !.closing = {}])
    BY DEF DeleteStep
  <1>3. CASE links.head[o] # None
    <2>1. links.head[o] \in Thread
      BY <1>3, QueueKinds DEF TypeOK, Links, Index
    <2>2. Settled(Wake(Kernel, links.head[o], "WaitDelete", TRUE))
      BY <2>1, KernelSettled, WakeSettled, StateNames
    <2> QED BY <1>1, <1>2, <1>3, <2>2, BecomesTyped
  <1>4. CASE links.head[o] = None
    <2> DEFINE k == Kernel
               r == [k EXCEPT !.inUse = k.inUse \ {o}, !.closing = {}]
    <2>1. Becomes(r)  BY <1>2, <1>4
    <2>2. Settled(k)  BY KernelSettled
    <2> HIDE DEF k
    <2>3. Settled(r)  BY <2>2 DEF Settled, KernelType
    <2> QED BY <1>1, <2>1, <2>3, BecomesTyped
  <1> QED BY <1>3, <1>4

LEMMA InterruptTyped ==
  ASSUME TypeOK, InterruptEnter \/ InterruptExit
  PROVE  TypeOK'
  <1>1. mode' \in {"thread", "intr"}  BY DEF InterruptEnter, InterruptExit
  <1>2. Settled(Kernel)  BY KernelSettled
  <1>3. Settled(Reschedule(Kernel))
    <2>1. Kernel \in KernelType  BY <1>2 DEF Settled
    <2> QED BY <1>2, <2>1, RescheduleType, StaysSettled
  <1>4. Becomes(Kernel) \/ Becomes(Reschedule(Kernel))
    BY DEF InterruptEnter, InterruptExit
  <1> QED BY <1>1, <1>2, <1>3, <1>4, BecomesTyped

(* Every step of the scheduler keeps the types.                            *)
LEMMA SchedNextTyped ==
  ASSUME TypeOK, [SchedNext]_schedVars
  PROVE  TypeOK'
  <1>1. CASE UNCHANGED schedVars
    BY <1>1 DEF schedVars, TypeOK
  <1>2. \A i \in Target : i \in Thread  BY DEF Target
  <1>3. \A p \in CallPriority : p \in Priority  BY SchedulerAssumption
  <1>4. CASE \E p \in CallPriority : CreateThread(p)
    BY <1>3, <1>4, CreateThreadTyped
  <1>5. CASE \E i \in Target : DeleteThread(i)
    <2>1. PICK i \in Thread : DeleteThread(i)  BY <1>2, <1>5
    <2>2. Becomes([Kernel EXCEPT !.state[i] = "Free"])  BY <2>1 DEF DeleteThread
    <2>3. Settled([Kernel EXCEPT !.state[i] = "Free"])
      BY KernelSettled, SetField, StateNames
    <2>4. mode' \in {"thread", "intr"}  BY <2>1 DEF DeleteThread, TypeOK
    <2> QED BY <2>2, <2>3, <2>4, BecomesTyped
  <1>6. CASE \E i \in Target : StartThread(i)
    BY <1>2, <1>6, StartThreadTyped
  <1>7. CASE ExitThread
    BY <1>7, ExitThreadTyped
  <1>8. CASE \E i \in Target : TerminateThread(i)
    BY <1>2, <1>8, TerminateThreadTyped
  <1>9. CASE \E i \in Target, p \in CallPriority :
               ChangeThreadPriority(i, p) \/ IChangeThreadPriority(i, p)
    BY <1>2, <1>3, <1>9, ChangeThreadPriorityTyped
  <1>10. CASE \E p \in Priority :
                RotateThreadReadyQueue(p) \/ IRotateThreadReadyQueue(p)
    BY <1>10, RotateTyped
  <1>11. CASE \E i \in Target : ReleaseWaitThread(i) \/ WakeupThread(i)
                                 \/ CancelWakeupThread(i)
    BY <1>2, <1>11, WakersTyped
  <1>12. CASE SleepThread
    BY <1>12, SleepThreadTyped
  <1>13. CASE DelayThread \/ \E i \in Target : DelayExpired(i)
    BY <1>2, <1>13, DelayTyped
  <1>14. CASE InterruptEnter \/ InterruptExit
    BY <1>14, InterruptTyped
  <1> QED
    BY <1>1, <1>4, <1>5, <1>6, <1>7, <1>8, <1>9, <1>10, <1>11, <1>12, <1>13,
       <1>14 DEF SchedNext

(* Whatever calls the threads and the handlers make, and for any number of *)
(* threads and priorities, every pointer, state, reason and count of the   *)
(* scheduler keeps its range: in particular pick, which may find no ready  *)
(* thread, never leaves the pending index empty where newContext reads it. *)
THEOREM SchedTypeCorrect == SchedSpec => []TypeOK
  <1>1. SchedInit => TypeOK  BY SchedInitTyped
  <1>2. TypeOK /\ [SchedNext]_schedVars => TypeOK'  BY SchedNextTyped
  <1> QED BY <1>1, <1>2, PTL DEF SchedSpec

-----------------------------------------------------------------------------
(* The queues of record k hold each thread t in queue w[t], in chains      *)
(* without circles, and the bitmap tells which ready queues hold any.      *)
Queues(k, w) ==
    /\ k \in KernelType /\ w \in Places
    /\ LinkedAs(k.links, w) /\ Ranked(k.links)
    /\ \A p \in Priority : p \in k.readyBits <=> k.links.head[p] # None

(* Where a thread is by its own record, with none in the scheduler's hand. *)
AtRest(k) ==
    [t \in Thread |->
        IF k.state[t] = "Ready" THEN k.priority[t]
        ELSE IF k.state[t] = "Wait" /\ k.wait[t] \in Object THEN k.wait[t]
        ELSE Nowhere]

(* The same with the staged thread in its hand: Place of a record.         *)
PlaceOf(k) ==
    [t \in Thread |->
        IF k.state[t] = "Ready" /\ t # k.pending THEN k.priority[t]
        ELSE IF k.state[t] = "Wait" /\ k.wait[t] \in Object THEN k.wait[t]
        ELSE Nowhere]

(* What holds of each thread by itself.                                    *)
Threads(k) ==
    /\ \A t \in Thread :
        /\ k.state[t] = "Wait" <=> k.wait[t] # "NotWaiting"
        /\ k.wait[t] \in Object => k.wait[t] \in k.inUse
        /\ k.wait[t] = "Sleep" => k.wakeups[t] = 0
    /\ k.state[Idle] \in {"Run", "Ready"}

Delays(k) == \A t \in Thread : k.wait[t] = "Delay" <=> t \in k.delayed

Runs(k) ==
    /\ \A t \in Thread : k.state[t] = "Run" <=> t = k.current /\ k.pending = k.current
    /\ k.pending \in Thread
    /\ k.state[k.pending] \in {"Run", "Ready"}
    /\ k.state[k.current] \in {"Run", "Ready"}

(* No ready thread, i apart, is better than the one to run.                *)
BestBut(k, i) ==
    \A t \in Thread : k.state[t] = "Ready" /\ t # k.pending /\ t # i
        => k.priority[k.pending] <= k.priority[t]

Sound(k) ==
    /\ Queues(k, PlaceOf(k)) /\ Threads(k) /\ Delays(k) /\ Runs(k)
    /\ BestBut(k, None)

-----------------------------------------------------------------------------
(* What no helper changes.                                                 *)
Quiet(k, r) ==
    /\ r.priority = k.priority /\ r.initial = k.initial /\ r.wakeups = k.wakeups
    /\ r.inUse = k.inUse /\ r.closing = k.closing

(* A helper that only moves a thread between queues.                       *)
Still(k, r) ==
    /\ Quiet(k, r) /\ r.state = k.state /\ r.wait = k.wait
    /\ r.delayed = k.delayed /\ r.current = k.current

LEMMA ReadiedEffect ==
  ASSUME NEW k \in KernelType, NEW i \in Thread, NEW l \in Links
  PROVE  LET r == Readied(k, i, l)
         IN  /\ Quiet(k, r) /\ r.links = l
             /\ r.readyBits = k.readyBits \cup {k.priority[i]}
             /\ r.state = [k.state EXCEPT ![i] = "Ready"]
             /\ r.wait = [k.wait EXCEPT ![i] = "NotWaiting"]
             /\ r.delayed = k.delayed
             /\ r.current = k.current /\ r.pending = k.pending
  BY DEF Readied, KernelType, Quiet

(* Thread i is put on the ready queue of its priority, at either end.      *)
LEMMA ReadiedQueues ==
  ASSUME NEW k, NEW w, Queues(k, w), NEW i \in Thread, w[i] = Nowhere,
         NEW l \in {Enqueue(k.links, k.priority[i], i),
                    EnqueueFirst(k.links, k.priority[i], i)}
  PROVE  /\ l \in Links
         /\ Queues(Readied(k, i, l), [w EXCEPT ![i] = k.priority[i]])
  <1> DEFINE p == k.priority[i]
             r == Readied(k, i, l)
             v == [w EXCEPT ![i] = p]
  <1>1. k \in KernelType /\ w \in Places /\ k.links \in Links
    BY DEF Queues, KernelType
  <1>2. p \in Priority /\ p \in Queue  BY <1>1, QueueKinds DEF KernelType
  <1>3. l \in Links /\ LinkedAs(l, v) /\ Ranked(l)
    BY <1>1, <1>2, EnqueueType, EnqueueFirstType, EnqueueLinked, EnqueueRanked,
       EnqueueFirstLinked, EnqueueFirstRanked DEF Queues
  <1>4. /\ l.head[p] # None
        /\ \A x \in Priority \ {p} : l.head[x] = k.links.head[x]
    <2>1. k.links.tail[p] = None <=> k.links.head[p] = None
      BY <1>2 DEF Queues, LinkedAs
    <2>2. CASE l = Enqueue(k.links, p, i)
      BY <1>1, <1>2, <2>1, <2>2, QueueKinds, NoneIsNoThread DEF Enqueue, Links
    <2>3. CASE l = EnqueueFirst(k.links, p, i)
      BY <1>1, <1>2, <2>3, QueueKinds, NoneIsNoThread DEF EnqueueFirst, Links
    <2> QED BY <2>2, <2>3
  <1>5. v \in Places  BY <1>1, <1>2 DEF Places
  <1>6. r \in KernelType  BY <1>1, <1>3, ReadiedType
  <1>7. r.links = l /\ r.readyBits = k.readyBits \cup {p}
    BY <1>1, <1>3 DEF Readied, KernelType
  <1>8. \A x \in Priority : x \in r.readyBits <=> r.links.head[x] # None
    BY <1>2, <1>4, <1>7 DEF Queues
  <1> QED BY <1>3, <1>5, <1>6, <1>7, <1>8 DEF Queues

Readies(k, w, i, r) ==
    /\ Queues(r, [w EXCEPT ![i] = k.priority[i]])
    /\ Quiet(k, r)
    /\ r.state = [k.state EXCEPT ![i] = "Ready"]
    /\ r.wait = [k.wait EXCEPT ![i] = "NotWaiting"]
    /\ r.delayed = k.delayed
    /\ r.current = k.current /\ r.pending = k.pending

LEMMA MakeReadyQueues ==
  ASSUME NEW k, NEW w, Queues(k, w), NEW i \in Thread, w[i] = Nowhere
  PROVE  Readies(k, w, i, MakeReady(k, i)) /\ Readies(k, w, i, MakeReadyFirst(k, i))
  <1>1. ASSUME NEW l \in {Enqueue(k.links, k.priority[i], i),
                          EnqueueFirst(k.links, k.priority[i], i)}
        PROVE  Readies(k, w, i, Readied(k, i, l))
    <2>1. k \in KernelType  BY DEF Queues
    <2>2. l \in Links /\ Queues(Readied(k, i, l), [w EXCEPT ![i] = k.priority[i]])
      BY ReadiedQueues
    <2> QED BY <2>1, <2>2, ReadiedEffect DEF Readies
  <1> QED BY <1>1 DEF MakeReady, MakeReadyFirst

(* Thread i is taken off the ready queue p that it is in.                  *)
LEMMA DequeuedQueues ==
  ASSUME NEW k, NEW w, Queues(k, w), NEW i \in Thread, NEW p \in Priority, w[i] = p
  PROVE  LET r == Dequeued(k, p, Unlink(k.links, p, i))
         IN  /\ Queues(r, [w EXCEPT ![i] = Nowhere])
             /\ Still(k, r) /\ r.pending = k.pending
  <1> DEFINE l == Unlink(k.links, p, i)
             r == Dequeued(k, p, l)
             v == [w EXCEPT ![i] = Nowhere]
  <1>1. k \in KernelType /\ w \in Places /\ k.links \in Links /\ p \in Queue
    BY QueueKinds DEF Queues, KernelType
  <1>2. l \in Links /\ LinkedAs(l, v) /\ Ranked(l)
    BY <1>1, UnlinkType, UnlinkLinked, UnlinkRanked DEF Queues
  <1>3. \A x \in Priority \ {p} : l.head[x] = k.links.head[x]
    BY <1>1, QueueKinds DEF Unlink, Links
  <1>4. v \in Places  BY <1>1 DEF Places
  <1>5. k.links.head[p] # None
    BY <1>1, QueueHasHead, NowhereIsNoQueue DEF Queues
  <1> HIDE DEF l
  <1>6. r \in KernelType  BY <1>1, <1>2, DequeuedType
  <1>7. /\ r.links = l
        /\ r.readyBits = IF l.head[p] = None THEN k.readyBits \ {p} ELSE k.readyBits
    BY <1>1 DEF Dequeued, KernelType
  <1>8. \A x \in Priority : x \in r.readyBits <=> r.links.head[x] # None
    BY <1>3, <1>5, <1>7 DEF Queues
  <1>9. Queues(r, v)
    BY <1>2, <1>4, <1>6, <1>7, <1>8 DEF Queues
  <1>10. Still(k, r) /\ r.pending = k.pending
    BY <1>1 DEF Dequeued, KernelType, Still, Quiet
  <1> QED BY <1>9, <1>10 DEF l

LEMMA TakeOffReadyQueues ==
  ASSUME NEW k, NEW w, Queues(k, w), NEW i \in Thread, w[i] = k.priority[i]
  PROVE  LET r == TakeOffReady(k, i)
         IN  /\ Queues(r, [w EXCEPT ![i] = Nowhere])
             /\ Still(k, r) /\ r.pending = k.pending
  <1>1. k.priority[i] \in Priority  BY DEF Queues, KernelType
  <1> QED BY <1>1, DequeuedQueues DEF TakeOffReady

(* pick takes the head of the best queue that holds a thread, if any does. *)
LEMMA PickQueues ==
  ASSUME NEW k, NEW w, Queues(k, w), NEW u \in Thread, w[u] \in Priority
  PROVE  LET b == Best(k)
             r == Picked(k)
         IN  /\ b \in Thread /\ w[b] \in Priority
             /\ b = k.links.head[w[b]]
             /\ \A t \in Thread : w[t] \in Priority => w[b] <= w[t]
             /\ Queues(r, [w EXCEPT ![b] = Nowhere])
             /\ Still(k, r) /\ r.pending = k.pending
  <1> DEFINE b == Best(k)
             p == Min(k.readyBits)
  <1>1. k \in KernelType /\ w \in Places /\ k.links \in Links
    BY DEF Queues, KernelType
  <1>2. \A t \in Thread : w[t] \in Priority => w[t] \in k.readyBits
    BY <1>1, QueueHasHead, QueueKinds, NowhereIsNoQueue DEF Queues
  <1>3. k.readyBits # {} /\ k.readyBits \in SUBSET Priority
    BY <1>1, <1>2 DEF KernelType
  <1>4. p \in k.readyBits /\ \A x \in k.readyBits : p <= x
    BY <1>3, MinIsBest
  <1>5. p \in Priority /\ p \in Queue /\ k.links.head[p] # None
    BY <1>3, <1>4, QueueKinds DEF Queues
  <1>6. b = k.links.head[p]  BY <1>3 DEF Best
  <1>7. b \in Thread /\ w[b] = p
    BY <1>1, <1>5, <1>6 DEF Links, Index, LinkedAs, Queues
  <1>8. Picked(k) = Dequeued(k, p, Unlink(k.links, p, b))
    BY <1>3, <1>5, <1>6 DEF Picked, PopFront
  <1>9. /\ Queues(Picked(k), [w EXCEPT ![b] = Nowhere])
        /\ Still(k, Picked(k)) /\ Picked(k).pending = k.pending
    BY <1>5, <1>7, <1>8, DequeuedQueues
  <1> QED BY <1>2, <1>4, <1>5, <1>6, <1>7, <1>9

LEMMA ObjectsApart ==
  /\ \A o \in Object : /\ o \notin Priority /\ o # Nowhere /\ o # "NotWaiting"
                       /\ o # "Sleep" /\ o # "Delay"
  /\ Nowhere \notin Priority
  BY QueueAssumption DEF Nowhere, Priority

(* leaveWait takes thread i off the wait list it is on, if it is on one.   *)
LEMMA LeaveWaitQueues ==
  ASSUME NEW k, NEW w, Queues(k, w), NEW i \in Thread,
         w[i] = IF k.wait[i] \in k.inUse THEN k.wait[i] ELSE Nowhere
  PROVE  LET r == LeaveWait(k, i)
         IN  /\ Queues(r, [w EXCEPT ![i] = Nowhere])
             /\ Quiet(k, r) /\ r.state = k.state
             /\ r.wait = [k.wait EXCEPT ![i] = "NotWaiting"]
             /\ r.delayed = IF k.wait[i] = "Delay" THEN k.delayed \ {i} ELSE k.delayed
             /\ r.current = k.current /\ r.pending = k.pending
  <1> DEFINE o == k.wait[i]
             r == LeaveWait(k, i)
             v == [w EXCEPT ![i] = Nowhere]
             left == [k EXCEPT !.wait[i] = "NotWaiting",
                               !.delayed = IF o = "Delay" THEN @ \ {i} ELSE @]
  <1>1. k \in KernelType /\ w \in Places /\ k.links \in Links
    BY DEF Queues, KernelType
  <1>2. r \in KernelType  BY <1>1, LeaveWaitType
  <1>3. v \in Places  BY <1>1 DEF Places
  <1>4. /\ Quiet(k, left) /\ left.state = k.state
        /\ left.wait = [k.wait EXCEPT ![i] = "NotWaiting"]
        /\ left.delayed = IF o = "Delay" THEN k.delayed \ {i} ELSE k.delayed
        /\ left.current = k.current /\ left.pending = k.pending
        /\ left.links = k.links /\ left.readyBits = k.readyBits
    BY <1>1 DEF KernelType, Quiet
  <1>5. left \in KernelType
    <2>1. [k.wait EXCEPT ![i] = "NotWaiting"] \in [Thread -> WaitReason]
      BY <1>1, StateNames DEF KernelType
    <2> QED BY <1>1, <2>1 DEF KernelType
  <1>6. CASE o \notin k.inUse
    <2>1. r = left  BY <1>6 DEF LeaveWait
    <2>2. v = w  BY <1>1, <1>6 DEF Places
    <2> HIDE DEF left, r
    <2>3. Queues(r, v)  BY <1>2, <1>4, <2>1, <2>2 DEF Queues
    <2> QED BY <1>4, <2>1, <2>3 DEF r
  <1>7. CASE o \in k.inUse
    <2> DEFINE l == Unlink(k.links, o, i)
    <2>1. o \in Object /\ o \in Queue  BY <1>1, <1>7, QueueKinds DEF KernelType
    <2>2. l \in Links /\ LinkedAs(l, v) /\ Ranked(l)
      BY <1>1, <1>7, <2>1, UnlinkType, UnlinkLinked, UnlinkRanked DEF Queues
    <2>3. \A x \in Priority : l.head[x] = k.links.head[x]
      BY <1>1, <2>1, QueueKinds, ObjectsApart DEF Unlink, Links
    <2> HIDE DEF left
    <2>4. r = [left EXCEPT !.links = Unlink(@, o, i), !.waiters[o] = @ - 1]
      BY <1>7 DEF LeaveWait, left
    <2>5. /\ r.links = l /\ r.readyBits = left.readyBits
          /\ Quiet(left, r) /\ r.state = left.state /\ r.wait = left.wait
          /\ r.delayed = left.delayed
          /\ r.current = left.current /\ r.pending = left.pending
      BY <1>4, <1>5, <2>4 DEF Quiet, KernelType
    <2> HIDE DEF r, l
    <2>6. Queues(r, v)
      BY <1>2, <1>3, <1>4, <2>2, <2>3, <2>5 DEF Queues
    <2> QED BY <1>4, <2>5, <2>6 DEF r, Quiet
  <1> QED BY <1>6, <1>7

(* The switch to the thread in hand.                                       *)
LEMMA SwitchQueues ==
  ASSUME NEW k, NEW w, Queues(k, w), k.pending \in Thread, k.pending # k.current,
         NEW r \in {SwitchNow(k), Reschedule(k)}
  PROVE  /\ Queues(r, w) /\ Quiet(k, r)
         /\ r.state = [k.state EXCEPT ![k.pending] = "Run"]
         /\ r.wait = k.wait /\ r.delayed = k.delayed
         /\ r.current = k.pending /\ r.pending = k.pending
  <1> DEFINE a == [k EXCEPT !.answer[k.current] = "Ok"]
  <1>1. k \in KernelType /\ k.pending # None
    BY NoneIsNoThread DEF Queues
  <1>2. a \in KernelType /\ Still(k, a) /\ a.pending = k.pending
        /\ a.links = k.links /\ a.readyBits = k.readyBits
    <2>1. [k.answer EXCEPT ![k.current] = "Ok"] \in [Thread -> Answer]
      BY <1>1, StateNames DEF KernelType
    <2> QED BY <1>1, <2>1 DEF KernelType, Still, Quiet
  <1>3. ASSUME NEW m \in KernelType, Still(k, m), m.pending = k.pending,
               m.links = k.links, m.readyBits = k.readyBits, r = Reschedule(m)
        PROVE  /\ Queues(r, w) /\ Quiet(k, r)
               /\ r.state = [k.state EXCEPT ![k.pending] = "Run"]
               /\ r.wait = k.wait /\ r.delayed = k.delayed
               /\ r.current = k.pending /\ r.pending = k.pending
    <2>1. r = [m EXCEPT !.pending = k.pending, !.current = k.pending,
                        !.state[k.pending] = "Run"]
      BY <1>1, <1>3, Zenon DEF Reschedule, NewContext, Still
    <2>2. /\ Quiet(m, r) /\ r.state = [m.state EXCEPT ![k.pending] = "Run"]
          /\ r.wait = m.wait /\ r.delayed = m.delayed
          /\ r.links = m.links /\ r.readyBits = m.readyBits
          /\ r.current = k.pending /\ r.pending = k.pending
      BY <1>3, <2>1 DEF KernelType, Quiet
    <2>3. r \in KernelType  BY <1>3, RescheduleType
    <2> QED BY <1>3, <2>2, <2>3 DEF Queues, Still, Quiet
  <1>4. CASE r = Reschedule(k)
    BY <1>1, <1>3, <1>4 DEF Still, Quiet
  <1>5. CASE r = SwitchNow(k)
    <2>1. r = Reschedule(a)  BY <1>5 DEF SwitchNow
    <2> HIDE DEF a
    <2> QED BY <1>2, <1>3, <2>1
  <1> QED BY <1>4, <1>5

-----------------------------------------------------------------------------
(* What a ready queue, a wait list or no queue says of a thread's state.   *)
LEMMA PlaceTells ==
  ASSUME NEW k \in KernelType
  PROVE  /\ AtRest(k) \in Places /\ PlaceOf(k) \in Places
         /\ \A t \in Thread :
              /\ AtRest(k)[t] \in Priority <=> k.state[t] = "Ready"
              /\ AtRest(k)[t] \in Priority => AtRest(k)[t] = k.priority[t]
              /\ PlaceOf(k)[t] \in Priority <=> k.state[t] = "Ready" /\ t # k.pending
              /\ PlaceOf(k)[t] \in Priority => PlaceOf(k)[t] = k.priority[t]
  BY ObjectsApart, QueueKinds DEF AtRest, PlaceOf, KernelType, Places

LEMMA IdleIsThread == Idle \in Thread
  BY QueueAssumption DEF Idle, Thread

(* Once the running thread has been put where its new state belongs, the   *)
(* switch to the best ready thread leaves a sound scheduler.               *)
LEMMA DispatchSound ==
  ASSUME NEW k, Queues(k, AtRest(k)), Threads(k), Delays(k),
         k.state[Idle] = "Ready", \A t \in Thread : k.state[t] # "Run",
         Best(k) # k.current
  PROVE  LET r == SwitchNow(PickPending(k))
         IN  Sound(r) /\ r.pending = r.current /\ Quiet(k, r)
  <1> DEFINE w == AtRest(k)
             b == Best(k)
             m == PickPending(k)
             r == SwitchNow(m)
             v == [w EXCEPT ![b] = Nowhere]
  <1>1. k \in KernelType  BY DEF Queues
  <1>2. w[Idle] \in Priority  BY <1>1, IdleIsThread, PlaceTells
  <1>3. /\ b \in Thread /\ w[b] \in Priority
        /\ \A t \in Thread : w[t] \in Priority => w[b] <= w[t]
        /\ Queues(Picked(k), v) /\ Still(k, Picked(k))
    BY <1>2, IdleIsThread, PickQueues
  <1>4. m \in KernelType /\ Still(k, m) /\ m.pending = b
        /\ m.links = Picked(k).links /\ m.readyBits = Picked(k).readyBits
    <2>1. m = [Picked(k) EXCEPT !.pending = b]  BY DEF PickPending
    <2>2. m \in KernelType  BY <1>1, PickPendingType
    <2>3. Picked(k) \in KernelType  BY <1>3 DEF Queues
    <2> HIDE DEF m, b
    <2> QED BY <1>3, <2>1, <2>2, <2>3 DEF Still, Quiet, KernelType
  <1> HIDE DEF m
  <1>5. Queues(m, v)  BY <1>3, <1>4 DEF Queues
  <1>6. /\ Queues(r, v) /\ Quiet(m, r)
        /\ r.state = [m.state EXCEPT ![b] = "Run"]
        /\ r.wait = m.wait /\ r.delayed = m.delayed
        /\ r.current = b /\ r.pending = b
    <2>1. m.pending \in Thread /\ m.pending # m.current
      BY <1>3, <1>4 DEF Still
    <2> QED BY <1>4, <1>5, <2>1, SwitchQueues
  <1> HIDE DEF r, b
  <1>7. k.state[b] = "Ready"  BY <1>1, <1>3, PlaceTells
  <1>8. /\ Quiet(k, r) /\ r.state = [k.state EXCEPT ![b] = "Run"]
        /\ r.wait = k.wait /\ r.delayed = k.delayed
    BY <1>4, <1>6 DEF Still, Quiet
  <1>9. PlaceOf(r) = v
    BY <1>1, <1>3, <1>6, <1>7, <1>8 DEF PlaceOf, AtRest, Quiet, KernelType
  <1>10. Threads(r) /\ Delays(r) /\ Runs(r)
    BY <1>1, <1>3, <1>6, <1>7, <1>8, IdleIsThread
    DEF Threads, Delays, Runs, Quiet, KernelType
  <1>11. BestBut(r, None)
    <2> SUFFICES ASSUME NEW t \in Thread, r.state[t] = "Ready", t # b
                 PROVE  r.priority[b] <= r.priority[t]
      BY <1>6 DEF BestBut
    <2>1. k.state[t] = "Ready"  BY <1>1, <1>8 DEF KernelType
    <2>2. w[t] \in Priority /\ w[t] = k.priority[t] /\ w[b] = k.priority[b]
      BY <1>1, <1>3, <2>1, PlaceTells
    <2> QED BY <1>3, <1>8, <2>2 DEF Quiet
  <1> QED BY <1>6, <1>8, <1>9, <1>10, <1>11 DEF Sound, r, m

(* handOffIfBetter settles the preemption that the ready thread i is owed. *)
LEMMA HandOffSound ==
  ASSUME NEW k, Queues(k, PlaceOf(k)), Threads(k), Delays(k), Runs(k),
         k.pending = k.current, NEW i \in Thread, k.state[i] = "Ready",
         BestBut(k, i)
  PROVE  LET r == HandOffIfBetter(k, i)
         IN  /\ Sound(r) /\ r.pending = r.current /\ Quiet(k, r)
             /\ r.wait = k.wait
  <1> DEFINE c == k.current
             w == PlaceOf(k)
             r == HandOffIfBetter(k, i)
  <1>1. k \in KernelType /\ c \in Thread /\ k.state[c] = "Run" /\ i # c
    BY DEF Queues, Runs, KernelType
  <1>2. k.priority[i] \in Int /\ k.priority[c] \in Int
    BY <1>1, QueueAssumption DEF KernelType, Priority
  <1>3. CASE k.priority[i] >= k.priority[c]
    <2>1. r = k  BY <1>3 DEF HandOffIfBetter
    <2>2. BestBut(k, None)
      BY <1>2, <1>3 DEF BestBut
    <2> QED BY <2>1, <2>2 DEF Sound, Quiet
  <1>4. CASE ~(k.priority[i] >= k.priority[c])
    <2> DEFINE f == MakeReady(k, c)
               y == [k EXCEPT !.state[c] = "Ready",
                              !.links = Enqueue(@, k.priority[c], c),
                              !.readyBits = @ \cup {k.priority[c]}]
               v == [w EXCEPT ![c] = k.priority[c]]
               x == TakeOffReady(y, i)
               m == [x EXCEPT !.pending = i]
               u == [v EXCEPT ![i] = Nowhere]
    <2>1. w[c] = Nowhere /\ w[i] = k.priority[i]
      BY <1>1 DEF PlaceOf
    <2>2. Queues(f, v)  BY <1>1, <2>1, MakeReadyQueues DEF Readies
    <2>3. /\ f.links = Enqueue(k.links, k.priority[c], c)
          /\ f.readyBits = k.readyBits \cup {k.priority[c]}
      BY <1>1 DEF MakeReady, Readied, KernelType
    <2>4. /\ y.links = Enqueue(k.links, k.priority[c], c)
          /\ y.readyBits = k.readyBits \cup {k.priority[c]}
          /\ Quiet(k, y) /\ y.state = [k.state EXCEPT ![c] = "Ready"]
          /\ y.wait = k.wait /\ y.delayed = k.delayed
          /\ y.current = c /\ y.pending = k.pending
      BY <1>1 DEF KernelType, Quiet
    <2>5. y \in KernelType
      <3>1. Enqueue(k.links, k.priority[c], c) \in Links
        BY <1>1, EnqueueType, QueueKinds DEF KernelType
      <3>2. [k.state EXCEPT ![c] = "Ready"] \in [Thread -> State]
        BY <1>1, StateNames DEF KernelType
      <3>3. k.readyBits \cup {k.priority[c]} \subseteq Priority
        BY <1>1 DEF KernelType
      <3> DEFINE l == Enqueue(k.links, k.priority[c], c)
      <3> HIDE DEF l
      <3>4. y = [k EXCEPT !.state[c] = "Ready", !.links = l,
                          !.readyBits = @ \cup {k.priority[c]}]
        BY DEF l
      <3> QED BY <1>1, <3>1, <3>2, <3>3, <3>4 DEF KernelType, l
    <2> HIDE DEF f, y
    <2>6. Queues(y, v)  BY <2>2, <2>3, <2>4, <2>5 DEF Queues
    <2>7. v[i] = y.priority[i]
      BY <1>1, <2>1, <2>4, PlaceTells DEF Quiet, Places
    <2>8. Queues(x, u) /\ Still(y, x) /\ x.pending = y.pending
      BY <2>6, <2>7, TakeOffReadyQueues
    <2> HIDE DEF x
    <2>9. /\ m \in KernelType /\ m.links = x.links /\ m.readyBits = x.readyBits
          /\ Still(x, m) /\ m.pending = i
      BY <2>8 DEF Queues, KernelType, Still, Quiet, Index
    <2>10. r = SwitchNow(m)
      BY <1>4 DEF HandOffIfBetter, m, x, y
    <2> HIDE DEF m, r, v, u
    <2>11. Queues(m, u)  BY <2>8, <2>9 DEF Queues
    <2>12. /\ Queues(r, u) /\ Quiet(m, r)
           /\ r.state = [m.state EXCEPT ![i] = "Run"]
           /\ r.wait = m.wait /\ r.delayed = m.delayed
           /\ r.current = i /\ r.pending = i
      <3>1. m.pending = i /\ m.pending \in Thread /\ m.pending # m.current
        BY <1>1, <2>4, <2>8, <2>9 DEF Still
      <3> QED BY <2>10, <2>11, <3>1, SwitchQueues
    <2>13. /\ Quiet(k, r) /\ r.wait = k.wait /\ r.delayed = k.delayed
           /\ r.state = [k.state EXCEPT ![c] = "Ready", ![i] = "Run"]
      BY <1>1, <2>4, <2>8, <2>9, <2>12 DEF Still, Quiet
    <2>14. PlaceOf(r) = u
      BY <1>1, <2>12, <2>13 DEF PlaceOf, Quiet, KernelType, u, v
    <2>15. Threads(r) /\ Delays(r) /\ Runs(r)
      BY <1>1, <2>12, <2>13, IdleIsThread
      DEF Threads, Delays, Runs, Quiet, KernelType
    <2>16. BestBut(r, None)
      <3> SUFFICES ASSUME NEW t \in Thread, r.state[t] = "Ready", t # i
                   PROVE  k.priority[i] <= k.priority[t]
        BY <2>12, <2>13 DEF BestBut, Quiet
      <3>1. k.priority[t] \in Int
        BY <1>1, QueueAssumption DEF KernelType, Priority
      <3>2. CASE t = c  BY <1>2, <1>4, <3>2
      <3>3. CASE t # c
        <4>1. k.state[t] = "Ready"  BY <1>1, <2>13, <3>3 DEF KernelType
        <4>2. k.priority[c] <= k.priority[t]  BY <3>3, <4>1 DEF BestBut
        <4> QED BY <1>2, <1>4, <3>1, <4>2
      <3> QED BY <3>2, <3>3
    <2> QED BY <2>12, <2>13, <2>14, <2>15, <2>16 DEF Sound, r
  <1> QED BY <1>3, <1>4

(* The tail of wake in an interrupt settles it by staging i, and leaves    *)
(* the interrupted thread current.                                         *)
LEMMA StageSound ==
  ASSUME NEW k, Queues(k, PlaceOf(k)), Threads(k), Delays(k), Runs(k),
         NEW i \in Thread, k.state[i] = "Ready", i # k.current, i # k.pending,
         BestBut(k, i)
  PROVE  LET r == StageIfBetter(k, i)
         IN  /\ Sound(r) /\ Quiet(k, r) /\ r.current = k.current
             /\ r.wait = k.wait
             /\ k.priority[i] >= k.priority[k.current] => r.pending = k.pending
  <1> DEFINE c == k.current
             h == k.pending
             w == PlaceOf(k)
             r == StageIfBetter(k, i)
             better == /\ k.priority[i] < k.priority[c]
                       /\ h \in {None, c} \/ k.priority[i] < k.priority[h]
  <1>1. k \in KernelType /\ c \in Thread /\ h \in Thread /\ h # None
    BY NoneIsNoThread DEF Queues, Runs, KernelType
  <1>2. \A t \in Thread : k.priority[t] \in Int
    BY <1>1, QueueAssumption DEF KernelType, Priority
  <1>3. h # c => k.priority[h] <= k.priority[c]
    BY <1>1 DEF BestBut, Runs
  <1>4. CASE ~better
    <2>1. r = k  BY <1>4 DEF StageIfBetter
    <2>2. k.priority[h] <= k.priority[i]
      BY <1>1, <1>2, <1>3, <1>4
    <2>3. BestBut(k, None)  BY <2>2 DEF BestBut
    <2> QED BY <2>1, <2>3 DEF Sound, Quiet
  <1>5. CASE better
    <2> DEFINE d == IF h = c THEN MakeReadyFirst(k, c) ELSE MakeReady(k, h)
               v == [w EXCEPT ![h] = k.priority[h]]
               x == TakeOffReady(d, i)
               m == [x EXCEPT !.pending = i]
               u == [v EXCEPT ![i] = Nowhere]
    <2>1. w[h] = Nowhere /\ w[i] = k.priority[i] /\ k.wait[h] = "NotWaiting"
      BY <1>1 DEF PlaceOf, Runs, Threads
    <2>2. /\ Queues(d, v) /\ Quiet(k, d)
          /\ d.state = [k.state EXCEPT ![h] = "Ready"]
          /\ d.wait = [k.wait EXCEPT ![h] = "NotWaiting"]
          /\ d.delayed = k.delayed /\ d.current = c /\ d.pending = h
      <3>1. Readies(k, w, h, MakeReady(k, h)) /\ Readies(k, w, h, MakeReadyFirst(k, h))
        BY <1>1, <2>1, MakeReadyQueues
      <3>2. Readies(k, w, h, d)  BY <3>1
      <3> HIDE DEF d, w
      <3> QED BY <3>2 DEF Readies
    <2>3. v[i] = d.priority[i]
      <3> HIDE DEF d
      <3> QED BY <1>1, <2>1, <2>2, PlaceTells DEF Quiet, Places
    <2> HIDE DEF d, v
    <2>4. Queues(x, u) /\ Still(d, x) /\ x.pending = d.pending
      BY <2>2, <2>3, TakeOffReadyQueues
    <2> HIDE DEF x
    <2>5. /\ m \in KernelType /\ m.links = x.links /\ m.readyBits = x.readyBits
          /\ Still(x, m) /\ m.pending = i
      BY <2>4 DEF Queues, KernelType, Still, Quiet, Index
    <2>6. r = m
      BY <1>1, <1>5 DEF StageIfBetter, m, x, d
    <2> HIDE DEF m, r, v, u
    <2>7. Queues(r, u)  BY <2>4, <2>5, <2>6 DEF Queues
    <2>8. /\ Quiet(k, r) /\ r.delayed = k.delayed
          /\ r.wait = k.wait /\ r.state = [k.state EXCEPT ![h] = "Ready"]
          /\ r.current = c /\ r.pending = i
      <3>1. [k.wait EXCEPT ![h] = "NotWaiting"] = k.wait
        BY <1>1, <2>1 DEF KernelType
      <3> QED BY <2>2, <2>4, <2>5, <2>6, <3>1 DEF Still, Quiet
    <2>9. PlaceOf(r) = u
      BY <1>1, <2>1, <2>8 DEF PlaceOf, Quiet, KernelType, u, v
    <2>10. Threads(r) /\ Delays(r)
      BY <1>1, <2>1, <2>8, IdleIsThread DEF Threads, Delays, Quiet, KernelType
    <2>11. Runs(r)
      BY <1>1, <2>8 DEF Runs, KernelType
    <2>12. BestBut(r, None)
      <3> SUFFICES ASSUME NEW t \in Thread, r.state[t] = "Ready", t # i
                   PROVE  k.priority[i] <= k.priority[t]
        BY <2>8 DEF BestBut, Quiet
      <3>1. CASE t = h  BY <1>1, <1>2, <1>5, <3>1
      <3>2. CASE t # h
        <4>1. k.state[t] = "Ready"  BY <1>1, <2>8, <3>2 DEF KernelType
        <4>2. k.priority[h] <= k.priority[t]  BY <3>2, <4>1 DEF BestBut
        <4>3. k.priority[i] < k.priority[h]  BY <1>1, <1>2, <1>3, <1>5
        <4> QED BY <1>1, <1>2, <4>2, <4>3
      <3> QED BY <3>1, <3>2
    <2>13. ~(k.priority[i] >= k.priority[c])  BY <1>1, <1>2, <1>5
    <2> QED BY <2>7, <2>8, <2>9, <2>10, <2>11, <2>12, <2>13 DEF Sound, r
  <1> QED BY <1>4, <1>5

(* Every alarm but that of thread i, which may be gone already.            *)
DelaysBut(k, i) ==
    /\ \A t \in Thread \ {i} : k.wait[t] = "Delay" <=> t \in k.delayed
    /\ i \in k.delayed => k.wait[i] = "Delay"

(* wake, as far as the woken thread being ready: all is sound but that a    *)
(* switch to it may be owed.                                               *)
Woken(k, i, a) == MakeReady([LeaveWait(k, i) EXCEPT !.answer[i] = a], i)

LEMMA WokenSound ==
  ASSUME NEW k, Queues(k, PlaceOf(k)), Threads(k), Runs(k), BestBut(k, None),
         NEW i \in Thread, DelaysBut(k, i), k.state[i] = "Wait", NEW a \in Answer
  PROVE  LET g == Woken(k, i, a)
         IN  /\ Queues(g, PlaceOf(g)) /\ Threads(g) /\ Delays(g) /\ Runs(g)
             /\ BestBut(g, i) /\ g.state[i] = "Ready" /\ Quiet(k, g)
             /\ g.wait = [k.wait EXCEPT ![i] = "NotWaiting"]
             /\ g.current = k.current /\ g.pending = k.pending
             /\ i # k.pending /\ i # k.current
  <1> DEFINE w == PlaceOf(k)
             e == LeaveWait(k, i)
             f == [e EXCEPT !.answer[i] = a]
             g == MakeReady(f, i)
             v == [w EXCEPT ![i] = Nowhere]
             u == [v EXCEPT ![i] = k.priority[i]]
  <1>1. k \in KernelType /\ w \in Places /\ i # k.pending /\ i # k.current
    BY DEF Queues, Runs
  <1>2. w[i] = IF k.wait[i] \in k.inUse THEN k.wait[i] ELSE Nowhere
    BY <1>1 DEF PlaceOf, Threads, KernelType
  <1>3. /\ Queues(e, v) /\ Quiet(k, e) /\ e.state = k.state
        /\ e.wait = [k.wait EXCEPT ![i] = "NotWaiting"]
        /\ e.delayed = IF k.wait[i] = "Delay" THEN k.delayed \ {i} ELSE k.delayed
        /\ e.current = k.current /\ e.pending = k.pending
    BY <1>2, LeaveWaitQueues
  <1> HIDE DEF e
  <1>4. /\ f \in KernelType /\ f.links = e.links /\ f.readyBits = e.readyBits
        /\ Still(e, f) /\ f.pending = e.pending
    <2>1. e \in KernelType  BY <1>3 DEF Queues
    <2>2. [e.answer EXCEPT ![i] = a] \in [Thread -> Answer]
      BY <2>1 DEF KernelType
    <2> QED BY <2>1, <2>2 DEF KernelType, Still, Quiet
  <1> HIDE DEF f
  <1>5. Queues(f, v)  BY <1>3, <1>4 DEF Queues
  <1>6. /\ Queues(g, [v EXCEPT ![i] = f.priority[i]]) /\ Quiet(f, g)
        /\ g.state = [f.state EXCEPT ![i] = "Ready"]
        /\ g.wait = [f.wait EXCEPT ![i] = "NotWaiting"]
        /\ g.delayed = f.delayed
        /\ g.current = f.current /\ g.pending = f.pending
    <2>1. v[i] = Nowhere  BY <1>1 DEF Places
    <2> HIDE DEF v
    <2>2. Readies(f, v, i, g)  BY <1>5, <2>1, MakeReadyQueues
    <2> HIDE DEF g
    <2> QED BY <2>2 DEF Readies
  <1> HIDE DEF g, u, v
  <1>7. /\ Queues(g, u) /\ Quiet(k, g)
        /\ g.state = [k.state EXCEPT ![i] = "Ready"]
        /\ g.wait = [k.wait EXCEPT ![i] = "NotWaiting"]
        /\ g.delayed = IF k.wait[i] = "Delay" THEN k.delayed \ {i} ELSE k.delayed
        /\ g.current = k.current /\ g.pending = k.pending
    <2>1. [[k.wait EXCEPT ![i] = "NotWaiting"] EXCEPT ![i] = "NotWaiting"]
            = [k.wait EXCEPT ![i] = "NotWaiting"]
      BY <1>1 DEF KernelType
    <2> QED BY <1>3, <1>4, <1>6, <2>1 DEF Still, Quiet, u
  <1>8. PlaceOf(g) = u
    BY <1>1, <1>7 DEF PlaceOf, Quiet, KernelType, u, v
  <1>9. Threads(g) /\ Delays(g)
    BY <1>1, <1>7, IdleIsThread, ObjectsApart
    DEF Threads, Delays, DelaysBut, Quiet, KernelType
  <1>10. Runs(g)
    BY <1>1, <1>7 DEF Runs, KernelType
  <1>11. BestBut(g, i)
    BY <1>1, <1>7, NoneIsNoThread DEF BestBut, Quiet, KernelType
  <1>12. g.state[i] = "Ready"  BY <1>1, <1>7 DEF KernelType
  <1> QED BY <1>1, <1>7, <1>8, <1>9, <1>10, <1>11, <1>12 DEF Woken, g, f, e

(* wake, of a thread that waits: sound before, sound after.                *)
LEMMA WakeSound ==
  ASSUME NEW k, Queues(k, PlaceOf(k)), Threads(k), Runs(k), BestBut(k, None),
         NEW i \in Thread, DelaysBut(k, i), k.state[i] = "Wait",
         NEW a \in Answer, NEW interrupt \in BOOLEAN,
         interrupt \/ k.pending = k.current
  PROVE  LET r == Wake(k, i, a, interrupt)
         IN  /\ Sound(r) /\ Quiet(k, r)
             /\ ~interrupt => r.pending = r.current
             /\ interrupt => r.current = k.current
             /\ interrupt /\ k.priority[i] >= k.priority[k.current]
                  => r.pending = k.pending
             /\ r.wait = [k.wait EXCEPT ![i] = "NotWaiting"]
  <1> DEFINE g == Woken(k, i, a)
             r == Wake(k, i, a, interrupt)
  <1>1. /\ Queues(g, PlaceOf(g)) /\ Threads(g) /\ Delays(g) /\ Runs(g)
        /\ BestBut(g, i) /\ g.state[i] = "Ready" /\ Quiet(k, g)
        /\ g.wait = [k.wait EXCEPT ![i] = "NotWaiting"]
        /\ g.current = k.current /\ g.pending = k.pending
        /\ i # k.pending /\ i # k.current
    BY WokenSound
  <1>2. r = IF interrupt THEN StageIfBetter(g, i) ELSE HandOffIfBetter(g, i)
    BY DEF Wake, Woken
  <1> HIDE DEF g, r
  <1>3. CASE interrupt
    <2>1. /\ Sound(r) /\ Quiet(g, r) /\ r.current = g.current
          /\ g.priority[i] >= g.priority[g.current] => r.pending = g.pending
          /\ r.wait = g.wait
      BY <1>1, <1>2, <1>3, StageSound
    <2> QED BY <1>1, <1>3, <2>1 DEF Quiet, r
  <1>4. CASE ~interrupt
    <2>1. Sound(r) /\ r.pending = r.current /\ Quiet(g, r) /\ r.wait = g.wait
      BY <1>1, <1>2, <1>4, HandOffSound
    <2> QED BY <1>1, <1>4, <2>1 DEF Quiet, r
  <1> QED BY <1>3, <1>4

-----------------------------------------------------------------------------
(* The calls, on records.  A thread that no queue holds is renamed.        *)
LEMMA OutsiderSound ==
  ASSUME NEW k, Sound(k), NEW r \in KernelType, NEW i \in Thread,
         k.state[i] \in {"Free", "Dormant"}, NEW s \in {"Free", "Dormant"},
         r.links = k.links, r.readyBits = k.readyBits,
         r.state = [k.state EXCEPT ![i] = s], r.wait = k.wait,
         \A t \in Thread \ {i} : /\ r.priority[t] = k.priority[t]
                                 /\ r.wakeups[t] = k.wakeups[t],
         r.inUse = k.inUse, r.delayed = k.delayed,
         r.current = k.current, r.pending = k.pending
  PROVE  Sound(r)
  <1>1. k \in KernelType /\ Queues(k, PlaceOf(k)) /\ i # k.current /\ i # k.pending
    BY DEF Sound, Queues, Runs
  <1>2. PlaceOf(r) = PlaceOf(k)
    BY <1>1 DEF PlaceOf, KernelType
  <1>3. Threads(r) /\ Delays(r)
    BY <1>1, IdleIsThread DEF Sound, Threads, Delays, KernelType
  <1>4. Runs(r)
    BY <1>1 DEF Sound, Runs, KernelType
  <1>5. BestBut(r, None)
    <2> SUFFICES ASSUME NEW t \in Thread, r.state[t] = "Ready", t # r.pending
                 PROVE  r.priority[r.pending] <= r.priority[t]
      BY DEF BestBut
    <2>1. t # i /\ k.state[t] = "Ready" /\ t # k.pending /\ t # None
      BY <1>1, NoneIsNoThread DEF KernelType
    <2>2. r.pending = k.pending /\ k.pending \in Thread  BY DEF Sound, Runs
    <2> QED BY <1>1, <2>1, <2>2 DEF Sound, BestBut
  <1> QED BY <1>1, <1>2, <1>3, <1>4, <1>5 DEF Sound, Queues

(* A call that only moves threads within their queues.                     *)
LEMMA MovedSound ==
  ASSUME NEW k, Sound(k), NEW r, Queues(r, PlaceOf(k)), Still(k, r),
         r.pending = k.pending
  PROVE  Sound(r)
  <1>1. PlaceOf(r) = PlaceOf(k)  BY DEF PlaceOf, Still, Quiet
  <1> QED BY <1>1 DEF Sound, Still, Quiet, Threads, Delays, Runs, BestBut

(* A thread in no queue is readied and, if it is better, handed over to.   *)
LEMMA ReadyHandOffSound ==
  ASSUME NEW m, NEW i \in Thread, Queues(m, [PlaceOf(m) EXCEPT ![i] = Nowhere]),
         Threads(m), Delays(m), Runs(m), m.pending = m.current, BestBut(m, i),
         i # m.current, m.state[i] \in {"Dormant", "Ready"}
  PROVE  LET r == HandOffIfBetter(MakeReady(m, i), i)
         IN  Sound(r) /\ r.pending = r.current /\ Quiet(m, r)
  <1> DEFINE w == [PlaceOf(m) EXCEPT ![i] = Nowhere]
             g == MakeReady(m, i)
             u == [w EXCEPT ![i] = m.priority[i]]
             r == HandOffIfBetter(g, i)
  <1>1. m \in KernelType /\ PlaceOf(m) \in Places
    BY PlaceTells DEF Queues
  <1>2. w[i] = Nowhere  BY <1>1 DEF Places
  <1> HIDE DEF w
  <1>3. Readies(m, w, i, g)  BY <1>2, MakeReadyQueues DEF w
  <1> HIDE DEF g
  <1>4. /\ Queues(g, u) /\ Quiet(m, g) /\ g.delayed = m.delayed
        /\ g.state = [m.state EXCEPT ![i] = "Ready"] /\ g.wait = m.wait
        /\ g.current = m.current /\ g.pending = m.pending
    <2>1. [m.wait EXCEPT ![i] = "NotWaiting"] = m.wait
      BY <1>1 DEF Threads, KernelType
    <2> QED BY <1>3, <2>1 DEF Readies
  <1>5. PlaceOf(g) = u
    BY <1>1, <1>4 DEF PlaceOf, Quiet, KernelType, w
  <1> HIDE DEF u
  <1>6. Threads(g) /\ Delays(g)
    BY <1>1, <1>4, IdleIsThread DEF Threads, Delays, Quiet, KernelType
  <1>7. Runs(g)
    BY <1>1, <1>4 DEF Runs, KernelType
  <1>8. BestBut(g, i)
    BY <1>1, <1>4 DEF BestBut, Quiet, KernelType
  <1>9. g.state[i] = "Ready"  BY <1>1, <1>4 DEF KernelType
  <1>10. Sound(r) /\ r.pending = r.current /\ Quiet(g, r)
    BY <1>4, <1>5, <1>6, <1>7, <1>8, <1>9, HandOffSound
  <1> HIDE DEF r
  <1> QED BY <1>4, <1>10 DEF Quiet, r, g

LEMMA StartSound ==
  ASSUME NEW k, Sound(k), k.pending = k.current, NEW i \in Thread,
         k.state[i] = "Dormant"
  PROVE  LET primed == [k EXCEPT !.priority[i] = k.initial[i], !.answer[i] = "Ok"]
             r == HandOffIfBetter(MakeReady(primed, i), i)
         IN  Sound(r) /\ r.pending = r.current /\ r.closing = k.closing
  <1> DEFINE m == [k EXCEPT !.priority[i] = k.initial[i], !.answer[i] = "Ok"]
  <1>1. k \in KernelType  BY DEF Sound, Queues
  <1>2. m \in KernelType
    <2>1. [k.priority EXCEPT ![i] = k.initial[i]] \in [Thread -> Priority]
      BY <1>1 DEF KernelType
    <2>2. [k.answer EXCEPT ![i] = "Ok"] \in [Thread -> Answer]
      BY <1>1, StateNames DEF KernelType
    <2> QED BY <1>1, <2>1, <2>2 DEF KernelType
  <1>3. /\ m.links = k.links /\ m.readyBits = k.readyBits
        /\ m.state = k.state /\ m.wait = k.wait
        /\ m.priority = [k.priority EXCEPT ![i] = k.initial[i]]
        /\ m.wakeups = k.wakeups /\ m.inUse = k.inUse /\ m.delayed = k.delayed
        /\ m.current = k.current /\ m.pending = k.pending /\ m.closing = k.closing
    BY <1>1 DEF KernelType
  <1> HIDE DEF m
  <1>4. Sound(m)
    <2>1. k.state = [k.state EXCEPT ![i] = "Dormant"]  BY <1>1 DEF KernelType
    <2>2. \A t \in Thread \ {i} : m.priority[t] = k.priority[t]
      BY <1>1, <1>3 DEF KernelType
    <2>3. m.state = [k.state EXCEPT ![i] = "Dormant"]  BY <1>3, <2>1
    <2>4. k.state[i] \in {"Free", "Dormant"}  OBVIOUS
    <2>5. \A t \in Thread \ {i} : m.wakeups[t] = k.wakeups[t]  BY <1>3
    <2> QED BY <1>2, <1>3, <2>2, <2>3, <2>4, <2>5, OutsiderSound
  <1>5. [PlaceOf(m) EXCEPT ![i] = Nowhere] = PlaceOf(m) /\ i # m.current
    BY <1>1, <1>3, <1>4 DEF PlaceOf, Sound, Runs
  <1>6. BestBut(m, i)  BY <1>4, NoneIsNoThread DEF Sound, BestBut
  <1>7. Queues(m, [PlaceOf(m) EXCEPT ![i] = Nowhere]) /\ Threads(m) /\ Delays(m)
        /\ Runs(m) /\ m.pending = m.current /\ m.state[i] \in {"Dormant", "Ready"}
    BY <1>3, <1>4, <1>5 DEF Sound
  <1> DEFINE r == HandOffIfBetter(MakeReady(m, i), i)
  <1>8. Sound(r) /\ r.pending = r.current /\ Quiet(m, r)
    BY <1>5, <1>6, <1>7, ReadyHandOffSound
  <1> HIDE DEF r
  <1>9. r.closing = k.closing  BY <1>3, <1>8 DEF Quiet
  <1> QED BY <1>8, <1>9 DEF r, m

(* The running thread has blocked or ended, and the best ready one runs.   *)
LEMMA AwaySound ==
  ASSUME NEW m, Queues(m, AtRest(m)), Threads(m), Delays(m),
         m.state[Idle] = "Ready", \A t \in Thread : m.state[t] # "Run",
         m.state[m.current] # "Ready"
  PROVE  LET r == SwitchNow(PickPending(m))
         IN  Sound(r) /\ r.pending = r.current /\ r.closing = m.closing
  <1>1. m \in KernelType  BY DEF Queues
  <1>2. Best(m) \in Thread /\ AtRest(m)[Best(m)] \in Priority
    <2>1. AtRest(m)[Idle] \in Priority  BY <1>1, IdleIsThread, PlaceTells
    <2> QED BY <2>1, IdleIsThread, PickQueues
  <1>3. m.state[Best(m)] = "Ready"  BY <1>1, <1>2, PlaceTells
  <1>4. Best(m) # m.current  BY <1>3
  <1> QED BY <1>4, DispatchSound DEF Quiet

(* The same from a sound scheduler whose running thread is to be in state  *)
(* s, for reason x; the thread is already on the list it waits in, if any. *)
LEMMA LeaveSound ==
  ASSUME NEW k, Sound(k), k.pending = k.current, k.current # Idle,
         NEW m, NEW s \in {"Dormant", "Wait"}, NEW x \in WaitReason,
         s = "Wait" <=> x # "NotWaiting", x \in Object => x \in k.inUse,
         x = "Sleep" => k.wakeups[k.current] = 0,
         Queues(m, [PlaceOf(k) EXCEPT ![k.current] =
                      IF x \in Object THEN x ELSE Nowhere]),
         Quiet(k, m), m.state = [k.state EXCEPT ![k.current] = s],
         m.wait = [k.wait EXCEPT ![k.current] = x],
         m.delayed = IF x = "Delay" THEN k.delayed \cup {k.current} ELSE k.delayed,
         m.current = k.current
  PROVE  LET r == SwitchNow(PickPending(m))
         IN  Sound(r) /\ r.pending = r.current /\ r.closing = k.closing
  <1> DEFINE c == k.current
             v == IF x \in Object THEN x ELSE Nowhere
             r == SwitchNow(PickPending(m))
  <1>1. k \in KernelType /\ c \in Thread /\ k.state[c] = "Run"
    BY DEF Sound, Queues, Runs, KernelType
  <1>2. k.wait[c] = "NotWaiting" /\ c \notin k.delayed
    BY <1>1 DEF Sound, Threads, Delays
  <1>3. \A t \in Thread : m.state[t] # "Run"
    BY <1>1 DEF Sound, Runs, KernelType
  <1>4. AtRest(m) = [PlaceOf(k) EXCEPT ![c] = v]
    <2>1. \A t \in Thread \ {c} :
            /\ m.state[t] = k.state[t] /\ m.wait[t] = k.wait[t]
            /\ m.priority[t] = k.priority[t]
      BY <1>1 DEF KernelType, Quiet
    <2>2. \A t \in Thread \ {c} : AtRest(m)[t] = PlaceOf(k)[t]
      BY <2>1 DEF AtRest, PlaceOf
    <2>3. m.state[c] = s /\ m.wait[c] = x  BY <1>1 DEF KernelType
    <2>4. AtRest(m)[c] = v
      BY <1>1, <2>3, ObjectsApart DEF AtRest
    <2> QED BY <1>1, <2>2, <2>4 DEF AtRest, PlaceOf
  <1>5. m.state[Idle] = "Ready"
    BY <1>1, <1>3, IdleIsThread DEF Sound, Threads, KernelType
  <1>6. Threads(m)
    BY <1>1, <1>5 DEF Sound, Threads, Quiet, KernelType
  <1>7. Delays(m)
    BY <1>1, <1>2 DEF Sound, Delays, KernelType
  <1>8. m.state[m.current] # "Ready"
    BY <1>1 DEF KernelType
  <1>9. Sound(r) /\ r.pending = r.current /\ r.closing = m.closing
    BY <1>3, <1>4, <1>5, <1>6, <1>7, <1>8, AwaySound
  <1> HIDE DEF r
  <1> QED BY <1>9 DEF Quiet, r

(* Thread i has been taken off the queue it was in, and is dormant.        *)
LEMMA EndedSound ==
  ASSUME NEW k, Sound(k), NEW i \in Thread, i # Idle, i # k.current, i # k.pending,
         NEW r, Queues(r, [PlaceOf(k) EXCEPT ![i] = Nowhere]), Quiet(k, r),
         r.state = [k.state EXCEPT ![i] = "Dormant"],
         r.wait = [k.wait EXCEPT ![i] = "NotWaiting"],
         r.delayed = k.delayed \ {i},
         r.current = k.current, r.pending = k.pending
  PROVE  Sound(r)
  <1>1. k \in KernelType  BY DEF Sound, Queues
  <1>2. PlaceOf(r) = [PlaceOf(k) EXCEPT ![i] = Nowhere]
    BY <1>1 DEF PlaceOf, KernelType, Quiet
  <1>3. Threads(r)
    BY <1>1, IdleIsThread, ObjectsApart DEF Sound, Threads, Quiet, KernelType
  <1>4. Delays(r)
    BY <1>1 DEF Sound, Delays, KernelType
  <1>5. Runs(r)
    BY <1>1 DEF Sound, Runs, KernelType
  <1>6. BestBut(r, None)
    BY <1>1 DEF Sound, BestBut, Quiet, KernelType
  <1> QED BY <1>2, <1>3, <1>4, <1>5, <1>6 DEF Sound

LEMMA TerminateSound ==
  ASSUME NEW k, Sound(k), NEW i \in Thread, i # Idle, i # k.current, i # k.pending,
         k.state[i] \notin {"Free", "Dormant"}
  PROVE  LET out == IF k.state[i] = "Ready" THEN TakeOffReady(k, i)
                    ELSE IF k.state[i] = "Wait" THEN LeaveWait(k, i) ELSE k
             r == [out EXCEPT !.pending = IF @ = i THEN k.current ELSE @,
                              !.state[i] = "Dormant"]
         IN  Sound(r) /\ r.current = k.current /\ r.pending = k.pending
             /\ r.closing = k.closing
  <1> DEFINE out == IF k.state[i] = "Ready" THEN TakeOffReady(k, i)
                    ELSE IF k.state[i] = "Wait" THEN LeaveWait(k, i) ELSE k
             r == [out EXCEPT !.pending = IF @ = i THEN k.current ELSE @,
                              !.state[i] = "Dormant"]
             w == PlaceOf(k)
             v == [w EXCEPT ![i] = Nowhere]
  <1>1. k \in KernelType /\ Queues(k, w)  BY DEF Sound, Queues
  <1>2. k.state[i] \in {"Ready", "Wait"}
    BY <1>1 DEF Sound, Runs, KernelType, State
  <1>3. /\ Queues(out, v) /\ Quiet(k, out) /\ out.state = k.state
        /\ out.wait = [k.wait EXCEPT ![i] = "NotWaiting"]
        /\ out.delayed = k.delayed \ {i}
        /\ out.current = k.current /\ out.pending = k.pending
    <2>1. CASE k.state[i] = "Ready"
      <3>1. out = TakeOffReady(k, i)  BY <2>1
      <3>2. w[i] = k.priority[i]  BY <2>1 DEF PlaceOf
      <3> HIDE DEF out, w
      <3>3. Queues(out, v) /\ Still(k, out) /\ out.pending = k.pending
        BY <1>1, <3>1, <3>2, TakeOffReadyQueues
      <3>4. k.wait[i] = "NotWaiting" /\ i \notin k.delayed
        BY <2>1 DEF Sound, Threads, Delays
      <3>5. [k.wait EXCEPT ![i] = "NotWaiting"] = k.wait /\ k.delayed \ {i} = k.delayed
        BY <1>1, <3>4 DEF KernelType
      <3> QED BY <3>3, <3>5 DEF Still
    <2>2. CASE k.state[i] = "Wait"
      <3>1. out = LeaveWait(k, i)  BY <2>2
      <3>2. w[i] = IF k.wait[i] \in k.inUse THEN k.wait[i] ELSE Nowhere
        BY <1>1, <2>2 DEF PlaceOf, Sound, Threads, KernelType
      <3> HIDE DEF out, w
      <3>3. /\ Queues(out, v) /\ Quiet(k, out) /\ out.state = k.state
            /\ out.wait = [k.wait EXCEPT ![i] = "NotWaiting"]
            /\ out.delayed = IF k.wait[i] = "Delay" THEN k.delayed \ {i} ELSE k.delayed
            /\ out.current = k.current /\ out.pending = k.pending
        BY <1>1, <3>1, <3>2, LeaveWaitQueues
      <3>4. k.wait[i] # "Delay" => i \notin k.delayed
        BY DEF Sound, Delays
      <3> QED BY <3>3, <3>4
    <2> QED BY <1>2, <2>1, <2>2
  <1> HIDE DEF out, w
  <1>4. out \in KernelType  BY <1>3 DEF Queues
  <1>5. /\ r.links = out.links /\ r.readyBits = out.readyBits
        /\ Quiet(out, r) /\ r.state = [out.state EXCEPT ![i] = "Dormant"]
        /\ r.wait = out.wait /\ r.delayed = out.delayed
        /\ r.current = out.current /\ r.pending = out.pending
    BY <1>3, <1>4 DEF KernelType, Quiet
  <1>6. r \in KernelType
    <2>1. [out.state EXCEPT ![i] = "Dormant"] \in [Thread -> State]
      BY <1>4, StateNames DEF KernelType
    <2> QED BY <1>3, <1>4, <2>1 DEF KernelType
  <1> HIDE DEF r, v
  <1>7. Queues(r, v)  BY <1>3, <1>5, <1>6 DEF Queues
  <1>8. Quiet(k, r)  BY <1>3, <1>5 DEF Quiet
  <1>9. Sound(r)  BY <1>3, <1>5, <1>7, <1>8, EndedSound DEF v, w
  <1> QED BY <1>3, <1>5, <1>8, <1>9 DEF r, out, Quiet

(* Thread i's new priority, in a record where no ready queue holds it.     *)
LEMMA SetPriority ==
  ASSUME NEW k \in KernelType, NEW i \in Thread, NEW p \in Priority
  PROVE  LET m == [k EXCEPT !.priority[i] = p]
         IN  /\ m \in KernelType /\ m.links = k.links /\ m.readyBits = k.readyBits
             /\ m.state = k.state /\ m.wait = k.wait
             /\ m.priority = [k.priority EXCEPT ![i] = p]
             /\ m.wakeups = k.wakeups /\ m.inUse = k.inUse
             /\ m.delayed = k.delayed /\ m.closing = k.closing
             /\ m.current = k.current /\ m.pending = k.pending
  <1>1. [k.priority EXCEPT ![i] = p] \in [Thread -> Priority]  BY DEF KernelType
  <1> QED BY <1>1 DEF KernelType

LEMMA TakenOffSetPriority ==
  ASSUME NEW k, Sound(k), NEW i \in Thread, i # k.pending, k.state[i] = "Ready",
         NEW p \in Priority
  PROVE  LET m == [TakeOffReady(k, i) EXCEPT !.priority[i] = p]
         IN  /\ Queues(m, [PlaceOf(m) EXCEPT ![i] = Nowhere])
             /\ Threads(m) /\ Delays(m) /\ Runs(m) /\ BestBut(m, i)
             /\ m.priority = [k.priority EXCEPT ![i] = p]
             /\ m.state = k.state /\ m.wait = k.wait /\ m.wakeups = k.wakeups
             /\ m.inUse = k.inUse /\ m.delayed = k.delayed /\ m.closing = k.closing
             /\ m.current = k.current /\ m.pending = k.pending
  <1> DEFINE e == TakeOffReady(k, i)
             m == [e EXCEPT !.priority[i] = p]
             v == [PlaceOf(k) EXCEPT ![i] = Nowhere]
  <1>1. k \in KernelType /\ Queues(k, PlaceOf(k))  BY DEF Sound, Queues
  <1>2. PlaceOf(k)[i] = k.priority[i]  BY DEF PlaceOf
  <1>3. Queues(e, v) /\ Still(k, e) /\ e.pending = k.pending
    BY <1>1, <1>2, TakeOffReadyQueues
  <1> HIDE DEF e
  <1>4. e \in KernelType  BY <1>3 DEF Queues
  <1>5. /\ m \in KernelType /\ m.links = e.links /\ m.readyBits = e.readyBits
        /\ m.state = e.state /\ m.wait = e.wait
        /\ m.priority = [e.priority EXCEPT ![i] = p]
        /\ m.wakeups = e.wakeups /\ m.inUse = e.inUse
        /\ m.delayed = e.delayed /\ m.closing = e.closing
        /\ m.current = e.current /\ m.pending = e.pending
    BY <1>4, SetPriority
  <1> HIDE DEF m
  <1>6. /\ m.priority = [k.priority EXCEPT ![i] = p]
        /\ m.state = k.state /\ m.wait = k.wait /\ m.wakeups = k.wakeups
        /\ m.inUse = k.inUse /\ m.delayed = k.delayed /\ m.closing = k.closing
        /\ m.current = k.current /\ m.pending = k.pending
    BY <1>3, <1>5 DEF Still, Quiet
  <1>7. [PlaceOf(m) EXCEPT ![i] = Nowhere] = v
    BY <1>1, <1>6 DEF PlaceOf, KernelType
  <1>8. Queues(m, v)
    <2> HIDE DEF v
    <2> QED BY <1>3, <1>5 DEF Queues
  <1>9. Threads(m) /\ Delays(m) /\ Runs(m)
    BY <1>6 DEF Sound, Threads, Delays, Runs
  <1>10. BestBut(m, i)
    <2> SUFFICES ASSUME NEW t \in Thread, m.state[t] = "Ready", t # m.pending, t # i
                 PROVE  m.priority[m.pending] <= m.priority[t]
      BY DEF BestBut
    <2>1. k.pending \in Thread  BY DEF Sound, Runs
    <2>2. m.priority[m.pending] = k.priority[k.pending] /\ m.priority[t] = k.priority[t]
      BY <1>1, <1>6, <2>1 DEF KernelType
    <2> QED BY <1>6, <2>2, NoneIsNoThread DEF Sound, BestBut
  <1> HIDE DEF v
  <1> QED BY <1>6, <1>7, <1>8, <1>9, <1>10 DEF m, e

(* changeThreadPriority of a ready thread.                                 *)
LEMMA RequeueHandOffSound ==
  ASSUME NEW k, Sound(k), k.pending = k.current, NEW i \in Thread,
         k.state[i] = "Ready", NEW p \in Priority
  PROVE  LET r == HandOffIfBetter(
                    MakeReady([TakeOffReady(k, i) EXCEPT !.priority[i] = p], i), i)
         IN  Sound(r) /\ r.pending = r.current /\ r.closing = k.closing
  <1> DEFINE m == [TakeOffReady(k, i) EXCEPT !.priority[i] = p]
             r == HandOffIfBetter(MakeReady(m, i), i)
  <1>1. i # k.current /\ i # k.pending  BY DEF Sound, Runs
  <1>2. /\ Queues(m, [PlaceOf(m) EXCEPT ![i] = Nowhere])
        /\ Threads(m) /\ Delays(m) /\ Runs(m) /\ BestBut(m, i)
        /\ m.state = k.state /\ m.closing = k.closing
        /\ m.current = k.current /\ m.pending = k.pending
    BY <1>1, TakenOffSetPriority
  <1> HIDE DEF m
  <1>3. Sound(r) /\ r.pending = r.current /\ Quiet(m, r)
    BY <1>1, <1>2, ReadyHandOffSound
  <1> HIDE DEF r
  <1>4. r.closing = k.closing  BY <1>2, <1>3 DEF Quiet
  <1> QED BY <1>3, <1>4 DEF r, m

(* iChangeThreadPriority of a ready thread, to no better than the one to   *)
(* run.                                                                    *)
LEMMA RequeueSound ==
  ASSUME NEW k, Sound(k), NEW i \in Thread, i # k.current, i # k.pending,
         k.state[i] = "Ready", NEW p \in Priority, p >= k.priority[k.pending]
  PROVE  LET r == MakeReady([TakeOffReady(k, i) EXCEPT !.priority[i] = p], i)
         IN  /\ Sound(r) /\ r.pending = k.pending /\ r.current = k.current
             /\ r.closing = k.closing
  <1> DEFINE m == [TakeOffReady(k, i) EXCEPT !.priority[i] = p]
             w == [PlaceOf(m) EXCEPT ![i] = Nowhere]
             r == MakeReady(m, i)
  <1>1. /\ Queues(m, w)
        /\ Threads(m) /\ Delays(m) /\ Runs(m) /\ BestBut(m, i)
        /\ m.priority = [k.priority EXCEPT ![i] = p]
        /\ m.state = k.state /\ m.wait = k.wait /\ m.wakeups = k.wakeups
        /\ m.inUse = k.inUse /\ m.delayed = k.delayed /\ m.closing = k.closing
        /\ m.current = k.current /\ m.pending = k.pending
    BY TakenOffSetPriority
  <1> HIDE DEF m
  <1>2. m \in KernelType /\ k \in KernelType  BY <1>1 DEF Queues, Sound
  <1>3. w[i] = Nowhere  BY DEF PlaceOf
  <1> HIDE DEF w
  <1>4. Readies(m, w, i, r)  BY <1>1, <1>3, MakeReadyQueues
  <1> HIDE DEF r
  <1>5. m.wait[i] = "NotWaiting"  BY <1>1 DEF Threads
  <1>6. r.wait = m.wait /\ r.state = m.state
    BY <1>1, <1>2, <1>4, <1>5 DEF Readies, KernelType
  <1>7. Quiet(m, r) /\ r.delayed = m.delayed /\ r.current = m.current
        /\ r.pending = m.pending /\ Queues(r, [w EXCEPT ![i] = m.priority[i]])
    BY <1>4 DEF Readies
  <1>8. [w EXCEPT ![i] = m.priority[i]] = PlaceOf(r)
    BY <1>1, <1>2, <1>6, <1>7 DEF w, PlaceOf, Quiet
  <1>9. Threads(r) /\ Delays(r) /\ Runs(r)
    BY <1>1, <1>6, <1>7 DEF Threads, Delays, Runs, Quiet
  <1>10. BestBut(r, None)
    <2>1. m.priority[m.pending] = k.priority[k.pending] /\ m.priority[i] = p
      BY <1>1, <1>2 DEF KernelType, Runs
    <2>2. k.priority[k.pending] \in Int /\ p \in Int
      BY <1>1, <1>2, QueueAssumption DEF KernelType, Priority, Runs
    <2>3. m.priority[m.pending] <= m.priority[i]  BY <2>1, <2>2
    <2> QED BY <1>1, <1>6, <1>7, <2>3 DEF BestBut, Quiet
  <1> QED BY <1>1, <1>7, <1>8, <1>9, <1>10 DEF Sound, Quiet, r, m

(* Either form, of a thread that waits.                                    *)
LEMMA WaiterPrioritySound ==
  ASSUME NEW k, Sound(k), NEW i \in Thread, k.state[i] = "Wait", NEW p \in Priority
  PROVE  LET r == [k EXCEPT !.priority[i] = p]
         IN  /\ Sound(r) /\ r.pending = k.pending /\ r.current = k.current
             /\ r.closing = k.closing
  <1> DEFINE r == [k EXCEPT !.priority[i] = p]
  <1>1. k \in KernelType /\ i # k.pending /\ k.pending \in Thread
    BY DEF Sound, Queues, Runs
  <1>2. /\ r \in KernelType /\ r.links = k.links /\ r.readyBits = k.readyBits
        /\ r.state = k.state /\ r.wait = k.wait
        /\ r.priority = [k.priority EXCEPT ![i] = p]
        /\ r.wakeups = k.wakeups /\ r.inUse = k.inUse
        /\ r.delayed = k.delayed /\ r.closing = k.closing
        /\ r.current = k.current /\ r.pending = k.pending
    BY <1>1, SetPriority
  <1> HIDE DEF r
  <1>3. PlaceOf(r) = PlaceOf(k)  BY <1>1, <1>2 DEF PlaceOf, KernelType
  <1>4. Queues(r, PlaceOf(r))
    <2>1. Queues(k, PlaceOf(k))  BY DEF Sound
    <2> QED BY <1>2, <1>3, <2>1 DEF Queues
  <1>5. Threads(r) /\ Delays(r) /\ Runs(r)
    BY <1>2 DEF Sound, Threads, Delays, Runs
  <1>6. BestBut(r, None)
    BY <1>1, <1>2 DEF Sound, BestBut, KernelType
  <1> QED BY <1>2, <1>4, <1>5, <1>6 DEF Sound, r

(* changeThreadPriority of the caller itself: it gives way to the best     *)
(* ready thread if that is better now, and otherwise that thread goes      *)
(* behind its peers.                                                       *)
LEMMA OwnPrioritySound ==
  ASSUME NEW k, Sound(k), k.pending = k.current, k.current # Idle, NEW p \in Priority
  PROVE  LET i == k.current
             m == [k EXCEPT !.priority[i] = p]
             b == Best(m)
             r == IF m.priority[b] < p
                  THEN SwitchNow([MakeReady(Picked(m), i) EXCEPT !.pending = b])
                  ELSE MakeReady(Picked(m), b)
         IN  /\ b # None
             /\ Sound(r) /\ r.pending = r.current /\ r.closing = k.closing
  <1> DEFINE i == k.current
             m == [k EXCEPT !.priority[i] = p]
             w == PlaceOf(m)
             b == Best(m)
             e == Picked(m)
             v == [w EXCEPT ![b] = Nowhere]
  <1>1. k \in KernelType /\ i \in Thread /\ k.state[i] = "Run"
    BY DEF Sound, Queues, Runs, KernelType
  <1>2. /\ m \in KernelType /\ m.links = k.links /\ m.readyBits = k.readyBits
        /\ m.state = k.state /\ m.wait = k.wait
        /\ m.priority = [k.priority EXCEPT ![i] = p]
        /\ m.wakeups = k.wakeups /\ m.inUse = k.inUse
        /\ m.delayed = k.delayed /\ m.closing = k.closing
        /\ m.current = k.current /\ m.pending = k.pending
    BY <1>1, SetPriority
  <1> HIDE DEF m
  <1>3. w = PlaceOf(k)  BY <1>1, <1>2 DEF PlaceOf, KernelType
  <1>4. Queues(m, w)
    <2>1. Queues(k, PlaceOf(k))  BY DEF Sound
    <2> HIDE DEF w
    <2> QED BY <1>2, <1>3, <2>1 DEF Queues
  <1>5. Threads(m) /\ Delays(m) /\ Runs(m)
    BY <1>2 DEF Sound, Threads, Delays, Runs
  <1>6. w[Idle] \in Priority
    <2>1. m.state[Idle] = "Ready" /\ Idle # m.pending
      BY <1>2, <1>5, IdleIsThread DEF Threads, Runs
    <2> QED BY <1>2, <2>1, IdleIsThread, PlaceTells
  <1>7. /\ b \in Thread /\ w[b] \in Priority
        /\ \A t \in Thread : w[t] \in Priority => w[b] <= w[t]
        /\ Queues(e, v) /\ Still(m, e) /\ e.pending = m.pending
    BY <1>4, <1>6, IdleIsThread, PickQueues
  <1>8. /\ w[b] = m.priority[b] /\ m.state[b] = "Ready" /\ b # i
        /\ \A t \in Thread : m.state[t] = "Ready" /\ t # i
             => m.priority[b] <= m.priority[t]
    <2>1. \A t \in Thread :
            /\ w[t] \in Priority <=> m.state[t] = "Ready" /\ t # i
            /\ w[t] \in Priority => w[t] = m.priority[t]
      <3>1. m.pending = i  BY <1>2
      <3>2. \A t \in Thread :
              /\ w[t] \in Priority <=> m.state[t] = "Ready" /\ t # m.pending
              /\ w[t] \in Priority => w[t] = m.priority[t]
        BY <1>2, PlaceTells
      <3> QED BY <3>1, <3>2
    <2> HIDE DEF w, b, e
    <2> QED BY <1>7, <2>1
  <1>9. b # None  BY <1>7, NoneIsNoThread
  <1>10. m.priority[i] = p /\ m.priority[b] \in Int /\ p \in Int
    BY <1>1, <1>2, <1>7, QueueAssumption DEF KernelType, Priority
  <1> HIDE DEF b, e
  <1>11. CASE m.priority[b] < p
    <2> DEFINE g == MakeReady(e, i)
               f == [g EXCEPT !.pending = b]
               r == SwitchNow(f)
               u == [v EXCEPT ![i] = p]
    <2>1. v[i] = Nowhere /\ e.priority[i] = p
      <3>1. w[i] = Nowhere  BY <1>1, <1>2 DEF PlaceOf
      <3> QED BY <1>1, <1>2, <1>7, <1>8, <1>10, <3>1, PlaceTells DEF Still, Quiet, Places
    <2> HIDE DEF v
    <2>2. Readies(e, v, i, g)  BY <1>1, <1>7, <2>1, MakeReadyQueues
    <2> HIDE DEF g
    <2>3. Queues(g, u) /\ Quiet(e, g)
          /\ g.state = [e.state EXCEPT ![i] = "Ready"]
          /\ g.wait = [e.wait EXCEPT ![i] = "NotWaiting"]
          /\ g.delayed = e.delayed /\ g.current = e.current
      BY <2>1, <2>2 DEF Readies
    <2>4. /\ f \in KernelType /\ f.links = g.links /\ f.readyBits = g.readyBits
          /\ Still(g, f) /\ f.pending = b
      <3>1. g \in KernelType  BY <2>3 DEF Queues
      <3> QED BY <1>7, <3>1 DEF KernelType, Still, Quiet, Index
    <2> HIDE DEF f, u
    <2>5. Queues(f, u)  BY <2>3, <2>4 DEF Queues
    <2>6. f.pending # f.current
      BY <1>2, <1>7, <1>8, <2>3, <2>4 DEF Still
    <2>7. /\ Queues(r, u) /\ Quiet(f, r)
          /\ r.state = [f.state EXCEPT ![f.pending] = "Run"]
          /\ r.wait = f.wait /\ r.delayed = f.delayed
          /\ r.current = f.pending /\ r.pending = f.pending
      BY <1>7, <2>4, <2>5, <2>6, SwitchQueues
    <2> HIDE DEF r
    <2>8. m.wait[i] = "NotWaiting"  BY <1>1, <1>2, <1>5 DEF Threads
    <2>9. [m.wait EXCEPT ![i] = "NotWaiting"] = m.wait
      BY <1>2, <2>8 DEF KernelType
    <2>10. /\ Quiet(m, r) /\ r.wait = m.wait /\ r.delayed = m.delayed
           /\ r.state = [[m.state EXCEPT ![i] = "Ready"] EXCEPT ![b] = "Run"]
           /\ r.current = b /\ r.pending = b
      BY <1>7, <2>3, <2>4, <2>7, <2>9 DEF Still, Quiet
    <2>11. PlaceOf(r) = u
      <3>1. \A t \in Thread \ {i, b} : r.state[t] = m.state[t]
        BY <1>2, <2>10 DEF KernelType
      <3>2. r.state[i] = "Ready" /\ r.state[b] = "Run"
        BY <1>1, <1>2, <1>7, <1>8, <2>10 DEF KernelType
      <3>3. r.priority = m.priority /\ r.wait = m.wait /\ r.pending = b
        BY <2>10 DEF Quiet
      <3>4. \A t \in Thread \ {i, b} : PlaceOf(r)[t] = w[t]
        BY <1>2, <1>8, <3>1, <3>3 DEF PlaceOf
      <3>5. PlaceOf(r)[i] = p /\ PlaceOf(r)[b] = Nowhere
        BY <1>1, <1>7, <1>8, <1>10, <3>2, <3>3 DEF PlaceOf
      <3>6. w \in Places /\ PlaceOf(r) \in Places
        <4>1. r \in KernelType  BY <2>7 DEF Queues
        <4> QED BY <1>2, <4>1, PlaceTells
      <3> DEFINE y == PlaceOf(r)
      <3>7. \A t \in Thread \ {i, b} : y[t] = w[t]  BY <3>4
      <3>8. y[i] = p /\ y[b] = Nowhere /\ y \in Places  BY <3>5, <3>6
      <3> HIDE DEF w, y
      <3> QED BY <1>1, <1>7, <1>8, <3>6, <3>7, <3>8 DEF Places, u, v, y
    <2>12. Threads(r) /\ Delays(r)
      BY <1>1, <1>2, <1>5, <1>8, <2>8, <2>10, IdleIsThread
      DEF Threads, Delays, Quiet, KernelType
    <2>13. Runs(r)
      BY <1>1, <1>2, <1>5, <1>7, <1>8, <2>10 DEF Runs, KernelType
    <2>14. BestBut(r, None)
      BY <1>1, <1>2, <1>8, <1>10, <1>11, <2>10 DEF BestBut, Quiet, KernelType
    <2>15. Sound(r) /\ r.pending = r.current /\ r.closing = k.closing
      BY <1>2, <2>7, <2>10, <2>11, <2>12, <2>13, <2>14 DEF Sound, Quiet
    <2> QED BY <1>9, <1>11, <2>15 DEF r, f, g, e, b, m
  <1>12. CASE ~(m.priority[b] < p)
    <2> DEFINE r == MakeReady(e, b)
    <2>1. BestBut(m, None)
      <3>1. \A t \in Thread : m.priority[t] \in Int
        BY <1>2, QueueAssumption DEF KernelType, Priority
      <3> HIDE DEF w, v
      <3> QED BY <1>2, <1>8, <1>10, <1>12, <3>1 DEF BestBut
    <2>2. Sound(m)  BY <1>4, <1>5, <2>1 DEF Sound
    <2>3. v[b] = Nowhere /\ [v EXCEPT ![b] = m.priority[b]] = w
      <3>1. w \in Places  BY <1>2, PlaceTells
      <3> HIDE DEF w
      <3> QED BY <1>7, <1>8, <3>1 DEF Places
    <2> HIDE DEF v, w
    <2>4. Readies(e, v, b, r)  BY <1>7, <2>3, MakeReadyQueues
    <2> HIDE DEF r
    <2>5. e.priority = m.priority /\ e.state = m.state /\ e.wait = m.wait
      BY <1>7 DEF Still, Quiet
    <2>6. [m.wait EXCEPT ![b] = "NotWaiting"] = m.wait
          /\ [m.state EXCEPT ![b] = "Ready"] = m.state
      <3>1. m.wait[b] = "NotWaiting"  BY <1>5, <1>7, <1>8 DEF Threads
      <3> QED BY <1>2, <1>8, <3>1 DEF KernelType
    <2>7. Queues(r, w) /\ Still(m, r) /\ r.pending = m.pending
      BY <1>7, <2>3, <2>4, <2>5, <2>6 DEF Readies, Still, Quiet
    <2>8. Sound(r)  BY <2>2, <2>7, MovedSound DEF w
    <2>9. r.pending = r.current /\ r.closing = k.closing
      BY <1>2, <2>7 DEF Still, Quiet
    <2> QED BY <1>9, <1>12, <2>8, <2>9 DEF r, e, b, m
  <1> QED BY <1>11, <1>12

(* The head of a ready queue goes behind its peers.                        *)
LEMMA HeadToTailSound ==
  ASSUME NEW k, Sound(k), NEW p \in Priority
  PROVE  LET r == HeadToTail(k, p)
         IN  /\ Sound(r) /\ r.pending = k.pending /\ r.current = k.current
             /\ r.closing = k.closing
  <1> DEFINE h == k.links.head[p]
             w == PlaceOf(k)
             v == [w EXCEPT ![h] = Nowhere]
             a == Unlink(k.links, p, h)
             l == Enqueue(a, p, h)
             r == HeadToTail(k, p)
  <1>1. /\ k \in KernelType /\ Queues(k, w) /\ p \in Queue
        /\ k.links \in Links /\ w \in Places
    BY QueueKinds DEF Sound, Queues, KernelType
  <1>2. CASE h = None
    BY <1>2 DEF HeadToTail
  <1>3. CASE h # None
    <2>1. h \in Thread /\ w[h] = p
      BY <1>1, <1>3 DEF Queues, LinkedAs, Links, Index
    <2>2. a \in Links /\ LinkedAs(a, v) /\ Ranked(a)
      BY <1>1, <2>1, UnlinkType, UnlinkLinked, UnlinkRanked DEF Queues
    <2>3. v \in Places /\ v[h] = Nowhere /\ [v EXCEPT ![h] = p] = w
      BY <1>1, <2>1 DEF Places
    <2>4. \A x \in Priority \ {p} : a.head[x] = k.links.head[x]
      BY <1>1, QueueKinds DEF Unlink, Links
    <2> HIDE DEF a, v
    <2>5. l \in Links /\ LinkedAs(l, w) /\ Ranked(l)
      BY <1>1, <2>1, <2>2, <2>3, EnqueueType, EnqueueLinked, EnqueueRanked
    <2>6. a.tail[p] = None <=> a.head[p] = None
      BY <1>1, <2>2 DEF LinkedAs
    <2>7. /\ l.head[p] # None
          /\ \A x \in Priority \ {p} : l.head[x] = a.head[x]
      BY <1>1, <2>1, <2>2, <2>6, QueueKinds, NoneIsNoThread DEF Enqueue, Links
    <2>8. r = [k EXCEPT !.links = l]
      BY <1>3 DEF HeadToTail, PopFront, l, a
    <2> HIDE DEF l, h
    <2>9. /\ r \in KernelType /\ r.links = l /\ r.readyBits = k.readyBits
          /\ Still(k, r) /\ r.pending = k.pending
      BY <1>1, <2>5, <2>8 DEF KernelType, Still, Quiet
    <2> HIDE DEF r, w
    <2>10. Queues(r, w)
      <3>1. p \in k.readyBits  BY <1>1, <1>3 DEF Queues, h
      <3> QED BY <1>1, <2>4, <2>5, <2>7, <2>9, <3>1 DEF Queues
    <2>11. Sound(r)  BY <2>9, <2>10, MovedSound DEF w
    <2> QED BY <2>9, <2>11 DEF Still, Quiet, r
  <1> QED BY <1>2, <1>3

(* rotateThreadReadyQueue of the caller's own priority: the caller goes    *)
(* behind its peers, of which there is one, so it does not pick itself.    *)
LEMMA YieldSound ==
  ASSUME NEW k, Sound(k), k.pending = k.current, k.current # Idle,
         k.links.head[k.priority[k.current]] # None
  PROVE  LET r == SwitchNow(PickPending(MakeReady(k, k.current)))
         IN  Sound(r) /\ r.pending = r.current /\ r.closing = k.closing
  <1> DEFINE c == k.current
             p == k.priority[c]
             w == PlaceOf(k)
             m == MakeReady(k, c)
             u == [w EXCEPT ![c] = p]
             h == k.links.head[p]
  <1>1. /\ k \in KernelType /\ Queues(k, w) /\ c \in Thread /\ k.state[c] = "Run"
        /\ p \in Priority /\ p \in Queue /\ k.links \in Links
    BY QueueKinds DEF Sound, Queues, Runs, KernelType
  <1>2. w[c] = Nowhere /\ k.wait[c] = "NotWaiting"
    BY <1>1 DEF PlaceOf, Sound, Threads
  <1>3. Readies(k, w, c, m)  BY <1>1, <1>2, MakeReadyQueues
  <1>4. m.links = Enqueue(k.links, p, c)
    <2> DEFINE l == Enqueue(k.links, p, c)
    <2>1. l \in Links /\ m = Readied(k, c, l)  BY <1>1, EnqueueType DEF MakeReady
    <2> HIDE DEF l, m
    <2>2. m.links = l  BY <1>1, <2>1 DEF Readied, KernelType
    <2> QED BY <2>2 DEF l
  <1> HIDE DEF m
  <1>5. /\ Queues(m, u) /\ Quiet(k, m) /\ m.delayed = k.delayed
        /\ m.state = [k.state EXCEPT ![c] = "Ready"] /\ m.wait = k.wait
        /\ m.current = c
    <2>1. [k.wait EXCEPT ![c] = "NotWaiting"] = k.wait
      BY <1>1, <1>2 DEF KernelType
    <2> QED BY <1>3, <2>1 DEF Readies
  <1>6. AtRest(m) = u
    BY <1>1, <1>5 DEF AtRest, PlaceOf, Quiet, KernelType
  <1>7. m.state[Idle] = "Ready" /\ \A t \in Thread : m.state[t] # "Run"
    BY <1>1, <1>5, IdleIsThread DEF Sound, Threads, Runs, KernelType
  <1>8. Threads(m) /\ Delays(m)
    BY <1>1, <1>2, <1>5, <1>7 DEF Sound, Threads, Delays, Quiet, KernelType
  <1>9. Best(m) # c
    <2>1. h \in Thread /\ w[h] = p /\ h # c
      <3>1. h \in Thread  BY <1>1 DEF Links, Index
      <3>2. w[h] = p  BY <1>1 DEF Queues, LinkedAs
      <3> QED BY <1>1, <1>2, <3>1, <3>2, ObjectsApart
    <2>2. k.links.tail[p] # None  BY <1>1, <2>1, NoneIsNoThread DEF Queues, LinkedAs
    <2>3. m.links.head[p] = h  BY <1>1, <1>4, <2>2 DEF Enqueue, Links
    <2>4. u[c] = p  BY <1>1 DEF PlaceOf
    <2>5. Best(m) = m.links.head[u[Best(m)]]
      <3> HIDE DEF u
      <3> QED BY <1>1, <1>5, <2>4, PickQueues
    <2> QED BY <2>1, <2>3, <2>4, <2>5
  <1> DEFINE r == SwitchNow(PickPending(m))
  <1>10. Sound(r) /\ r.pending = r.current /\ Quiet(m, r)
    <2> HIDE DEF u
    <2> QED BY <1>5, <1>6, <1>7, <1>8, <1>9, DispatchSound
  <1> HIDE DEF r
  <1>11. r.closing = k.closing  BY <1>5, <1>10 DEF Quiet
  <1> QED BY <1>10, <1>11 DEF r, m

(* An interrupt's exit switches to the staged thread, if one is.           *)
LEMMA RescheduleSound ==
  ASSUME NEW k, Sound(k)
  PROVE  LET r == Reschedule(k)
         IN  Sound(r) /\ r.pending = r.current /\ r.closing = k.closing
  <1> DEFINE h == k.pending
             r == Reschedule(k)
             w == PlaceOf(k)
  <1>1. CASE h = k.current  BY <1>1 DEF Reschedule
  <1>2. CASE h # k.current
    <2>1. /\ k \in KernelType /\ Queues(k, w) /\ h \in Thread
          /\ k.state[h] = "Ready" /\ \A t \in Thread : k.state[t] # "Run"
      BY <1>2 DEF Sound, Queues, Runs
    <2>2. /\ Queues(r, w) /\ Quiet(k, r)
          /\ r.state = [k.state EXCEPT ![h] = "Run"]
          /\ r.wait = k.wait /\ r.delayed = k.delayed
          /\ r.current = h /\ r.pending = h
      <3> HIDE DEF w
      <3> QED BY <1>2, <2>1, SwitchQueues
    <2> HIDE DEF r
    <2>3. PlaceOf(r) = w
      BY <2>1, <2>2 DEF PlaceOf, Quiet, KernelType
    <2>4. Threads(r) /\ Delays(r)
      BY <2>1, <2>2, IdleIsThread DEF Sound, Threads, Delays, Quiet, KernelType
    <2>5. Runs(r)  BY <2>1, <2>2 DEF Runs, KernelType
    <2>6. BestBut(r, None)
      BY <2>1, <2>2 DEF Sound, BestBut, Quiet, KernelType
    <2>7. Sound(r) /\ r.pending = r.current /\ r.closing = k.closing
      BY <2>2, <2>3, <2>4, <2>5, <2>6 DEF Sound, Quiet
    <2> QED BY <2>7 DEF r
  <1> QED BY <1>1, <1>2

(* createThread: the slot's links are cleared, and were.                   *)
Fresh(k, i, p) ==
    [k EXCEPT !.state[i] = "Dormant", !.wait[i] = "NotWaiting",
              !.initial[i] = p, !.priority[i] = p, !.wakeups[i] = 0,
              !.links.next[i] = None, !.links.prev[i] = None]

LEMMA CreateSound ==
  ASSUME NEW k, Sound(k), NEW i \in Thread, k.state[i] = "Free", NEW p \in Priority
  PROVE  LET r == Fresh(k, i, p)
         IN  /\ Sound(r) /\ r.pending = k.pending /\ r.current = k.current
             /\ r.closing = k.closing
  <1> DEFINE r == [k EXCEPT !.state[i] = "Dormant", !.wait[i] = "NotWaiting",
                       !.initial[i] = p, !.priority[i] = p, !.wakeups[i] = 0,
                       !.links.next[i] = None, !.links.prev[i] = None]
             l == [k.links EXCEPT !.next[i] = None, !.prev[i] = None]
  <1>1. k \in KernelType /\ k.links \in Links
    BY DEF Sound, Queues, KernelType
  <1>2. l = k.links
    <2>1. PlaceOf(k)[i] = Nowhere  BY DEF PlaceOf
    <2>2. k.links.next[i] = None /\ k.links.prev[i] = None
      BY <2>1 DEF Sound, Queues, LinkedAs
    <2> QED BY <1>1, <2>2 DEF Links
  <1>3. k.wait = [k.wait EXCEPT ![i] = "NotWaiting"]
    <2>1. k.wait[i] = "NotWaiting"  BY DEF Sound, Threads
    <2> QED BY <1>1, <2>1 DEF KernelType
  <1>4. /\ r.links = l /\ r.readyBits = k.readyBits
        /\ r.state = [k.state EXCEPT ![i] = "Dormant"]
        /\ r.wait = [k.wait EXCEPT ![i] = "NotWaiting"]
        /\ r.priority = [k.priority EXCEPT ![i] = p]
        /\ r.wakeups = [k.wakeups EXCEPT ![i] = 0]
        /\ r.inUse = k.inUse /\ r.delayed = k.delayed /\ r.closing = k.closing
        /\ r.current = k.current /\ r.pending = k.pending
    BY <1>1 DEF KernelType
  <1>5. r \in KernelType
    <2>1. [k.priority EXCEPT ![i] = p] \in [Thread -> Priority]
          /\ [k.initial EXCEPT ![i] = p] \in [Thread -> Priority]
      BY <1>1 DEF KernelType
    <2>2. [k.wakeups EXCEPT ![i] = 0] \in [Thread -> 0 .. MaxWakeups]
      BY <1>1, SchedulerAssumption DEF KernelType
    <2>3. [k.state EXCEPT ![i] = "Dormant"] \in [Thread -> State]
      BY <1>1, StateNames DEF KernelType
    <2>4. l \in Links /\ [k.wait EXCEPT ![i] = "NotWaiting"] \in [Thread -> WaitReason]
      BY <1>1, <1>2, <1>3 DEF KernelType
    <2> DEFINE e == [k EXCEPT !.state[i] = "Dormant", !.wait[i] = "NotWaiting",
                       !.initial[i] = p, !.priority[i] = p, !.wakeups[i] = 0]
    <2>5. e \in KernelType /\ e.links = k.links
      BY <1>1, <2>1, <2>2, <2>3, <2>4 DEF KernelType
    <2>6. r = [e EXCEPT !.links.next[i] = None, !.links.prev[i] = None]
      OBVIOUS
    <2> HIDE DEF e, r
    <2>7. /\ e.links \in Links
          /\ [e.links EXCEPT !.next[i] = None, !.prev[i] = None] \in Links
      BY <1>1, <2>4, <2>5
    <2>8. [e EXCEPT !.links.next[i] = None, !.links.prev[i] = None] \in KernelType
      BY <2>5, <2>7 DEF KernelType
    <2> QED BY <2>6, <2>8
  <1> HIDE DEF r, l
  <1>6. \A t \in Thread \ {i} : r.priority[t] = k.priority[t] /\ r.wakeups[t] = k.wakeups[t]
    BY <1>1, <1>4 DEF KernelType
  <1>7. Sound(r)
    <2>1. r.links = k.links /\ r.wait = k.wait  BY <1>2, <1>3, <1>4
    <2>2. k.state[i] \in {"Free", "Dormant"}  OBVIOUS
    <2>3. r.readyBits = k.readyBits /\ r.inUse = k.inUse /\ r.delayed = k.delayed
          /\ r.current = k.current /\ r.pending = k.pending
          /\ r.state = [k.state EXCEPT ![i] = "Dormant"]
      BY <1>4
    <2> QED BY <1>5, <1>6, <2>1, <2>2, <2>3, OutsiderSound
  <1> QED BY <1>4, <1>7 DEF r, Fresh

(* The count of wakeups owed to thread i is set to n.                      *)
LEMMA CountSound ==
  ASSUME NEW k, Sound(k), NEW i \in Thread, NEW n \in 0 .. MaxWakeups,
         n = 0 \/ k.wait[i] # "Sleep"
  PROVE  LET r == [k EXCEPT !.wakeups[i] = n]
         IN  /\ Sound(r) /\ r.pending = k.pending /\ r.current = k.current
             /\ r.closing = k.closing
  <1> DEFINE r == [k EXCEPT !.wakeups[i] = n]
  <1>1. k \in KernelType /\ Queues(k, PlaceOf(k))  BY DEF Sound, Queues
  <1>2. [k.wakeups EXCEPT ![i] = n] \in [Thread -> 0 .. MaxWakeups]
    BY <1>1 DEF KernelType
  <1>3. /\ r \in KernelType /\ r.links = k.links /\ r.readyBits = k.readyBits
        /\ r.state = k.state /\ r.wait = k.wait /\ r.priority = k.priority
        /\ r.wakeups = [k.wakeups EXCEPT ![i] = n] /\ r.inUse = k.inUse
        /\ r.delayed = k.delayed /\ r.closing = k.closing
        /\ r.current = k.current /\ r.pending = k.pending
    BY <1>1, <1>2 DEF KernelType
  <1> HIDE DEF r
  <1>4. PlaceOf(r) = PlaceOf(k)  BY <1>3 DEF PlaceOf
  <1>5. Queues(r, PlaceOf(r))  BY <1>1, <1>3, <1>4 DEF Queues
  <1>6. Threads(r)  BY <1>1, <1>3 DEF Sound, Threads, KernelType
  <1>7. Delays(r) /\ Runs(r) /\ BestBut(r, None)
    BY <1>3 DEF Sound, Delays, Runs, BestBut
  <1> QED BY <1>3, <1>5, <1>6, <1>7 DEF Sound, r

LEMMA DeleteSound ==
  ASSUME NEW k, Sound(k), NEW i \in Thread, k.state[i] = "Dormant"
  PROVE  LET r == [k EXCEPT !.state[i] = "Free"]
         IN  /\ Sound(r) /\ r.pending = k.pending /\ r.current = k.current
             /\ r.closing = k.closing
  <1> DEFINE r == [k EXCEPT !.state[i] = "Free"]
  <1>1. k \in KernelType  BY DEF Sound, Queues
  <1>2. [k.state EXCEPT ![i] = "Free"] \in [Thread -> State]
    BY <1>1, StateNames DEF KernelType
  <1>3. /\ r \in KernelType /\ r.links = k.links /\ r.readyBits = k.readyBits
        /\ r.state = [k.state EXCEPT ![i] = "Free"] /\ r.wait = k.wait
        /\ r.priority = k.priority /\ r.wakeups = k.wakeups /\ r.inUse = k.inUse
        /\ r.delayed = k.delayed /\ r.closing = k.closing
        /\ r.current = k.current /\ r.pending = k.pending
    BY <1>1, <1>2 DEF KernelType
  <1>4. k.state[i] \in {"Free", "Dormant"}  OBVIOUS
  <1> HIDE DEF r
  <1>5. Sound(r)  BY <1>3, <1>4, OutsiderSound
  <1> QED BY <1>3, <1>5 DEF r

(* delayExpired finds the thread delayed, and wakes it.                    *)
LEMMA ExpiredSound ==
  ASSUME NEW k, Sound(k), NEW i \in Thread, i \in k.delayed
  PROVE  LET r == Wake([k EXCEPT !.delayed = @ \ {i}], i, "Ok", TRUE)
         IN  /\ k.state[i] = "Wait" /\ k.wait[i] = "Delay"
             /\ Sound(r) /\ r.closing = k.closing
  <1> DEFINE m == [k EXCEPT !.delayed = @ \ {i}]
             r == Wake(m, i, "Ok", TRUE)
  <1>1. k \in KernelType /\ Queues(k, PlaceOf(k))  BY DEF Sound, Queues
  <1>2. k.wait[i] = "Delay" /\ k.state[i] = "Wait"
    BY DEF Sound, Delays, Threads
  <1>3. /\ m \in KernelType /\ m.links = k.links /\ m.readyBits = k.readyBits
        /\ m.state = k.state /\ m.wait = k.wait /\ m.priority = k.priority
        /\ m.wakeups = k.wakeups /\ m.inUse = k.inUse
        /\ m.delayed = k.delayed \ {i} /\ m.closing = k.closing
        /\ m.current = k.current /\ m.pending = k.pending
    BY <1>1 DEF KernelType
  <1> HIDE DEF m
  <1>4. PlaceOf(m) = PlaceOf(k)  BY <1>3 DEF PlaceOf
  <1>5. Queues(m, PlaceOf(m))  BY <1>1, <1>3, <1>4 DEF Queues
  <1>6. Threads(m) /\ Runs(m) /\ BestBut(m, None)
    BY <1>3 DEF Sound, Threads, Runs, BestBut
  <1>7. DelaysBut(m, i)  BY <1>3 DEF Sound, Delays, DelaysBut
  <1>8. Sound(r) /\ Quiet(m, r)
    BY <1>2, <1>3, <1>5, <1>6, <1>7, StateNames, WakeSound
  <1> HIDE DEF r
  <1>9. r.closing = k.closing  BY <1>3, <1>8 DEF Quiet
  <1> QED BY <1>2, <1>8, <1>9 DEF r, m

(* exitThread, and blockCurrent for a sleep or a delay.                    *)
LEMMA ExitSound ==
  ASSUME NEW k, Sound(k), k.pending = k.current, k.current # Idle
  PROVE  LET r == SwitchNow(PickPending([k EXCEPT !.state[k.current] = "Dormant",
                                                  !.wait[k.current] = "NotWaiting"]))
         IN  Sound(r) /\ r.pending = r.current /\ r.closing = k.closing
  <1> DEFINE c == k.current
             m == [k EXCEPT !.state[c] = "Dormant", !.wait[c] = "NotWaiting"]
  <1>1. k \in KernelType /\ Queues(k, PlaceOf(k)) /\ c \in Thread
        /\ PlaceOf(k)[c] = Nowhere
    BY DEF Sound, Queues, KernelType, PlaceOf, Runs
  <1>2. /\ [k.state EXCEPT ![c] = "Dormant"] \in [Thread -> State]
        /\ [k.wait EXCEPT ![c] = "NotWaiting"] \in [Thread -> WaitReason]
    BY <1>1, StateNames DEF KernelType
  <1>3. /\ m \in KernelType /\ m.links = k.links /\ m.readyBits = k.readyBits
        /\ m.state = [k.state EXCEPT ![c] = "Dormant"]
        /\ m.wait = [k.wait EXCEPT ![c] = "NotWaiting"]
        /\ Quiet(k, m) /\ m.delayed = k.delayed /\ m.current = c
    BY <1>1, <1>2 DEF KernelType, Quiet
  <1> HIDE DEF m
  <1>4. [PlaceOf(k) EXCEPT ![c] = Nowhere] = PlaceOf(k)
    BY <1>1, PlaceTells DEF Places
  <1>5. Queues(m, [PlaceOf(k) EXCEPT ![c] = Nowhere])
    BY <1>1, <1>3, <1>4 DEF Queues
  <1>6. "NotWaiting" \notin Object  BY ObjectsApart
  <1>7. Queues(m, [PlaceOf(k) EXCEPT ![k.current] =
                     IF "NotWaiting" \in Object THEN "NotWaiting" ELSE Nowhere])
    BY <1>5, <1>6
  <1> QED BY <1>3, <1>6, <1>7, StateNames, LeaveSound DEF m

LEMMA SetWait ==
  ASSUME NEW j \in KernelType, NEW c \in Thread, NEW x \in WaitReason
  PROVE  LET m == [j EXCEPT !.state[c] = "Wait", !.wait[c] = x]
         IN  /\ m \in KernelType /\ m.links = j.links /\ m.readyBits = j.readyBits
             /\ m.state = [j.state EXCEPT ![c] = "Wait"]
             /\ m.wait = [j.wait EXCEPT ![c] = x]
             /\ Quiet(j, m) /\ m.delayed = j.delayed /\ m.current = j.current
  <1> DEFINE m == [j EXCEPT !.state[c] = "Wait", !.wait[c] = x]
  <1>1. [j.state EXCEPT ![c] = "Wait"] \in [Thread -> State]
    BY DEF KernelType, State
  <1>2. [j.wait EXCEPT ![c] = x] \in [Thread -> WaitReason]
    BY DEF KernelType
  <1>3. m \in KernelType  BY <1>1, <1>2 DEF KernelType
  <1>4. /\ m.links = j.links /\ m.readyBits = j.readyBits
        /\ m.state = [j.state EXCEPT ![c] = "Wait"]
        /\ m.wait = [j.wait EXCEPT ![c] = x]
    BY DEF KernelType
  <1>5. Quiet(j, m) /\ m.delayed = j.delayed /\ m.current = j.current
    BY DEF KernelType, Quiet
  <1> QED BY <1>3, <1>4, <1>5

(* Record j is k but for the alarm that a delay has set.                   *)
Alarmed(k, j, x) ==
    /\ j \in KernelType /\ j.links = k.links /\ j.readyBits = k.readyBits
    /\ j.state = k.state /\ j.wait = k.wait /\ Quiet(k, j) /\ j.current = k.current
    /\ j.delayed = IF x = "Delay" THEN k.delayed \cup {k.current} ELSE k.delayed

LEMMA BlockSound ==
  ASSUME NEW k, Sound(k), k.pending = k.current, k.current # Idle,
         NEW x \in {"Sleep", "Delay"}, x = "Sleep" => k.wakeups[k.current] = 0,
         NEW j, Alarmed(k, j, x)
  PROVE  LET r == BlockCurrent(j, x)
         IN  Sound(r) /\ r.pending = r.current /\ r.closing = k.closing
  <1> DEFINE c == k.current
             m == [j EXCEPT !.state[j.current] = "Wait", !.wait[j.current] = x]
  <1>1. k \in KernelType /\ Queues(k, PlaceOf(k)) /\ c \in Thread
        /\ PlaceOf(k)[c] = Nowhere
    BY DEF Sound, Queues, KernelType, PlaceOf, Runs
  <1>2. /\ m \in KernelType /\ m.links = j.links /\ m.readyBits = j.readyBits
        /\ m.state = [j.state EXCEPT ![j.current] = "Wait"]
        /\ m.wait = [j.wait EXCEPT ![j.current] = x]
        /\ Quiet(j, m) /\ m.delayed = j.delayed /\ m.current = j.current
    <2> DEFINE d == j.current
    <2>1. j \in KernelType /\ d \in Thread /\ x \in WaitReason
      BY <1>1, StateNames DEF Alarmed
    <2> HIDE DEF d
    <2> DEFINE n == [j EXCEPT !.state[d] = "Wait", !.wait[d] = x]
    <2>2. /\ n \in KernelType /\ n.links = j.links /\ n.readyBits = j.readyBits
          /\ n.state = [j.state EXCEPT ![d] = "Wait"]
          /\ n.wait = [j.wait EXCEPT ![d] = x]
          /\ Quiet(j, n) /\ n.delayed = j.delayed /\ n.current = j.current
      BY <2>1, SetWait
    <2>3. m = n  BY ONLY DEF d
    <2> HIDE DEF m, n
    <2> QED BY <2>2, <2>3 DEF d
  <1>3. BlockCurrent(j, x) = SwitchNow(PickPending(m))  BY DEF BlockCurrent
  <1> HIDE DEF m
  <1>4. /\ m \in KernelType /\ m.links = k.links /\ m.readyBits = k.readyBits
        /\ m.state = [k.state EXCEPT ![c] = "Wait"]
        /\ m.wait = [k.wait EXCEPT ![c] = x] /\ Quiet(k, m) /\ m.current = c
        /\ m.delayed = IF x = "Delay" THEN k.delayed \cup {c} ELSE k.delayed
    BY <1>2 DEF Alarmed, Quiet
  <1>5. [PlaceOf(k) EXCEPT ![c] = Nowhere] = PlaceOf(k)
    BY <1>1, PlaceTells DEF Places
  <1>6. Queues(m, [PlaceOf(k) EXCEPT ![c] = Nowhere])
    BY <1>1, <1>4, <1>5 DEF Queues
  <1>7. x \notin Object /\ x # "NotWaiting" /\ x \in WaitReason
    BY ObjectsApart, StateNames
  <1>8. Queues(m, [PlaceOf(k) EXCEPT ![c] = IF x \in Object THEN x ELSE Nowhere])
    BY <1>6, <1>7
  <1>9. "Wait" \in {"Dormant", "Wait"} /\ (x \in Object => x \in k.inUse)
    BY <1>7
  <1> DEFINE r == SwitchNow(PickPending(m))
  <1>10. Sound(r) /\ r.pending = r.current /\ r.closing = k.closing
    BY <1>4, <1>7, <1>8, <1>9, LeaveSound
  <1> HIDE DEF r
  <1> QED BY <1>3, <1>10 DEF r

-----------------------------------------------------------------------------
(* The inductive invariant: a sound scheduler, and no thread staged except *)
(* while an interrupt is served.                                           *)
Steady ==
    /\ Sound(Kernel)
    /\ mode \in {"thread", "intr"}
    /\ mode = "thread" => pending = current

(* What every step of this module keeps.                                   *)
Holds == Steady' /\ closing' = closing

LEMMA SteadyStep ==
  ASSUME NEW r, Sound(r), Becomes(r), mode' \in {"thread", "intr"},
         mode' = "thread" => r.pending = r.current, r.closing = closing
  PROVE  Holds
  <1>1. r \in KernelType  BY DEF Sound, Queues
  <1>2. Kernel' = r  BY <1>1 DEF Becomes, Kernel, KernelType
  <1>3. Sound(Kernel)'  BY <1>2
  <1>4. pending' = r.pending /\ current' = r.current /\ closing' = r.closing
    BY DEF Becomes
  <1> QED BY <1>3, <1>4 DEF Holds, Steady

(* The conditions of the code, read as those of the record.                *)
LEMMA CallerRuns ==
  ASSUME Steady, InThread
  PROVE  /\ Sound(Kernel) /\ Kernel.pending = Kernel.current
         /\ Kernel.current # Idle /\ mode = "thread"
  BY KernelFields DEF Steady, InThread

LEMMA KernelTyped ==
  ASSUME Steady
  PROVE  Kernel \in KernelType /\ Kernel.current \in Thread
  BY DEF Steady, Sound, Queues, KernelType

LEMMA CreateHolds ==
  ASSUME Steady, NEW p \in Priority, CreateThread(p)
  PROVE  Holds
  <1>1. PICK i \in Thread : state[i] = "Free" /\ Becomes(Fresh(Kernel, i, p))
    BY DEF CreateThread, Fresh
  <1>2. Kernel.state[i] = "Free" /\ InThread /\ mode' = mode
    BY <1>1, KernelFields DEF CreateThread
  <1> DEFINE r == Fresh(Kernel, i, p)
  <1>3. /\ Sound(r) /\ r.pending = Kernel.pending
        /\ r.current = Kernel.current /\ r.closing = Kernel.closing
    BY <1>2, CreateSound DEF Steady
  <1> HIDE DEF r
  <1> QED BY <1>1, <1>2, <1>3, CallerRuns, KernelFields, SteadyStep DEF Steady, r

LEMMA DeleteHolds ==
  ASSUME Steady, NEW i \in Thread, DeleteThread(i)
  PROVE  Holds
  <1> DEFINE r == [Kernel EXCEPT !.state[i] = "Free"]
  <1>1. Kernel.state[i] = "Dormant" /\ InThread /\ mode' = mode /\ Becomes(r)
    BY KernelFields DEF DeleteThread
  <1>2. /\ Sound(r) /\ r.pending = Kernel.pending
        /\ r.current = Kernel.current /\ r.closing = Kernel.closing
    BY <1>1, DeleteSound DEF Steady
  <1> HIDE DEF r
  <1> QED BY <1>1, <1>2, CallerRuns, KernelFields, SteadyStep DEF Steady

LEMMA StartHolds ==
  ASSUME Steady, NEW i \in Thread, StartThread(i)
  PROVE  Holds
  <1> DEFINE m == [Kernel EXCEPT !.priority[i] = Kernel.initial[i], !.answer[i] = "Ok"]
             r == HandOffIfBetter(MakeReady(m, i), i)
  <1>1. Kernel.state[i] = "Dormant" /\ InThread /\ mode' = mode
    BY KernelFields DEF StartThread
  <1>2. Becomes(r)  BY KernelFields, Zenon DEF StartThread
  <1>3. Sound(r) /\ r.pending = r.current /\ r.closing = Kernel.closing
    BY <1>1, CallerRuns, StartSound
  <1> HIDE DEF r
  <1> QED BY <1>1, <1>2, <1>3, KernelFields, SteadyStep DEF Steady

LEMMA ExitHolds ==
  ASSUME Steady, ExitThread
  PROVE  Holds
  <1> DEFINE m == [Kernel EXCEPT !.state[Kernel.current] = "Dormant",
                                 !.wait[Kernel.current] = "NotWaiting"]
             r == SwitchNow(PickPending(m))
  <1>1. InThread /\ mode' = mode  BY DEF ExitThread
  <1>2. Becomes(r)  BY KernelFields, Zenon DEF ExitThread
  <1>3. Sound(r) /\ r.pending = r.current /\ r.closing = Kernel.closing
    BY <1>1, CallerRuns, ExitSound
  <1> HIDE DEF r
  <1> QED BY <1>1, <1>2, <1>3, KernelFields, SteadyStep DEF Steady

LEMMA TerminateHolds ==
  ASSUME Steady, Unsafe = {}, NEW i \in Target, TerminateThread(i)
  PROVE  Holds
  <1> DEFINE out == IF Kernel.state[i] = "Ready" THEN TakeOffReady(Kernel, i)
                    ELSE IF Kernel.state[i] = "Wait" THEN LeaveWait(Kernel, i)
                    ELSE Kernel
             r == [out EXCEPT !.pending = IF @ = i THEN Kernel.current ELSE @,
                              !.state[i] = "Dormant"]
  <1>1. /\ i \in Thread /\ i # Idle /\ i # Kernel.current /\ i # Kernel.pending
        /\ Kernel.state[i] \notin {"Free", "Dormant"} /\ mode' = mode
    BY KernelFields DEF TerminateThread, Target
  <1>2. Becomes(r)  BY KernelFields, Zenon DEF TerminateThread
  <1>3. Sound(r) /\ r.current = Kernel.current /\ r.pending = Kernel.pending
        /\ r.closing = Kernel.closing
    BY <1>1, TerminateSound DEF Steady
  <1> HIDE DEF r
  <1> QED BY <1>1, <1>2, <1>3, KernelFields, SteadyStep DEF Steady

LEMMA WakeHolds ==
  ASSUME Steady, NEW i \in Thread, state[i] = "Wait", NEW a \in Answer,
         Becomes(Wake(Kernel, i, a, InInterrupt)), mode' = mode
  PROVE  Holds
  <1> DEFINE b == InInterrupt
             r == Wake(Kernel, i, a, b)
  <1>1. /\ Queues(Kernel, PlaceOf(Kernel)) /\ Threads(Kernel) /\ Runs(Kernel)
        /\ BestBut(Kernel, None) /\ DelaysBut(Kernel, i) /\ Kernel.state[i] = "Wait"
    BY KernelFields DEF Steady, Sound, Delays, DelaysBut
  <1>2. b \in BOOLEAN /\ (~b => mode = "thread") /\ (b => mode # "thread")
    BY DEF InInterrupt, Steady
  <1>3. b \/ Kernel.pending = Kernel.current  BY <1>2, KernelFields DEF Steady
  <1> HIDE DEF b
  <1>4. Sound(r) /\ Quiet(Kernel, r) /\ (~b => r.pending = r.current)
    <2>1. CASE b = TRUE
      <3>1. Sound(Wake(Kernel, i, a, TRUE)) /\ Quiet(Kernel, Wake(Kernel, i, a, TRUE))
        BY <1>1, WakeSound
      <3> QED BY <2>1, <3>1
    <2>2. CASE b = FALSE
      <3> DEFINE z == Wake(Kernel, i, a, FALSE)
      <3>1. Kernel.pending = Kernel.current  BY <1>3, <2>2
      <3>2. Sound(z) /\ Quiet(Kernel, z) /\ z.pending = z.current
        BY <1>1, <3>1, WakeSound
      <3> QED BY <2>2, <3>2
    <2> QED BY <1>2, <2>1, <2>2
  <1>5. Becomes(r)  BY DEF b
  <1> HIDE DEF r
  <1> QED BY <1>2, <1>4, <1>5, KernelFields, SteadyStep DEF Steady, Quiet

LEMMA ChangePriorityHolds ==
  ASSUME Steady, NEW i \in Thread, NEW p \in Priority, ChangeThreadPriority(i, p)
  PROVE  Holds
  <1> DEFINE changed == [Kernel EXCEPT !.priority[i] = p]
             requeued == MakeReady([TakeOffReady(Kernel, i)
                                      EXCEPT !.priority[i] = p], i)
             best == Best(changed)
             given == SwitchNow([MakeReady(Picked(changed), i) EXCEPT !.pending = best])
             kept == MakeReady(Picked(changed), best)
  <1>1. InThread /\ mode' = mode /\ Kernel.state[i] \notin {"Free", "Dormant"}
    BY KernelFields DEF ChangeThreadPriority
  <1>2. Becomes(IF Kernel.state[i] = "Ready" THEN HandOffIfBetter(requeued, i)
                ELSE IF i # Kernel.current \/ best = None THEN changed
                ELSE IF changed.priority[best] < p THEN given ELSE kept)
    BY KernelFields, Zenon DEF ChangeThreadPriority
  <1>3. CASE Kernel.state[i] = "Ready"
    <2> DEFINE r == HandOffIfBetter(requeued, i)
    <2>1. Becomes(r)  BY <1>2, <1>3
    <2>2. Sound(r) /\ r.pending = r.current /\ r.closing = Kernel.closing
      BY <1>1, <1>3, CallerRuns, RequeueHandOffSound
    <2> HIDE DEF r
    <2> QED BY <1>1, <2>1, <2>2, KernelFields, SteadyStep DEF Steady
  <1>4. CASE Kernel.state[i] # "Ready" /\ i # Kernel.current
    <2>1. Kernel.state[i] = "Wait"
      BY <1>1, <1>4, KernelTyped, CallerRuns DEF Sound, Runs, KernelType, State
    <2>2. Becomes(changed)  BY <1>2, <1>4
    <2>3. /\ Sound(changed) /\ changed.pending = Kernel.pending
          /\ changed.current = Kernel.current /\ changed.closing = Kernel.closing
      BY <2>1, WaiterPrioritySound DEF Steady
    <2> HIDE DEF changed
    <2> QED BY <1>1, <2>2, <2>3, CallerRuns, KernelFields, SteadyStep DEF Steady
  <1>5. CASE i = Kernel.current
    <2>1. Kernel.state[i] # "Ready"
      BY <1>1, <1>5, CallerRuns DEF Sound, Runs
    <2> DEFINE r == IF changed.priority[best] < p THEN given ELSE kept
    <2>2. /\ best # None
          /\ Sound(r) /\ r.pending = r.current /\ r.closing = Kernel.closing
      BY <1>1, <1>5, CallerRuns, OwnPrioritySound
    <2>3. Becomes(r)  BY <1>2, <1>5, <2>1, <2>2
    <2> HIDE DEF r
    <2> QED BY <1>1, <2>2, <2>3, KernelFields, SteadyStep DEF Steady
  <1> QED BY <1>3, <1>4, <1>5

LEMMA IChangePriorityHolds ==
  ASSUME Steady, Unsafe = {}, NEW i \in Thread, NEW p \in Priority,
         IChangeThreadPriority(i, p)
  PROVE  Holds
  <1> DEFINE changed == [Kernel EXCEPT !.priority[i] = p]
             requeued == MakeReady([TakeOffReady(Kernel, i)
                                      EXCEPT !.priority[i] = p], i)
  <1>1. /\ mode = "intr" /\ mode' = mode /\ Kernel.state[i] \notin {"Free", "Dormant"}
        /\ \/ Kernel.state[i] = "Wait"
           \/ i \notin {Kernel.current, Kernel.pending} /\ p >= Kernel.priority[Kernel.pending]
    BY KernelFields DEF IChangeThreadPriority, InInterrupt
  <1>2. Becomes(IF Kernel.state[i] = "Ready" THEN requeued ELSE changed)
    BY KernelFields, Zenon DEF IChangeThreadPriority
  <1>3. CASE Kernel.state[i] = "Ready"
    <2>1. Becomes(requeued)  BY <1>2, <1>3
    <2>2. Sound(requeued) /\ requeued.closing = Kernel.closing
      BY <1>1, <1>3, RequeueSound DEF Steady
    <2> HIDE DEF requeued
    <2> QED BY <1>1, <2>1, <2>2, KernelFields, SteadyStep DEF Steady
  <1>4. CASE Kernel.state[i] # "Ready"
    <2>1. Kernel.state[i] = "Wait"
      BY <1>1, <1>4, KernelTyped DEF Steady, Sound, Runs, KernelType, State
    <2>2. Becomes(changed)  BY <1>2, <1>4
    <2>3. Sound(changed) /\ changed.closing = Kernel.closing
      BY <2>1, WaiterPrioritySound DEF Steady
    <2> HIDE DEF changed
    <2> QED BY <1>1, <2>2, <2>3, KernelFields, SteadyStep DEF Steady
  <1> QED BY <1>3, <1>4

LEMMA RotateHolds ==
  ASSUME Steady, NEW p \in Priority,
         RotateThreadReadyQueue(p) \/ IRotateThreadReadyQueue(p)
  PROVE  Holds
  <1>1. CASE Becomes(HeadToTail(Kernel, p)) /\ mode' = mode
    <2> DEFINE r == HeadToTail(Kernel, p)
    <2>1. /\ Sound(r) /\ r.pending = Kernel.pending
          /\ r.current = Kernel.current /\ r.closing = Kernel.closing
      BY HeadToTailSound DEF Steady
    <2> HIDE DEF r
    <2> QED BY <1>1, <2>1, KernelFields, SteadyStep DEF Steady, r
  <1>2. CASE /\ InThread /\ mode' = mode
             /\ priority[current] = p /\ links.head[p] # None
             /\ Becomes(SwitchNow(PickPending(MakeReady(Kernel, current))))
    <2> DEFINE r == SwitchNow(PickPending(MakeReady(Kernel, Kernel.current)))
    <2>1. Becomes(r)  BY <1>2, KernelFields
    <2>2. Kernel.links.head[Kernel.priority[Kernel.current]] # None
      BY <1>2, KernelFields
    <2>3. Sound(r) /\ r.pending = r.current /\ r.closing = Kernel.closing
      BY <1>2, <2>2, CallerRuns, YieldSound
    <2> HIDE DEF r
    <2> QED BY <1>2, <2>1, <2>3, KernelFields, SteadyStep DEF Steady
  <1> QED BY <1>1, <1>2 DEF RotateThreadReadyQueue, IRotateThreadReadyQueue

LEMMA ReleaseWaitHolds ==
  ASSUME Steady, NEW i \in Thread, ReleaseWaitThread(i)
  PROVE  Holds
  BY WakeHolds, StateNames DEF ReleaseWaitThread

LEMMA CountHolds ==
  ASSUME Steady, NEW i \in Thread, NEW n \in 0 .. MaxWakeups,
         n = 0 \/ wait[i] # "Sleep",
         Becomes([Kernel EXCEPT !.wakeups[i] = n]), mode' = mode
  PROVE  Holds
  <1> DEFINE r == [Kernel EXCEPT !.wakeups[i] = n]
  <1>1. n = 0 \/ Kernel.wait[i] # "Sleep"  BY KernelFields
  <1>2. /\ Sound(r) /\ r.pending = Kernel.pending
        /\ r.current = Kernel.current /\ r.closing = Kernel.closing
    BY <1>1, CountSound DEF Steady
  <1>3. Becomes(r)  OBVIOUS
  <1> HIDE DEF r
  <1> QED BY <1>2, <1>3, KernelFields, SteadyStep DEF Steady

LEMMA WakeupHolds ==
  ASSUME Steady, NEW i \in Thread, WakeupThread(i) \/ CancelWakeupThread(i)
  PROVE  Holds
  <1>1. wakeups[i] \in 0 .. MaxWakeups /\ MaxWakeups \in Nat
    BY KernelTyped, KernelFields, SchedulerAssumption DEF KernelType
  <1>2. CASE WakeupThread(i) /\ state[i] = "Wait" /\ wait[i] = "Sleep"
    BY <1>2, WakeHolds, StateNames DEF WakeupThread
  <1>3. CASE WakeupThread(i) /\ ~(state[i] = "Wait" /\ wait[i] = "Sleep")
    <2>1. wait[i] # "Sleep"
      BY <1>3, KernelFields DEF Steady, Sound, Threads
    <2>2. Kernel.wakeups[i] + 1 \in 0 .. MaxWakeups
      BY <1>1, <1>3, KernelFields DEF WakeupThread
    <2>3. Becomes([Kernel EXCEPT !.wakeups[i] = Kernel.wakeups[i] + 1]) /\ mode' = mode
      BY <1>3 DEF WakeupThread
    <2> QED BY <2>1, <2>2, <2>3, CountHolds
  <1>4. CASE CancelWakeupThread(i)
    BY <1>1, <1>4, CountHolds DEF CancelWakeupThread
  <1> QED BY <1>2, <1>3, <1>4

LEMMA SleepHolds ==
  ASSUME Steady, SleepThread
  PROVE  Holds
  <1> DEFINE k == Kernel
             c == k.current
  <1>1. /\ InThread /\ mode' = mode /\ c \in Thread
        /\ k.wakeups[c] \in 0 .. MaxWakeups /\ MaxWakeups \in Nat
    BY KernelTyped, SchedulerAssumption DEF KernelType, SleepThread
  <1>2. CASE k.wakeups[c] > 0
    <2>1. wait[c] # "Sleep"
      BY <1>1, <1>2, KernelFields DEF Steady, Sound, Threads
    <2>2. k.wakeups[c] - 1 \in 0 .. MaxWakeups  BY <1>1, <1>2
    <2>3. Becomes([Kernel EXCEPT !.wakeups[c] = k.wakeups[c] - 1])
      BY <1>2, KernelFields DEF SleepThread
    <2> QED BY <1>1, <2>1, <2>2, <2>3, CountHolds
  <1>3. CASE ~(k.wakeups[c] > 0)
    <2> DEFINE r == BlockCurrent(Kernel, "Sleep")
    <2>1. k.wakeups[c] = 0  BY <1>1, <1>3
    <2>2. Alarmed(Kernel, Kernel, "Sleep")  BY KernelTyped DEF Alarmed, Quiet
    <2>3. Sound(r) /\ r.pending = r.current /\ r.closing = Kernel.closing
      BY <1>1, <2>1, <2>2, CallerRuns, BlockSound
    <2>4. Becomes(r)  BY <1>3, KernelFields DEF SleepThread
    <2> HIDE DEF r
    <2> QED BY <1>1, <2>3, <2>4, KernelFields, SteadyStep DEF Steady
  <1> QED BY <1>2, <1>3

LEMMA DelayHolds ==
  ASSUME Steady, DelayThread
  PROVE  Holds
  <1> DEFINE j == [Kernel EXCEPT !.delayed = @ \cup {Kernel.current}]
             r == BlockCurrent(j, "Delay")
  <1>1. InThread /\ mode' = mode  BY DEF DelayThread
  <1>2. j \in KernelType  BY KernelTyped DEF KernelType
  <1>3. Alarmed(Kernel, j, "Delay")
    BY <1>2, KernelTyped DEF KernelType, Quiet, Alarmed
  <1>4. Becomes(r)  BY KernelFields, Zenon DEF DelayThread
  <1> HIDE DEF j
  <1>5. Sound(r) /\ r.pending = r.current /\ r.closing = Kernel.closing
    BY <1>1, <1>2, <1>3, CallerRuns, BlockSound
  <1> HIDE DEF r
  <1> QED BY <1>1, <1>4, <1>5, KernelFields, SteadyStep DEF Steady

LEMMA DelayExpiredHolds ==
  ASSUME Steady, NEW i \in Thread, DelayExpired(i)
  PROVE  Holds
  <1> DEFINE r == Wake([Kernel EXCEPT !.delayed = @ \ {i}], i, "Ok", TRUE)
  <1>1. mode = "intr" /\ mode' = mode /\ i \in Kernel.delayed
    BY KernelFields DEF DelayExpired, InInterrupt
  <1>2. /\ Kernel.state[i] = "Wait" /\ Kernel.wait[i] = "Delay"
        /\ Sound(r) /\ r.closing = Kernel.closing
    BY <1>1, ExpiredSound DEF Steady
  <1>3. Becomes(r)  BY <1>2, KernelFields, Zenon DEF DelayExpired
  <1> HIDE DEF r
  <1> QED BY <1>1, <1>2, <1>3, KernelFields, SteadyStep DEF Steady

LEMMA InterruptHolds ==
  ASSUME Steady, InterruptEnter \/ InterruptExit
  PROVE  Holds
  <1>1. CASE InterruptEnter
    BY <1>1, KernelFields, SteadyStep DEF InterruptEnter, Steady
  <1>2. CASE InterruptExit
    <2> DEFINE r == Reschedule(Kernel)
    <2>1. Sound(r) /\ r.pending = r.current /\ r.closing = Kernel.closing
      BY RescheduleSound DEF Steady
    <2>2. Becomes(r) /\ mode' = "thread"  BY <1>2 DEF InterruptExit
    <2> HIDE DEF r
    <2> QED BY <2>1, <2>2, KernelFields, SteadyStep DEF Steady
  <1> QED BY <1>1, <1>2

LEMMA SchedNextHolds ==
  ASSUME Steady, Unsafe = {}, SchedNext
  PROVE  Holds
  <1>1. Target \subseteq Thread /\ CallPriority \subseteq Priority
    BY SchedulerAssumption DEF Target
  <1>2. CASE \E p \in CallPriority : CreateThread(p)
    BY <1>1, <1>2, CreateHolds
  <1>3. CASE \E i \in Target : DeleteThread(i)
    BY <1>1, <1>3, DeleteHolds
  <1>4. CASE \E i \in Target : StartThread(i)
    BY <1>1, <1>4, StartHolds
  <1>5. CASE ExitThread
    BY <1>5, ExitHolds
  <1>6. CASE \E i \in Target : TerminateThread(i)
    BY <1>6, TerminateHolds
  <1>7. CASE \E i \in Target, p \in CallPriority :
                ChangeThreadPriority(i, p) \/ IChangeThreadPriority(i, p)
    BY <1>1, <1>7, ChangePriorityHolds, IChangePriorityHolds
  <1>8. CASE \E p \in Priority : RotateThreadReadyQueue(p) \/ IRotateThreadReadyQueue(p)
    BY <1>8, RotateHolds
  <1>9. CASE \E i \in Target : ReleaseWaitThread(i)
    BY <1>1, <1>9, ReleaseWaitHolds
  <1>10. CASE SleepThread
    BY <1>10, SleepHolds
  <1>11. CASE \E i \in Target : WakeupThread(i) \/ CancelWakeupThread(i)
    BY <1>1, <1>11, WakeupHolds
  <1>12. CASE DelayThread
    BY <1>12, DelayHolds
  <1>13. CASE \E i \in Target : DelayExpired(i)
    BY <1>1, <1>13, DelayExpiredHolds
  <1>14. CASE InterruptEnter \/ InterruptExit
    BY <1>14, InterruptHolds
  <1> QED BY <1>2, <1>3, <1>4, <1>5, <1>6, <1>7, <1>8, <1>9, <1>10, <1>11,
             <1>12, <1>13, <1>14 DEF SchedNext

LEMMA SchedStepSteady ==
  ASSUME Unsafe = {}, Steady, [SchedNext]_schedVars
  PROVE  Steady'
  <1>1. CASE SchedNext  BY <1>1, SchedNextHolds DEF Holds
  <1>2. CASE UNCHANGED schedVars
    <2>1. Kernel' = Kernel /\ mode' = mode /\ pending' = pending /\ current' = current
      BY <1>2 DEF schedVars, Kernel
    <2>2. Sound(Kernel)'  BY <2>1 DEF Steady
    <2> QED BY <2>1, <2>2 DEF Steady
  <1> QED BY <1>1, <1>2

LEMMA SchedInitSteady == SchedInit => Steady
  <1> DEFINE blank == [links |-> NoLinks, readyBits |-> {},
                  state |-> [t \in Thread |-> IF t = Boot THEN "Run" ELSE "Free"],
                  wait |-> [t \in Thread |-> "NotWaiting"],
                  priority |-> [t \in Thread |-> IF t = Boot THEN BootPriority
                                                 ELSE IdlePriority],
                  initial |-> [t \in Thread |-> IF t = Boot THEN BootInitial
                                                ELSE IdlePriority],
                  wakeups |-> [t \in Thread |-> 0],
                  answer |-> [t \in Thread |-> "Ok"],
                  inUse |-> {}, waiters |-> [o \in Object |-> 0],
                  delayed |-> {}, closing |-> {}, current |-> Boot, pending |-> Boot]
             k == MakeReady(blank, Idle)
             w == [t \in Thread |-> Nowhere]
  <1>1. /\ Boot \in Thread /\ Idle \in Thread /\ Boot # Idle
        /\ IdlePriority \in Priority /\ IdlePriority \in Int
        /\ BootPriority \in Priority /\ BootPriority \in Int
        /\ BootPriority <= IdlePriority
    BY QueueAssumption, SchedulerAssumption DEF Boot, Idle, Thread, Priority
  <1>2. NoLinks \in Links  BY DEF NoLinks, Links, Index
  <1>3. BootInitial \in Priority /\ 0 \in 0 .. MaxWakeups
    BY SchedulerAssumption
  <1>4. blank \in KernelType
    BY <1>1, <1>2, <1>3 DEF KernelType, State, WaitReason, Answer, Index
  <1>5. Ranked(NoLinks)
    <2>1. [t \in Thread |-> 0] \in [Thread -> Nat]  OBVIOUS
    <2>2. \A t \in Thread : NoLinks.next[t] = None  BY DEF NoLinks
    <2> QED BY <2>1, <2>2 DEF Ranked
  <1>6. LinkedAs(NoLinks, w)
    BY DEF LinkedAs, NoLinks
  <1>7. w \in Places  BY DEF Places
  <1>8. /\ blank.links = NoLinks /\ blank.readyBits = {}
        /\ blank.state = [t \in Thread |-> IF t = Boot THEN "Run" ELSE "Free"]
        /\ blank.wait = [t \in Thread |-> "NotWaiting"]
        /\ blank.priority = [t \in Thread |-> IF t = Boot THEN BootPriority
                                              ELSE IdlePriority]
        /\ blank.wakeups = [t \in Thread |-> 0] /\ blank.inUse = {}
        /\ blank.delayed = {} /\ blank.current = Boot /\ blank.pending = Boot
    OBVIOUS
  <1> HIDE DEF blank
  <1>9. Queues(blank, w)
    <2>1. \A p \in Priority : NoLinks.head[p] = None  BY QueueKinds DEF NoLinks
    <2> HIDE DEF w
    <2> QED BY <1>4, <1>5, <1>6, <1>7, <1>8, <2>1 DEF Queues
  <1>10. Readies(blank, w, Idle, k)
    <2>1. w[Idle] = Nowhere  BY <1>1
    <2> HIDE DEF w
    <2> QED BY <1>1, <1>9, <2>1, MakeReadyQueues
  <1> HIDE DEF k
  <1>11. /\ Queues(k, [w EXCEPT ![Idle] = IdlePriority])
         /\ k.state = [t \in Thread |-> IF t = Boot THEN "Run"
                                        ELSE IF t = Idle THEN "Ready" ELSE "Free"]
         /\ k.wait = [t \in Thread |-> "NotWaiting"]
         /\ k.priority = blank.priority /\ k.wakeups = blank.wakeups
         /\ k.delayed = {} /\ k.current = Boot /\ k.pending = Boot
    <2>1. blank.priority[Idle] = IdlePriority  BY <1>1, <1>8
    <2>2. [blank.state EXCEPT ![Idle] = "Ready"]
            = [t \in Thread |-> IF t = Boot THEN "Run"
                                ELSE IF t = Idle THEN "Ready" ELSE "Free"]
      BY <1>1, <1>8
    <2>3. [blank.wait EXCEPT ![Idle] = "NotWaiting"] = blank.wait  BY <1>1, <1>8
    <2> HIDE DEF w
    <2> QED BY <1>8, <1>10, <2>1, <2>2, <2>3 DEF Readies, Quiet
  <1>12. PlaceOf(k) = [w EXCEPT ![Idle] = IdlePriority]
    BY <1>1, <1>8, <1>11, ObjectsApart DEF PlaceOf
  <1>13. Threads(k) /\ Delays(k) /\ Runs(k)
    BY <1>1, <1>8, <1>11, ObjectsApart DEF Threads, Delays, Runs
  <1>14. BestBut(k, None)
    BY <1>1, <1>8, <1>11 DEF BestBut
  <1>15. Sound(k)  BY <1>11, <1>12, <1>13, <1>14 DEF Sound
  <1>16. SchedInit =>
          /\ links = k.links        /\ readyBits = k.readyBits
          /\ state = k.state        /\ wait = k.wait      /\ priority = k.priority
          /\ initial = k.initial    /\ wakeups = k.wakeups /\ answer = k.answer
          /\ inUse = k.inUse        /\ waiters = k.waiters
          /\ delayed = k.delayed    /\ closing = k.closing
          /\ current = k.current    /\ pending = k.pending
          /\ mode = "thread"
    BY DEF SchedInit, k, blank
  <1>17. k \in KernelType  BY <1>15 DEF Sound, Queues
  <1>18. SchedInit => Kernel = k  BY <1>16, <1>17 DEF Kernel, KernelType
  <1> QED BY <1>11, <1>15, <1>16, <1>18 DEF Steady

(* What the invariant gives.                                               *)
LEMMA SteadyTells ==
  ASSUME Steady
  PROVE  Linked /\ OneRuns /\ RunningIsBest /\ NoLostWakeup /\ DelayHasAlarm
  <1>1. Place = PlaceOf(Kernel)  BY KernelFields DEF Place, PlaceOf
  <1>2. Linked
    BY <1>1, KernelFields DEF Steady, Sound, Queues, Linked
  <1>3. OneRuns
    BY KernelFields DEF Steady, Sound, Runs, OneRuns
  <1>4. RunningIsBest
    BY KernelFields, NoneIsNoThread DEF Steady, Sound, BestBut, RunningIsBest
  <1>5. NoLostWakeup
    BY KernelFields DEF Steady, Sound, Threads, NoLostWakeup
  <1>6. DelayHasAlarm
    BY KernelFields DEF Steady, Sound, Delays, DelayHasAlarm
  <1> QED BY <1>2, <1>3, <1>4, <1>5, <1>6

LEMMA SchedSteady ==
  ASSUME Unsafe = {}
  PROVE  SchedSpec => []Steady
  <1>1. SchedInit => Steady  BY SchedInitSteady
  <1>2. Steady /\ [SchedNext]_schedVars => Steady'  BY SchedStepSteady
  <1> QED BY <1>1, <1>2, PTL DEF SchedSpec

(* For every number of threads, objects and priorities, as long as the     *)
(* clients keep off the uses the code mishandles, whatever they call and   *)
(* whenever interrupts come: enqueue, unlink and their callers leave       *)
(* doubly linked lists that agree with the threads' states.                *)
THEOREM SchedLinked ==
  ASSUME Unsafe = {}
  PROVE  SchedSpec => []Linked
  <1>1. Steady => Linked  BY SteadyTells
  <1> QED BY <1>1, SchedSteady, PTL

(* Outside an interrupt exactly one thread is in state Run, the current    *)
(* one; inside one, that one or, once another is staged, none.             *)
THEOREM SchedOneRuns ==
  ASSUME Unsafe = {}
  PROVE  SchedSpec => []OneRuns
  <1>1. Steady => OneRuns  BY SteadyTells
  <1> QED BY <1>1, SchedSteady, PTL

(* No call of the thbase interface, no order of wake-ups and no interrupt  *)
(* leaves a ready thread better than the one that runs or will run.        *)
THEOREM SchedRunningIsBest ==
  ASSUME Unsafe = {}
  PROVE  SchedSpec => []RunningIsBest
  <1>1. Steady => RunningIsBest  BY SteadyTells
  <1> QED BY <1>1, SchedSteady, PTL

(* No thread sleeps with a wakeup owed to it.                              *)
THEOREM SchedNoLostWakeup ==
  ASSUME Unsafe = {}
  PROVE  SchedSpec => []NoLostWakeup
  <1>1. Steady => NoLostWakeup  BY SteadyTells
  <1> QED BY <1>1, SchedSteady, PTL

(* The threads in a delay are exactly those with an alarm that will end    *)
(* it: none waits for ever, and no alarm outlives what it was set for.     *)
THEOREM SchedDelayHasAlarm ==
  ASSUME Unsafe = {}
  PROVE  SchedSpec => []DelayHasAlarm
  <1>1. Steady => DelayHasAlarm  BY SteadyTells
  <1> QED BY <1>1, SchedSteady, PTL

(* What the invariant says of the walks along the queues.                  *)
LEMMA SteadyQueuesMatch ==
  ASSUME Steady
  PROVE  QueuesMatchStates
  <1>1. Place = PlaceOf(Kernel)  BY KernelFields DEF Place, PlaceOf
  <1>2. /\ links \in Links /\ Place \in Places /\ LinkedAs(links, Place)
        /\ Ranked(links) /\ readyBits \subseteq Priority
        /\ \A p \in Priority : p \in readyBits <=> links.head[p] # None
    <2> DEFINE k == Kernel
    <2>1. Queues(k, PlaceOf(k))  BY DEF Steady, Sound
    <2> HIDE DEF k
    <2>2. /\ k.links \in Links /\ PlaceOf(k) \in Places
          /\ LinkedAs(k.links, PlaceOf(k)) /\ Ranked(k.links)
          /\ k.readyBits \subseteq Priority
          /\ \A p \in Priority : p \in k.readyBits <=> k.links.head[p] # None
      BY <2>1 DEF Queues, KernelType
    <2>3. k.readyBits = readyBits  BY DEF Kernel, k
    <2> QED BY <1>1, <2>2, <2>3, KernelFields DEF k
  <1>3. readyBits = {p \in Priority : links.head[p] # None}  BY <1>2
  <1> QED BY <1>2, <1>3, ContentsHold DEF QueuesMatchStates

(* Following next from any queue's head meets exactly the threads that are *)
(* ready at that priority or wait on that object, each once, and readyBits *)
(* has the bits of the ready queues that hold a thread: no call, and no    *)
(* interrupt in the middle of anything, loses a thread to the scheduler.   *)
THEOREM SchedQueuesMatchStates ==
  ASSUME Unsafe = {}
  PROVE  SchedSpec => []QueuesMatchStates
  <1>1. Steady => QueuesMatchStates  BY SteadyQueuesMatch
  <1> QED BY <1>1, SchedSteady, PTL

-----------------------------------------------------------------------------
(* The objects that threads wait on.  What the helpers and calls of thbase *)
(* do to them: an object stays in use or out of it, and no thread joins a  *)
(* wait list.                                                              *)
JoinsNone(k, r) ==
    /\ r \in KernelType /\ r.inUse = k.inUse
    /\ \A t \in Thread : r.wait[t] \in Object => r.wait[t] = k.wait[t]

LEMMA JoinsNoneTwice ==
  ASSUME NEW k, NEW m, NEW r, JoinsNone(k, m), JoinsNone(m, r)
  PROVE  JoinsNone(k, r)
  BY DEF JoinsNone

LEMMA NoObject ==
  "NotWaiting" \notin Object /\ "Sleep" \notin Object /\ "Delay" \notin Object
  BY ObjectsApart

(* Records with the same objects and waits.                                *)
LEMMA SameJoinsNone ==
  ASSUME NEW k, NEW r \in KernelType, r.inUse = k.inUse, r.wait = k.wait
  PROVE  JoinsNone(k, r)
  BY DEF JoinsNone

LEMMA ReadyJoinsNone ==
  ASSUME NEW k \in KernelType, NEW i \in Thread
  PROVE  /\ JoinsNone(k, MakeReady(k, i)) /\ JoinsNone(k, MakeReadyFirst(k, i))
         /\ JoinsNone(k, TakeOffReady(k, i))
  <1>1. k.priority[i] \in Priority /\ k.priority[i] \in Queue /\ k.links \in Links
    BY QueueKinds DEF KernelType
  <1>2. ASSUME NEW l \in Links PROVE JoinsNone(k, Readied(k, i, l))
    <2>1. Readied(k, i, l) \in KernelType  BY ReadiedType
    <2>2. /\ Readied(k, i, l).inUse = k.inUse
          /\ Readied(k, i, l).wait = [k.wait EXCEPT ![i] = "NotWaiting"]
      BY DEF Readied, KernelType
    <2> QED BY <2>1, <2>2, NoObject DEF JoinsNone, KernelType
  <1>3. Enqueue(k.links, k.priority[i], i) \in Links
        /\ EnqueueFirst(k.links, k.priority[i], i) \in Links
        /\ Unlink(k.links, k.priority[i], i) \in Links
    BY <1>1, EnqueueType, EnqueueFirstType, UnlinkType
  <1>4. ASSUME NEW l \in Links PROVE JoinsNone(k, Dequeued(k, k.priority[i], l))
    <2> DEFINE p == k.priority[i]
    <2>1. Dequeued(k, p, l) \in KernelType  BY <1>1, DequeuedType
    <2>2. Dequeued(k, p, l).inUse = k.inUse /\ Dequeued(k, p, l).wait = k.wait
      BY DEF Dequeued, KernelType
    <2> QED BY <2>1, <2>2, SameJoinsNone
  <1> QED BY <1>2, <1>3, <1>4 DEF MakeReady, MakeReadyFirst, TakeOffReady

LEMMA SwitchJoinsNone ==
  ASSUME NEW k \in KernelType
  PROVE  /\ Picked(k).wait = k.wait /\ Picked(k).inUse = k.inUse
         /\ PickPending(k).wait = k.wait /\ PickPending(k).inUse = k.inUse
         /\ Reschedule(k).wait = k.wait /\ Reschedule(k).inUse = k.inUse
         /\ SwitchNow(k).wait = k.wait /\ SwitchNow(k).inUse = k.inUse
         /\ Picked(k) \in KernelType /\ PickPending(k) \in KernelType
         /\ Reschedule(k) \in KernelType /\ SwitchNow(k) \in KernelType
  <1>1. ASSUME NEW m \in KernelType
        PROVE  /\ Picked(m).wait = m.wait /\ Picked(m).inUse = m.inUse
               /\ PickPending(m).wait = m.wait /\ PickPending(m).inUse = m.inUse
               /\ Picked(m) \in KernelType /\ PickPending(m) \in KernelType
    <2>1. Picked(m) \in KernelType /\ PickPending(m) \in KernelType
      BY PickPendingType
    <2>2. Picked(m).wait = m.wait /\ Picked(m).inUse = m.inUse
      BY DEF Picked, Dequeued, KernelType
    <2> DEFINE p == Picked(m)
               b == Best(m)
    <2>3. PickPending(m) = [p EXCEPT !.pending = b]  BY DEF PickPending
    <2> HIDE DEF p, b
    <2>4. p \in KernelType  BY <2>1 DEF p
    <2>5. PickPending(m).wait = p.wait /\ PickPending(m).inUse = p.inUse
      BY <2>3, <2>4 DEF KernelType
    <2> QED BY <2>1, <2>2, <2>5 DEF p
  <1>2. ASSUME NEW m \in KernelType
        PROVE  Reschedule(m).wait = m.wait /\ Reschedule(m).inUse = m.inUse
               /\ Reschedule(m) \in KernelType
    <2>1. Reschedule(m) \in KernelType  BY RescheduleType
    <2>2. CASE m.pending = m.current  BY <2>1, <2>2 DEF Reschedule
    <2>3. CASE m.pending # m.current
      <3> DEFINE c == IF m.pending \in {None, m.current} THEN PickPending(m) ELSE m
                 n == IF c.pending = None THEN c.current ELSE c.pending
      <3>1. Reschedule(m) = [c EXCEPT !.pending = n, !.current = n, !.state[n] = "Run"]
        BY <2>3 DEF Reschedule, NewContext
      <3>2. c \in KernelType /\ c.wait = m.wait /\ c.inUse = m.inUse
        BY <1>1
      <3> HIDE DEF c, n
      <3>3. Reschedule(m).wait = c.wait /\ Reschedule(m).inUse = c.inUse
        BY <3>1, <3>2 DEF KernelType
      <3> QED BY <2>1, <3>2, <3>3
    <2> QED BY <2>2, <2>3
  <1>3. SwitchNow(k).wait = k.wait /\ SwitchNow(k).inUse = k.inUse
        /\ SwitchNow(k) \in KernelType
    <2> DEFINE a == [k EXCEPT !.answer[k.current] = "Ok"]
    <2>1. a \in KernelType /\ a.wait = k.wait /\ a.inUse = k.inUse
      <3>1. k.current \in Thread  BY DEF KernelType
      <3>2. a \in KernelType  BY <3>1, FieldTypes, StateNames
      <3> QED BY <3>2 DEF KernelType
    <2> HIDE DEF a
    <2>2. SwitchNow(k) = Reschedule(a)  BY DEF SwitchNow, a
    <2> QED BY <1>2, <2>1, <2>2
  <1> QED BY <1>1, <1>2, <1>3

LEMMA LeaveJoinsNone ==
  ASSUME NEW k \in KernelType, NEW i \in Thread
  PROVE  JoinsNone(k, LeaveWait(k, i))
  <1> DEFINE o == k.wait[i]
             left == [k EXCEPT !.wait[i] = "NotWaiting",
                               !.delayed = IF o = "Delay" THEN @ \ {i} ELSE @]
             r == LeaveWait(k, i)
  <1>1. r \in KernelType  BY LeaveWaitType
  <1>2. r.inUse = k.inUse /\ r.wait = [k.wait EXCEPT ![i] = "NotWaiting"]
    <2>1. /\ left.inUse = k.inUse /\ left.wait = [k.wait EXCEPT ![i] = "NotWaiting"]
          /\ left \in KernelType
      <3>1. [k.wait EXCEPT ![i] = "NotWaiting"] \in [Thread -> WaitReason]
        BY StateNames DEF KernelType
      <3> QED BY <3>1 DEF KernelType
    <2> HIDE DEF left
    <2>2. r = IF o \in k.inUse
              THEN [left EXCEPT !.links = Unlink(@, o, i), !.waiters[o] = @ - 1]
              ELSE left
      BY DEF LeaveWait, left
    <2> QED BY <2>1, <2>2 DEF KernelType
  <1> HIDE DEF r
  <1> QED BY <1>1, <1>2, NoObject DEF JoinsNone, KernelType, r

LEMMA HandOverJoinsNone ==
  ASSUME NEW k \in KernelType, NEW i \in Thread
  PROVE  JoinsNone(k, HandOffIfBetter(k, i))
         /\ (k.pending \in Thread => JoinsNone(k, StageIfBetter(k, i)))
  <1>1. k.current \in Thread  BY DEF KernelType
  <1>2. JoinsNone(k, HandOffIfBetter(k, i))
    <2> DEFINE c == k.current
               y == [k EXCEPT !.state[c] = "Ready",
                              !.links = Enqueue(@, k.priority[c], c),
                              !.readyBits = @ \cup {k.priority[c]}]
               x == TakeOffReady(y, i)
               m == [x EXCEPT !.pending = i]
    <2>1. y \in KernelType /\ y.inUse = k.inUse /\ y.wait = k.wait
      <3>1. Enqueue(k.links, k.priority[c], c) \in Links
        BY <1>1, QueueKinds, EnqueueType DEF KernelType
      <3>2. [k.state EXCEPT ![c] = "Ready"] \in [Thread -> State]
        BY StateNames DEF KernelType
      <3>3. k.readyBits \cup {k.priority[c]} \in SUBSET Priority
        BY <1>1 DEF KernelType
      <3>4. y \in KernelType  BY <3>1, <3>2, <3>3 DEF KernelType
      <3> QED BY <3>4 DEF KernelType
    <2> HIDE DEF y
    <2>2. x \in KernelType /\ JoinsNone(y, x)
      BY <2>1, TakeOffReadyType, ReadyJoinsNone
    <2> HIDE DEF x
    <2>3. m \in KernelType /\ m.inUse = x.inUse /\ m.wait = x.wait
      <3>1. i \in Index  BY DEF Index
      <3>2. m \in KernelType  BY <2>2, <3>1, FieldTypes
      <3> QED BY <2>2, <3>2 DEF KernelType
    <2> HIDE DEF m
    <2>4. JoinsNone(k, SwitchNow(m))
      <3>1. JoinsNone(k, y) /\ JoinsNone(x, m) /\ JoinsNone(m, SwitchNow(m))
        BY <2>1, <2>2, <2>3, SameJoinsNone, SwitchJoinsNone
      <3> QED BY <2>2, <3>1, JoinsNoneTwice
    <2>5. HandOffIfBetter(k, i)
            = IF k.priority[i] >= k.priority[c] THEN k ELSE SwitchNow(m)
      BY DEF HandOffIfBetter, y, x, m
    <2> QED BY <2>4, <2>5, SameJoinsNone
  <1>3. ASSUME k.pending \in Thread
        PROVE  JoinsNone(k, StageIfBetter(k, i))
    <2> DEFINE nothing == k.pending \in {None, k.current}
               d == IF nothing THEN MakeReadyFirst(k, k.current)
                               ELSE MakeReady(k, k.pending)
               x == TakeOffReady(d, i)
               m == [x EXCEPT !.pending = i]
    <2>1. d \in KernelType /\ JoinsNone(k, d)
      BY <1>1, <1>3, ReadyJoinsNone, MakeReadyType, MakeReadyFirstType
    <2> HIDE DEF d
    <2>2. x \in KernelType /\ JoinsNone(d, x)
      BY <2>1, TakeOffReadyType, ReadyJoinsNone
    <2> HIDE DEF x
    <2>3. m \in KernelType /\ m.inUse = x.inUse /\ m.wait = x.wait
      <3>1. i \in Index  BY DEF Index
      <3>2. m \in KernelType  BY <2>2, <3>1, FieldTypes
      <3> QED BY <2>2, <3>2 DEF KernelType
    <2> HIDE DEF m
    <2>4. JoinsNone(k, m)  BY <2>1, <2>2, <2>3, SameJoinsNone, JoinsNoneTwice
    <2>5. StageIfBetter(k, i)
            = IF /\ k.priority[i] < k.priority[k.current]
                 /\ nothing \/ k.priority[i] < k.priority[k.pending]
              THEN m ELSE k
      BY DEF StageIfBetter, m, x, d
    <2> QED BY <2>4, <2>5, SameJoinsNone
  <1> QED BY <1>2, <1>3

LEMMA WakeJoinsNone ==
  ASSUME NEW k \in KernelType, k.pending \in Thread, NEW i \in Thread,
         NEW a \in Answer, NEW interrupt \in BOOLEAN
  PROVE  JoinsNone(k, Wake(k, i, a, interrupt))
  <1> DEFINE e == LeaveWait(k, i)
             f == [e EXCEPT !.answer[i] = a]
             g == MakeReady(f, i)
  <1>1. e \in KernelType /\ JoinsNone(k, e) /\ e.pending = k.pending
    BY LeaveJoinsNone, LeaveWaitType
  <1> HIDE DEF e
  <1>2. f \in KernelType /\ f.inUse = e.inUse /\ f.wait = e.wait
        /\ f.pending = e.pending
    <2>1. f \in KernelType  BY <1>1, FieldTypes
    <2> QED BY <1>1, <2>1 DEF KernelType
  <1> HIDE DEF f
  <1>3. g \in KernelType /\ JoinsNone(f, g) /\ g.pending = f.pending
    BY <1>2, ReadyJoinsNone, MakeReadyType
  <1> HIDE DEF g
  <1>4. JoinsNone(k, g)  BY <1>1, <1>2, <1>3, SameJoinsNone, JoinsNoneTwice
  <1>5. Wake(k, i, a, interrupt)
          = IF interrupt THEN StageIfBetter(g, i) ELSE HandOffIfBetter(g, i)
    BY DEF Wake, g, f, e
  <1> QED BY <1>1, <1>2, <1>3, <1>4, <1>5, HandOverJoinsNone, JoinsNoneTwice

LEMMA BlockJoins ==
  ASSUME NEW k \in KernelType, NEW x \in WaitReason
  PROVE  LET r == BlockCurrent(k, x)
         IN  /\ r.inUse = k.inUse /\ r.wait = [k.wait EXCEPT ![k.current] = x]
             /\ r \in KernelType
  <1> DEFINE c == k.current
             m == [k EXCEPT !.state[c] = "Wait", !.wait[c] = x]
             p == PickPending(m)
  <1>1. c \in Thread  BY DEF KernelType
  <1> HIDE DEF c
  <1>2. m \in KernelType /\ m.wait = [k.wait EXCEPT ![c] = x] /\ m.inUse = k.inUse
    BY <1>1, SetWait DEF Quiet
  <1> HIDE DEF m
  <1>3. p \in KernelType /\ p.wait = m.wait /\ p.inUse = m.inUse
    BY <1>2, SwitchJoinsNone
  <1> HIDE DEF p
  <1>4. BlockCurrent(k, x) = SwitchNow(p)  BY DEF BlockCurrent, p, m, c
  <1> QED BY <1>2, <1>3, <1>4, SwitchJoinsNone DEF c

-----------------------------------------------------------------------------
(* The calls of thbase, their steps and interrupts: what they do to the    *)
(* objects.                                                                *)
JoinNone ==
    /\ inUse' = inUse
    /\ \A t \in Thread : wait'[t] \in Object => wait'[t] = wait[t]

LEMMA JoinNoneStep ==
  ASSUME NEW r, JoinsNone(Kernel, r), Becomes(r)
  PROVE  JoinNone
  BY KernelFields DEF JoinsNone, JoinNone, Becomes

LEMMA JoinsNoneStep ==
  ASSUME NEW k \in KernelType, NEW r, JoinsNone(k, r)
  PROVE  JoinsNone(k, SwitchNow(r)) /\ JoinsNone(k, SwitchNow(PickPending(r)))
         /\ JoinsNone(k, Picked(r)) /\ JoinsNone(k, Reschedule(r))
  <1>1. r \in KernelType /\ PickPending(r) \in KernelType
    BY SwitchJoinsNone DEF JoinsNone
  <1> QED BY <1>1, SwitchJoinsNone DEF JoinsNone

(* One field of one thread's record is set.                                *)
LEMMA FieldJoinsNone ==
  ASSUME NEW k \in KernelType, NEW m, JoinsNone(k, m), NEW i \in Thread
  PROVE  /\ \A s \in State : JoinsNone(k, [m EXCEPT !.state[i] = s])
         /\ \A p \in Priority : JoinsNone(k, [m EXCEPT !.priority[i] = p])
         /\ \A n \in 0 .. MaxWakeups : JoinsNone(k, [m EXCEPT !.wakeups[i] = n])
         /\ \A a \in Answer : JoinsNone(k, [m EXCEPT !.answer[i] = a])
         /\ \A j \in Index : JoinsNone(k, [m EXCEPT !.pending = j])
         /\ \A l \in Links : JoinsNone(k, [m EXCEPT !.links = l])
         /\ \A d \in SUBSET Thread : JoinsNone(k, [m EXCEPT !.delayed = d])
         /\ \A w \in {"NotWaiting", "Sleep", "Delay"} :
              JoinsNone(k, [m EXCEPT !.wait[i] = w])
  <1>1. m \in KernelType  BY DEF JoinsNone
  <1>2. \A s \in State : JoinsNone(k, [m EXCEPT !.state[i] = s])
    BY <1>1, FieldTypes DEF JoinsNone, KernelType
  <1>3. \A p \in Priority : JoinsNone(k, [m EXCEPT !.priority[i] = p])
    BY <1>1, FieldTypes DEF JoinsNone, KernelType
  <1>4. \A n \in 0 .. MaxWakeups : JoinsNone(k, [m EXCEPT !.wakeups[i] = n])
    BY <1>1, FieldTypes DEF JoinsNone, KernelType
  <1>5. \A a \in Answer : JoinsNone(k, [m EXCEPT !.answer[i] = a])
    BY <1>1, FieldTypes DEF JoinsNone, KernelType
  <1>6. \A j \in Index : JoinsNone(k, [m EXCEPT !.pending = j])
    BY <1>1, FieldTypes DEF JoinsNone, KernelType
  <1>7. \A l \in Links : JoinsNone(k, [m EXCEPT !.links = l])
    BY <1>1, FieldTypes DEF JoinsNone, KernelType
  <1>8. ASSUME NEW d \in SUBSET Thread
        PROVE  JoinsNone(k, [m EXCEPT !.delayed = d])
    <2> DEFINE r == [m EXCEPT !.delayed = d]
    <2>1. r \in KernelType /\ r.inUse = m.inUse /\ r.wait = m.wait
      BY <1>1 DEF KernelType
    <2> HIDE DEF r
    <2> QED BY <2>1 DEF JoinsNone, r
  <1>9. ASSUME NEW w \in {"NotWaiting", "Sleep", "Delay"}
        PROVE  JoinsNone(k, [m EXCEPT !.wait[i] = w])
    <2> DEFINE r == [m EXCEPT !.wait[i] = w]
    <2>1. r \in KernelType  BY <1>1, FieldTypes, StateNames
    <2>2. r.inUse = m.inUse /\ r.wait = [m.wait EXCEPT ![i] = w]
      BY <1>1 DEF KernelType
    <2>3. m.wait \in [Thread -> WaitReason]  BY <1>1 DEF KernelType
    <2> HIDE DEF r
    <2>4. \A t \in Thread : r.wait[t] \in Object => r.wait[t] = m.wait[t]
      BY <2>2, <2>3, NoObject
    <2>5. JoinsNone(k, r)  BY <2>1, <2>2, <2>4 DEF JoinsNone
    <2> QED BY <2>5 DEF r
  <1> QED BY <1>2, <1>3, <1>4, <1>5, <1>6, <1>7, <1>8, <1>9

LEMMA HelperJoinsNone ==
  ASSUME NEW k \in KernelType, NEW m, JoinsNone(k, m), NEW i \in Thread
  PROVE  /\ JoinsNone(k, MakeReady(m, i)) /\ JoinsNone(k, TakeOffReady(m, i))
         /\ JoinsNone(k, LeaveWait(m, i)) /\ JoinsNone(k, HandOffIfBetter(m, i))
         /\ JoinsNone(k, BlockCurrent(m, "Sleep"))
         /\ JoinsNone(k, BlockCurrent(m, "Delay"))
  <1>1. m \in KernelType  BY DEF JoinsNone
  <1>2. JoinsNone(m, MakeReady(m, i)) /\ JoinsNone(m, TakeOffReady(m, i))
        /\ JoinsNone(m, LeaveWait(m, i)) /\ JoinsNone(m, HandOffIfBetter(m, i))
    BY <1>1, ReadyJoinsNone, LeaveJoinsNone, HandOverJoinsNone
  <1>3. ASSUME NEW x \in {"Sleep", "Delay"}  PROVE JoinsNone(m, BlockCurrent(m, x))
    <2> DEFINE r == BlockCurrent(m, x)
    <2>1. r.inUse = m.inUse /\ r.wait = [m.wait EXCEPT ![m.current] = x]
          /\ r \in KernelType
      BY <1>1, StateNames, BlockJoins
    <2>2. m.wait \in [Thread -> WaitReason]  BY <1>1 DEF KernelType
    <2> HIDE DEF r
    <2>3. JoinsNone(m, r)  BY <2>1, <2>2, NoObject DEF JoinsNone
    <2> QED BY <2>3 DEF r
  <1> QED BY <1>2, <1>3, JoinsNoneTwice

LEMMA RotatedJoinsNone ==
  ASSUME NEW k \in KernelType, NEW p \in Priority
  PROVE  JoinsNone(k, HeadToTail(k, p))
  <1>1. k.links \in Links /\ p \in Queue  BY QueueKinds DEF KernelType
  <1>2. CASE k.links.head[p] = None
    BY <1>2, SameJoinsNone DEF HeadToTail
  <1>3. CASE k.links.head[p] # None
    <2> DEFINE l == Enqueue(PopFront(k.links, p), p, k.links.head[p])
    <2>1. k.links.head[p] \in Thread  BY <1>1, <1>3 DEF Links, Index
    <2>2. l \in Links  BY <1>1, <2>1, PopFrontType, EnqueueType
    <2>3. HeadToTail(k, p) = [k EXCEPT !.links = l]  BY <1>3 DEF HeadToTail
    <2> HIDE DEF l
    <2>4. JoinsNone(k, [k EXCEPT !.links = l])
      BY <2>1, <2>2, FieldJoinsNone, SameJoinsNone
    <2> QED BY <2>3, <2>4
  <1> QED BY <1>2, <1>3

LEMMA ThreadCallsJoinNone ==
  ASSUME Steady, NEW i \in Thread, NEW p \in Priority,
         \/ CreateThread(p) \/ DeleteThread(i) \/ StartThread(i) \/ ExitThread
         \/ TerminateThread(i) \/ RotateThreadReadyQueue(p)
         \/ IRotateThreadReadyQueue(p)
  PROVE  JoinNone
  <1> DEFINE k == Kernel
  <1>1. k \in KernelType /\ k.current \in Thread /\ JoinsNone(k, k)
    BY KernelTyped, SameJoinsNone
  <1>2. ASSUME CreateThread(p)  PROVE JoinNone
    <2>1. PICK j \in Thread : state[j] = "Free" /\ Becomes(Fresh(k, j, p))
      BY <1>2 DEF CreateThread, Fresh
    <2>2. Fresh(k, j, p).inUse = k.inUse
          /\ Fresh(k, j, p).wait = [k.wait EXCEPT ![j] = "NotWaiting"]
      BY <1>1 DEF Fresh, KernelType
    <2>3. Fresh(k, j, p) \in KernelType
      BY <2>1, KernelFields, CreateSound DEF Steady, Sound, Queues
    <2>4. JoinsNone(k, Fresh(k, j, p))
      BY <1>1, <2>2, <2>3, NoObject DEF JoinsNone, KernelType
    <2> QED BY <2>1, <2>4, JoinNoneStep
  <1>3. ASSUME DeleteThread(i)  PROVE JoinNone
    BY <1>1, <1>3, FieldJoinsNone, StateNames, JoinNoneStep DEF DeleteThread
  <1>4. ASSUME StartThread(i)  PROVE JoinNone
    <2> DEFINE a == [k EXCEPT !.priority[i] = k.initial[i]]
               m == [a EXCEPT !.answer[i] = "Ok"]
    <2>1. JoinsNone(k, a)
      <3>1. k.initial[i] \in Priority  BY <1>1 DEF KernelType
      <3> QED BY <1>1, <3>1, FieldJoinsNone
    <2>2. m = [Kernel EXCEPT !.priority[i] = initial[i], !.answer[i] = "Ok"]
      BY KernelFields
    <2> HIDE DEF a
    <2>3. JoinsNone(k, m)  BY <1>1, <2>1, FieldJoinsNone, StateNames
    <2> HIDE DEF m
    <2>4. JoinsNone(k, HandOffIfBetter(MakeReady(m, i), i))
      BY <1>1, <2>3, HelperJoinsNone
    <2>5. Becomes(HandOffIfBetter(MakeReady(m, i), i))
      BY <1>4, <2>2, Zenon DEF StartThread
    <2> QED BY <2>4, <2>5, JoinNoneStep
  <1>5. ASSUME ExitThread  PROVE JoinNone
    <2> DEFINE a == [k EXCEPT !.state[k.current] = "Dormant"]
               m == [a EXCEPT !.wait[k.current] = "NotWaiting"]
    <2>1. JoinsNone(k, a)  BY <1>1, FieldJoinsNone, StateNames
    <2>2. m = [Kernel EXCEPT !.state[current] = "Dormant",
                             !.wait[current] = "NotWaiting"]
      BY KernelFields
    <2> HIDE DEF a
    <2>3. JoinsNone(k, m)  BY <1>1, <2>1, FieldJoinsNone
    <2> HIDE DEF m
    <2>4. JoinsNone(k, SwitchNow(PickPending(m)))
      BY <1>1, <2>3, JoinsNoneStep
    <2>5. Becomes(SwitchNow(PickPending(m)))
      BY <1>5, <2>2, Zenon DEF ExitThread
    <2> QED BY <2>4, <2>5, JoinNoneStep
  <1>6. ASSUME TerminateThread(i)  PROVE JoinNone
    <2> DEFINE out == IF state[i] = "Ready" THEN TakeOffReady(Kernel, i)
                      ELSE IF state[i] = "Wait" THEN LeaveWait(Kernel, i)
                      ELSE Kernel
               j == IF out.pending = i THEN current ELSE out.pending
               a == [out EXCEPT !.pending = j]
               r == [a EXCEPT !.state[i] = "Dormant"]
    <2>1. JoinsNone(k, out)  BY <1>1, HelperJoinsNone
    <2>2. Becomes(r)  BY <1>6, Zenon DEF TerminateThread
    <2> HIDE DEF out
    <2>3. j \in Index
      BY <1>1, <2>1, KernelFields DEF JoinsNone, KernelType, Index
    <2> HIDE DEF j
    <2>4. JoinsNone(k, a)  BY <1>1, <2>1, <2>3, FieldJoinsNone
    <2> HIDE DEF a
    <2>5. JoinsNone(k, r)  BY <1>1, <2>4, FieldJoinsNone, StateNames
    <2> QED BY <2>2, <2>5, JoinNoneStep
  <1>7. ASSUME RotateThreadReadyQueue(p)  PROVE JoinNone
    <2> DEFINE s == SwitchNow(PickPending(MakeReady(k, k.current)))
    <2>1. JoinsNone(k, s)
      <3>1. JoinsNone(k, MakeReady(k, k.current))  BY <1>1, HelperJoinsNone
      <3> QED BY <1>1, <3>1, JoinsNoneStep
    <2>2. JoinsNone(k, HeadToTail(k, p))  BY <1>1, RotatedJoinsNone
    <2>3. Becomes(s) \/ Becomes(HeadToTail(k, p))
      BY <1>7, KernelFields DEF RotateThreadReadyQueue
    <2> QED BY <2>1, <2>2, <2>3, JoinNoneStep
  <1>8. ASSUME IRotateThreadReadyQueue(p)  PROVE JoinNone
    BY <1>1, <1>8, RotatedJoinsNone, JoinNoneStep DEF IRotateThreadReadyQueue
  <1> QED BY <1>2, <1>3, <1>4, <1>5, <1>6, <1>7, <1>8

LEMMA PriorityCallsJoinNone ==
  ASSUME Steady, NEW i \in Thread, NEW p \in Priority,
         ChangeThreadPriority(i, p) \/ IChangeThreadPriority(i, p)
  PROVE  JoinNone
  <1> DEFINE k == Kernel
             t == TakeOffReady(k, i)
             m == [t EXCEPT !.priority[i] = p]
             requeued == MakeReady(m, i)
             changed == [k EXCEPT !.priority[i] = p]
             best == Best(changed)
  <1>1. k \in KernelType /\ k.current \in Thread /\ JoinsNone(k, k)
    BY KernelTyped, SameJoinsNone
  <1>2. JoinsNone(k, requeued) /\ JoinsNone(k, HandOffIfBetter(requeued, i))
    <2>1. JoinsNone(k, t)  BY <1>1, HelperJoinsNone
    <2> HIDE DEF t
    <2>2. JoinsNone(k, m)  BY <1>1, <2>1, FieldJoinsNone
    <2> HIDE DEF m
    <2>3. JoinsNone(k, requeued)  BY <1>1, <2>2, HelperJoinsNone
    <2> HIDE DEF requeued
    <2> QED BY <1>1, <2>3, HelperJoinsNone
  <1>3. JoinsNone(k, changed)  BY <1>1, FieldJoinsNone
  <1>4. ASSUME ChangeThreadPriority(i, p)  PROVE JoinNone
    <2> DEFINE a == MakeReady(Picked(changed), i)
               given == [a EXCEPT !.pending = best]
               kept == MakeReady(Picked(changed), best)
    <2>1. \/ Becomes(HandOffIfBetter(requeued, i)) \/ Becomes(changed)
          \/ best # None /\ (Becomes(SwitchNow(given)) \/ Becomes(kept))
      BY <1>4, Zenon DEF ChangeThreadPriority
    <2> HIDE DEF changed
    <2>2. best \in Index  BY <1>3, PickPendingType DEF JoinsNone
    <2> HIDE DEF best
    <2>3. JoinsNone(k, Picked(changed))  BY <1>1, <1>3, JoinsNoneStep
    <2>4. JoinsNone(k, a)  BY <1>1, <2>3, HelperJoinsNone
    <2> HIDE DEF a
    <2>5. JoinsNone(k, given)  BY <1>1, <2>2, <2>4, FieldJoinsNone
    <2> HIDE DEF given
    <2>6. JoinsNone(k, SwitchNow(given))  BY <1>1, <2>5, JoinsNoneStep
    <2>7. best # None => JoinsNone(k, kept)
      BY <1>1, <2>2, <2>3, HelperJoinsNone DEF Index
    <2> QED BY <1>2, <1>3, <2>1, <2>6, <2>7, JoinNoneStep
  <1>5. ASSUME IChangeThreadPriority(i, p)  PROVE JoinNone
    <2>1. Becomes(requeued) \/ Becomes(changed)
      BY <1>5, Zenon DEF IChangeThreadPriority
    <2> HIDE DEF requeued, changed
    <2> QED BY <1>2, <1>3, <2>1, JoinNoneStep
  <1> QED BY <1>4, <1>5

LEMMA WakersJoinNone ==
  ASSUME Steady, NEW i \in Thread,
         \/ ReleaseWaitThread(i) \/ WakeupThread(i) \/ CancelWakeupThread(i)
         \/ DelayExpired(i)
  PROVE  JoinNone
  <1> DEFINE k == Kernel
  <1>1. k \in KernelType /\ k.pending \in Thread /\ JoinsNone(k, k)
    BY KernelTyped, SameJoinsNone DEF Steady, Sound, Runs
  <1>2. InInterrupt \in BOOLEAN  BY DEF InInterrupt
  <1>3. ASSUME NEW a \in Answer, Becomes(Wake(k, i, a, InInterrupt))
        PROVE  JoinNone
    <2> DEFINE b == InInterrupt
    <2> HIDE DEF b
    <2>1. b \in BOOLEAN  BY <1>2 DEF b
    <2>2. JoinsNone(k, Wake(k, i, a, b))  BY <1>1, <2>1, WakeJoinsNone
    <2>3. Becomes(Wake(k, i, a, b))  BY <1>3 DEF b
    <2> QED BY <2>2, <2>3, JoinNoneStep
  <1>4. CASE ReleaseWaitThread(i)
    BY <1>3, <1>4, StateNames DEF ReleaseWaitThread
  <1>5. ASSUME NEW n \in 0 .. MaxWakeups, Becomes([Kernel EXCEPT !.wakeups[i] = n])
        PROVE  JoinNone
    <2>1. JoinsNone(k, [k EXCEPT !.wakeups[i] = n])  BY <1>1, FieldJoinsNone
    <2> QED BY <1>5, <2>1, JoinNoneStep
  <1>6. wakeups[i] \in 0 .. MaxWakeups /\ MaxWakeups \in Nat
    BY <1>1, KernelFields, SchedulerAssumption DEF KernelType
  <1>7. CASE WakeupThread(i)
    <2>1. CASE state[i] = "Wait" /\ wait[i] = "Sleep"
      BY <1>3, <1>7, <2>1, StateNames DEF WakeupThread
    <2>2. CASE ~(state[i] = "Wait" /\ wait[i] = "Sleep")
      <3>1. k.wakeups[i] + 1 \in 0 .. MaxWakeups
        BY <1>6, <1>7, <2>2, KernelFields DEF WakeupThread
      <3>2. Becomes([Kernel EXCEPT !.wakeups[i] = k.wakeups[i] + 1])
        BY <1>7, <2>2 DEF WakeupThread
      <3> QED BY <1>5, <3>1, <3>2
    <2> QED BY <2>1, <2>2
  <1>8. CASE CancelWakeupThread(i)
    BY <1>5, <1>6, <1>8 DEF CancelWakeupThread
  <1>9. CASE DelayExpired(i)
    <2> DEFINE d == k.delayed \ {i}
               u == [k EXCEPT !.delayed = d]
               r == Wake(u, i, "Ok", TRUE)
    <2>1. u = [Kernel EXCEPT !.delayed = @ \ {i}]  OBVIOUS
    <2>2. Becomes(r) \/ Becomes(u)  BY <1>9, <2>1, Zenon DEF DelayExpired
    <2>3. d \in SUBSET Thread  BY <1>1 DEF KernelType
    <2>4. u \in KernelType /\ u.pending = k.pending
      BY <1>1, <2>3 DEF KernelType
    <2>5. JoinsNone(k, u)  BY <1>1, <2>3, FieldJoinsNone
    <2> HIDE DEF u
    <2>6. JoinsNone(u, r)  BY <1>1, <2>4, StateNames, WakeJoinsNone
    <2> HIDE DEF r
    <2>7. JoinsNone(k, r)  BY <2>5, <2>6, JoinsNoneTwice
    <2> QED BY <2>2, <2>5, <2>7, JoinNoneStep
  <1> QED BY <1>4, <1>7, <1>8, <1>9

LEMMA BlockersJoinNone ==
  ASSUME Steady, SleepThread \/ DelayThread \/ InterruptEnter \/ InterruptExit
  PROVE  JoinNone
  <1> DEFINE k == Kernel
  <1>1. k \in KernelType /\ k.current \in Thread /\ JoinsNone(k, k)
    BY KernelTyped, SameJoinsNone
  <1>2. CASE SleepThread
    <2> DEFINE c == k.current
               r == BlockCurrent(k, "Sleep")
    <2>1. k.wakeups[c] \in 0 .. MaxWakeups /\ MaxWakeups \in Nat
      BY <1>1, SchedulerAssumption DEF KernelType
    <2>2. JoinsNone(k, r)  BY <1>1, HelperJoinsNone
    <2>3. CASE k.wakeups[c] > 0
      <3> DEFINE n == k.wakeups[c] - 1
      <3>1. n \in 0 .. MaxWakeups  BY <2>1, <2>3
      <3>2. Becomes([Kernel EXCEPT !.wakeups[c] = n])
        BY <1>2, <2>3, KernelFields DEF SleepThread
      <3> HIDE DEF n
      <3>3. JoinsNone(k, [k EXCEPT !.wakeups[c] = n])
        BY <1>1, <3>1, FieldJoinsNone
      <3> QED BY <3>2, <3>3, JoinNoneStep
    <2>4. CASE ~(k.wakeups[c] > 0)
      <3>1. Becomes(r)  BY <1>2, <2>4, KernelFields DEF SleepThread
      <3> QED BY <2>2, <3>1, JoinNoneStep
    <2> QED BY <2>3, <2>4
  <1>3. CASE DelayThread
    <2> DEFINE d == k.delayed \cup {k.current}
               j == [k EXCEPT !.delayed = d]
               r == BlockCurrent(j, "Delay")
    <2>1. j = [Kernel EXCEPT !.delayed = @ \cup {current}]
      BY KernelFields
    <2>2. Becomes(r)  BY <1>3, <2>1, Zenon DEF DelayThread
    <2>3. d \in SUBSET Thread  BY <1>1 DEF KernelType
    <2>4. JoinsNone(k, j)  BY <1>1, <2>3, FieldJoinsNone
    <2> HIDE DEF j
    <2>5. JoinsNone(k, r)  BY <1>1, <2>4, HelperJoinsNone
    <2> QED BY <2>2, <2>5, JoinNoneStep
  <1>4. CASE InterruptEnter
    BY <1>1, <1>4, JoinNoneStep DEF InterruptEnter
  <1>5. CASE InterruptExit
    <2>1. JoinsNone(k, Reschedule(k))  BY <1>1, JoinsNoneStep
    <2> QED BY <1>5, <2>1, JoinNoneStep DEF InterruptExit
  <1> QED BY <1>2, <1>3, <1>4, <1>5

LEMMA SchedNextJoinsNone ==
  ASSUME Steady, SchedNext
  PROVE  JoinNone
  <1>1. Target \subseteq Thread /\ CallPriority \subseteq Priority
        /\ Idle \in Thread /\ IdlePriority \in Priority
    BY SchedulerAssumption, IdleIsThread, QueueAssumption DEF Target, Priority
  <1>2. CASE \E p \in CallPriority : CreateThread(p)
    BY <1>1, <1>2, ThreadCallsJoinNone
  <1>3. CASE \E i \in Target : DeleteThread(i) \/ StartThread(i) \/ TerminateThread(i)
    BY <1>1, <1>3, ThreadCallsJoinNone
  <1>4. CASE ExitThread
    BY <1>1, <1>4, ThreadCallsJoinNone
  <1>5. CASE \E p \in Priority : RotateThreadReadyQueue(p) \/ IRotateThreadReadyQueue(p)
    BY <1>1, <1>5, ThreadCallsJoinNone
  <1>6. CASE \E i \in Target, p \in CallPriority :
                ChangeThreadPriority(i, p) \/ IChangeThreadPriority(i, p)
    BY <1>1, <1>6, PriorityCallsJoinNone
  <1>7. CASE \E i \in Target : \/ ReleaseWaitThread(i) \/ WakeupThread(i)
                               \/ CancelWakeupThread(i) \/ DelayExpired(i)
    BY <1>1, <1>7, WakersJoinNone
  <1>8. CASE SleepThread \/ DelayThread \/ InterruptEnter \/ InterruptExit
    BY <1>8, BlockersJoinNone
  <1> QED BY <1>2, <1>3, <1>4, <1>5, <1>6, <1>7, <1>8 DEF SchedNext

-----------------------------------------------------------------------------
(* A scheduler whose objects come and go.  A delete call that goes on has  *)
(* the processor to itself, and none of the waiters it has still to wake   *)
(* is better than its caller.                                              *)
Deleting ==
    /\ closing # {} => mode = "thread"
    /\ \A o \in closing :
        /\ o \in inUse
        /\ \A t \in Thread : wait[t] = o => priority[current] <= priority[t]

Serving == Steady /\ Deleting

(* The waiters of an object in use are the threads in its list.            *)
LEMMA WaitersListed ==
  ASSUME Steady, NEW o \in Object
  PROVE  /\ links.head[o] # None
              => /\ links.head[o] \in Thread /\ wait[links.head[o]] = o
                 /\ state[links.head[o]] = "Wait"
         /\ links.head[o] = None => \A t \in Thread : wait[t] # o
         /\ o \notin inUse => \A t \in Thread : wait[t] # o
  <1> DEFINE k == Kernel
             w == PlaceOf(k)
  <1>1. /\ k \in KernelType /\ Queues(k, w) /\ Threads(k) /\ o \in Queue
        /\ k.links \in Links /\ w \in Places
    BY QueueKinds DEF Steady, Sound, Queues, KernelType
  <1>2. \A t \in Thread : w[t] = o <=> k.wait[t] = o
    <2> TAKE t \in Thread
    <2>1. k.priority[t] \in Priority  BY <1>1 DEF KernelType
    <2>2. k.wait[t] = o => k.state[t] = "Wait"
      BY <1>1, ObjectsApart DEF Threads
    <2> QED BY <2>1, <2>2, ObjectsApart DEF PlaceOf
  <1>3. ASSUME k.links.head[o] # None
        PROVE  /\ k.links.head[o] \in Thread /\ k.wait[k.links.head[o]] = o
               /\ k.state[k.links.head[o]] = "Wait"
    <2>1. k.links.head[o] \in Thread /\ w[k.links.head[o]] = o
      BY <1>1, <1>3 DEF Queues, LinkedAs, Links, Index
    <2>2. k.wait[k.links.head[o]] = o  BY <1>2, <2>1
    <2> QED BY <1>1, <2>1, <2>2, ObjectsApart DEF Threads
  <1>4. ASSUME k.links.head[o] = None, NEW t \in Thread, k.wait[t] = o
        PROVE  FALSE
    <2>1. w[t] = o /\ o # Nowhere  BY <1>2, <1>4, ObjectsApart
    <2> QED BY <1>1, <1>4, <2>1, QueueHasHead DEF Queues
  <1>5. ASSUME o \notin k.inUse, NEW t \in Thread, k.wait[t] = o
        PROVE  FALSE
    BY <1>1, <1>5 DEF Threads
  <1> QED BY <1>3, <1>4, <1>5, KernelFields

(* Every step of thbase, of its alarms and of interrupts.                  *)
LEMMA SchedNextServes ==
  ASSUME Serving, Unsafe = {}, SchedNext
  PROVE  Serving' /\ JoinNone /\ closing = {} /\ closing' = {}
  <1>1. Holds /\ JoinNone  BY SchedNextHolds, SchedNextJoinsNone DEF Serving
  <1>2. closing = {}
    <2>1. closing = {} \/ InInterrupt
      BY DEF SchedNext, CreateThread, DeleteThread, StartThread, ExitThread,
             TerminateThread, ChangeThreadPriority, IChangeThreadPriority,
             RotateThreadReadyQueue, IRotateThreadReadyQueue,
             ReleaseWaitThread, SleepThread, WakeupThread, CancelWakeupThread,
             DelayThread, DelayExpired, InterruptEnter, InterruptExit,
             InThread, InEither
    <2> QED BY <2>1 DEF Serving, Deleting, InInterrupt
  <1> QED BY <1>1, <1>2 DEF Serving, Holds, Deleting

(* A waiter is woken for an object.                                        *)
LEMMA WakeServes ==
  ASSUME Serving, InEither, NEW i \in Thread, state[i] = "Wait", NEW a \in Answer,
         Becomes(Wake(Kernel, i, a, InInterrupt)), mode' = mode
  PROVE  Serving' /\ JoinNone /\ closing = {} /\ closing' = {}
  <1>1. closing = {}
    BY DEF Serving, Deleting, InEither, InThread, InInterrupt
  <1>2. Holds  BY WakeHolds DEF Serving
  <1>3. JoinNone
    <2> DEFINE b == InInterrupt
    <2>1. b \in BOOLEAN  BY DEF InInterrupt
    <2> HIDE DEF b
    <2>2. Kernel \in KernelType /\ Kernel.pending \in Thread
      BY KernelTyped DEF Serving, Steady, Sound, Runs
    <2>3. JoinsNone(Kernel, Wake(Kernel, i, a, b))  BY <2>1, <2>2, WakeJoinsNone
    <2>4. Becomes(Wake(Kernel, i, a, b))  BY DEF b
    <2> QED BY <2>3, <2>4, JoinNoneStep
  <1> QED BY <1>1, <1>2, <1>3 DEF Serving, Holds, Deleting

LEMMA NothingServes ==
  ASSUME Serving, Becomes(Kernel), mode' = mode
  PROVE  Serving' /\ JoinNone /\ wait' = wait /\ inUse' = inUse
  <1>1. /\ Kernel' = Kernel /\ inUse' = inUse /\ wait' = wait
        /\ pending' = pending /\ current' = current /\ closing' = closing
        /\ priority' = priority
    BY DEF Becomes, Kernel
  <1>2. Sound(Kernel)'  BY <1>1 DEF Serving, Steady
  <1> QED BY <1>1, <1>2 DEF Serving, Steady, Deleting, JoinNone

(* A slot is taken: its wait list was empty, and is.                       *)
LEMMA CreatedServes ==
  ASSUME Serving, InThread, NEW o \in Object, o \notin inUse,
         Becomes(Created(Kernel, o)), mode' = mode
  PROVE  /\ Serving' /\ inUse' = inUse \cup {o} /\ wait' = wait
         /\ links' = links /\ answer' = answer
         /\ \A t \in Thread : wait[t] # o
  <1> DEFINE k == Kernel
             r == Created(k, o)
             l == [k.links EXCEPT !.head[o] = None, !.tail[o] = None]
  <1>1. /\ k \in KernelType /\ Sound(k) /\ k.links \in Links /\ o \in Queue
        /\ Queues(k, PlaceOf(k)) /\ closing = {}
    BY QueueKinds DEF Serving, Steady, Sound, Queues, KernelType, InThread
  <1>2. \A t \in Thread : wait[t] # o  BY WaitersListed DEF Serving
  <1>3. l = k.links
    <2>1. k.links.head[o] = None
      BY <1>2, KernelFields, WaitersListed DEF Serving
    <2>2. k.links.tail[o] = None  BY <1>1, <2>1 DEF Queues, LinkedAs
    <2> QED BY <1>1, <2>1, <2>2 DEF Links
  <1>4. /\ r.links = l /\ r.readyBits = k.readyBits /\ r.state = k.state
        /\ r.wait = k.wait /\ r.priority = k.priority /\ r.wakeups = k.wakeups
        /\ r.inUse = k.inUse \cup {o} /\ r.delayed = k.delayed
        /\ r.closing = k.closing /\ r.current = k.current /\ r.pending = k.pending
        /\ r.answer = k.answer
    BY <1>1 DEF Created, KernelType
  <1>5. r \in KernelType
    <2> DEFINE e == [k EXCEPT !.inUse = @ \cup {o}, !.waiters[o] = 0]
    <2>1. [k.waiters EXCEPT ![o] = 0] \in [Object -> Int]  BY <1>1 DEF KernelType
    <2>2. e \in KernelType /\ e.links = k.links  BY <1>1, <2>1 DEF KernelType
    <2>3. r = [e EXCEPT !.links.head[o] = None, !.links.tail[o] = None]
      BY DEF Created
    <2> HIDE DEF e, r
    <2>4. [e.links EXCEPT !.head[o] = None, !.tail[o] = None] \in Links
      BY <1>1, <1>3, <2>2
    <2>5. [e EXCEPT !.links.head[o] = None, !.links.tail[o] = None] \in KernelType
      BY <2>2, <2>4 DEF KernelType
    <2> QED BY <2>3, <2>5
  <1>6. Becomes(r)  OBVIOUS
  <1> HIDE DEF r, l
  <1>7. PlaceOf(r) = PlaceOf(k)  BY <1>4 DEF PlaceOf
  <1>8. Queues(r, PlaceOf(r))  BY <1>1, <1>3, <1>4, <1>5, <1>7 DEF Queues
  <1>9. Threads(r) /\ Delays(r) /\ Runs(r) /\ BestBut(r, None)
    BY <1>1, <1>4 DEF Sound, Threads, Delays, Runs, BestBut
  <1>10. Sound(r)  BY <1>8, <1>9 DEF Sound
  <1>11. r.closing = closing /\ r.pending = pending /\ r.current = current
    BY <1>4, KernelFields
  <1>12. Holds
    BY <1>6, <1>10, <1>11, SteadyStep DEF Serving, Steady, Runs, InThread, Sound
  <1>13. /\ inUse' = inUse \cup {o} /\ wait' = wait
         /\ links' = links /\ answer' = answer
    <2>1. k.links = links /\ k.answer = answer  BY DEF Kernel
    <2> QED BY <1>3, <1>4, <1>6, <2>1, KernelFields DEF Becomes
  <1> QED BY <1>1, <1>2, <1>12, <1>13 DEF Serving, Deleting, Holds

(* A delete call starts, and goes on.                                      *)
LEMMA ClosingServes ==
  ASSUME Serving, NEW c \in SUBSET inUse, NEW r \in KernelType,
         r = [Kernel EXCEPT !.closing = c], Becomes(r), mode' = mode,
         c # {} => mode = "thread",
         \A o \in c, t \in Thread : wait[t] = o => priority[current] <= priority[t]
  PROVE  Serving' /\ inUse' = inUse /\ wait' = wait
  <1> DEFINE k == Kernel
  <1>1. /\ r.links = k.links /\ r.readyBits = k.readyBits /\ r.state = k.state
        /\ r.wait = k.wait /\ r.priority = k.priority /\ r.wakeups = k.wakeups
        /\ r.inUse = k.inUse /\ r.delayed = k.delayed
        /\ r.closing = c /\ r.current = k.current /\ r.pending = k.pending
    BY KernelTyped DEF Serving, KernelType
  <1>2. Sound(k)  BY DEF Serving, Steady
  <1>3. PlaceOf(r) = PlaceOf(k)  BY <1>1 DEF PlaceOf
  <1>4. Queues(r, PlaceOf(r))  BY <1>1, <1>2, <1>3 DEF Sound, Queues
  <1>5. Threads(r) /\ Delays(r) /\ Runs(r) /\ BestBut(r, None)
    BY <1>1, <1>2 DEF Sound, Threads, Delays, Runs, BestBut
  <1>6. Sound(r)  BY <1>4, <1>5 DEF Sound
  <1>7. Kernel' = r  BY DEF Becomes, Kernel, KernelType
  <1>8. Sound(Kernel)'  BY <1>6, <1>7
  <1>9. /\ inUse' = inUse /\ wait' = wait /\ priority' = priority
        /\ closing' = c /\ current' = current /\ pending' = pending
    BY <1>1, KernelFields DEF Becomes
  <1> QED BY <1>8, <1>9 DEF Serving, Steady, Deleting

LEMMA BeginDeleteServes ==
  ASSUME Serving, Unsafe = {}, NEW o \in Object, BeginDelete(o)
  PROVE  Serving' /\ inUse' = inUse /\ wait' = wait
  <1>1. /\ o \in inUse /\ mode = "thread" /\ mode' = mode
        /\ \A t \in Thread : wait[t] = o => priority[t] >= priority[current]
    BY DEF BeginDelete, InThread
  <1> DEFINE r == [Kernel EXCEPT !.closing = {o}]
  <1>2. r \in KernelType  BY KernelTyped DEF Serving, KernelType
  <1>3. Becomes(r)  BY DEF BeginDelete
  <1>4. priority \in [Thread -> Int] /\ current \in Thread
    BY KernelTyped, KernelFields, QueueAssumption
    DEF Serving, KernelType, Priority
  <1>5. \A x \in {o}, t \in Thread : wait[t] = x => priority[current] <= priority[t]
    BY <1>1, <1>4
  <1>6. {o} \in SUBSET inUse  BY <1>1
  <1> DEFINE c == {o}
  <1> HIDE DEF c
  <1>7. r = [Kernel EXCEPT !.closing = c]  BY DEF c
  <1> HIDE DEF r
  <1>8. c \in SUBSET inUse /\ (c # {} => mode = "thread")
        /\ \A x \in c, t \in Thread : wait[t] = x => priority[current] <= priority[t]
    BY <1>1, <1>5, <1>6 DEF c
  <1> QED BY <1>1, <1>2, <1>3, <1>7, <1>8, ClosingServes

(* One more waiter is woken, and the caller is not preempted; or the slot  *)
(* is freed, with nobody waiting on it.                                    *)
LEMMA DeleteStepServes ==
  ASSUME Serving, DeleteStep
  PROVE  /\ Serving' /\ inUse' \subseteq inUse
         /\ \A t \in Thread : wait'[t] \in Object => wait'[t] = wait[t]
  <1> DEFINE k == Kernel
  <1>1. PICK o \in closing :
          Becomes(IF links.head[o] # None
                  THEN Wake(Kernel, links.head[o], "WaitDelete", TRUE)
                  ELSE [Kernel EXCEPT !.inUse = @ \ {o}, !.closing = {}])
    BY DEF DeleteStep
  <1>2. /\ k \in KernelType /\ Sound(k) /\ mode = "thread" /\ mode' = mode
        /\ k.pending = k.current /\ k.current \in Thread /\ o \in k.inUse
        /\ o \in Object
    BY KernelFields
    DEF Serving, Steady, Sound, Queues, KernelType, Deleting, DeleteStep
  <1>3. CASE links.head[o] # None
    <2> DEFINE i == links.head[o]
               r == Wake(k, i, "WaitDelete", TRUE)
    <2>1. i \in Thread /\ k.wait[i] = o /\ k.state[i] = "Wait"
      BY <1>2, <1>3, WaitersListed, KernelFields DEF Serving
    <2>2. k.priority[i] >= k.priority[k.current]
      <3>1. k.priority[k.current] <= k.priority[i]
        BY <2>1, KernelFields DEF Serving, Deleting
      <3>2. k.priority \in [Thread -> Int]
        BY <1>2, QueueAssumption DEF KernelType, Priority
      <3> QED BY <1>2, <2>1, <3>1, <3>2
    <2>3. Becomes(r)  BY <1>1, <1>3
    <2> HIDE DEF i
    <2>4. /\ Sound(r) /\ Quiet(k, r) /\ r.current = k.current
          /\ r.pending = k.pending /\ r.wait = [k.wait EXCEPT ![i] = "NotWaiting"]
      <3>1. /\ Queues(k, PlaceOf(k)) /\ Threads(k) /\ Runs(k) /\ BestBut(k, None)
            /\ DelaysBut(k, i)
        BY <1>2, <2>1 DEF Sound, Delays, DelaysBut
      <3>2. TRUE \in BOOLEAN /\ "WaitDelete" \in Answer  BY StateNames
      <3>3. Sound(r) /\ Quiet(k, r) /\ r.wait = [k.wait EXCEPT ![i] = "NotWaiting"]
        BY <2>1, <3>1, <3>2, WakeSound, Zenon
      <3>4. r.current = k.current
        BY <2>1, <3>1, <3>2, WakeSound, Zenon
      <3>5. r.pending = k.pending
        <4>1. k.priority[i] >= k.priority[k.current] => r.pending = k.pending
          BY <2>1, <3>1, <3>2, WakeSound, Zenon
        <4> QED BY <2>2, <4>1
      <3> HIDE DEF r
      <3> QED BY <3>3, <3>4, <3>5
    <2> HIDE DEF r
    <2>5. r \in KernelType  BY <2>4 DEF Sound, Queues
    <2>6. Kernel' = r  BY <2>3, <2>5 DEF Becomes, Kernel, KernelType
    <2>7. Sound(Kernel)'  BY <2>4, <2>6
    <2>8. /\ inUse' = inUse /\ closing' = closing /\ current' = current
          /\ pending' = current' /\ priority' = priority
          /\ wait' = [wait EXCEPT ![i] = "NotWaiting"]
      BY <1>2, <2>3, <2>4, KernelFields DEF Becomes, Quiet
    <2>9. \A t \in Thread : wait'[t] \in Object => wait'[t] = wait[t]
      BY <1>2, <2>8, KernelFields, NoObject DEF KernelType
    <2>10. Steady'  BY <1>2, <2>7, <2>8 DEF Steady
    <2>11. \A x \in closing' :
             /\ x \in inUse'
             /\ \A t \in Thread : wait'[t] = x => priority'[current'] <= priority'[t]
      BY <1>2, <2>8, <2>9, KernelFields DEF Serving, Deleting, KernelType
    <2> QED BY <1>2, <2>8, <2>9, <2>10, <2>11 DEF Serving, Deleting
  <1>4. CASE links.head[o] = None
    <2> DEFINE r == [k EXCEPT !.inUse = @ \ {o}, !.closing = {}]
    <2>1. \A t \in Thread : k.wait[t] # o
      BY <1>2, <1>4, WaitersListed, KernelFields DEF Serving
    <2>2. Becomes(r)  BY <1>1, <1>4
    <2>3. r \in KernelType  BY <1>2 DEF KernelType
    <2>4. /\ r.links = k.links /\ r.readyBits = k.readyBits /\ r.state = k.state
          /\ r.wait = k.wait /\ r.priority = k.priority /\ r.wakeups = k.wakeups
          /\ r.inUse = k.inUse \ {o} /\ r.delayed = k.delayed
          /\ r.closing = {} /\ r.current = k.current /\ r.pending = k.pending
      BY <1>2 DEF KernelType
    <2> HIDE DEF r
    <2>5. PlaceOf(r) = PlaceOf(k)  BY <2>4 DEF PlaceOf
    <2>6. Queues(r, PlaceOf(r))  BY <1>2, <2>3, <2>4, <2>5 DEF Sound, Queues
    <2>7. Threads(r) /\ Delays(r) /\ Runs(r) /\ BestBut(r, None)
      BY <1>2, <2>1, <2>4 DEF Sound, Threads, Delays, Runs, BestBut
    <2>8. Kernel' = r  BY <2>2, <2>3 DEF Becomes, Kernel, KernelType
    <2>9. Sound(Kernel)'  BY <2>6, <2>7, <2>8 DEF Sound
    <2>10. /\ inUse' = inUse \ {o} /\ closing' = {} /\ wait' = wait
           /\ pending' = current'
      BY <1>2, <2>2, <2>4, KernelFields DEF Becomes
    <2> QED BY <1>2, <2>9, <2>10 DEF Serving, Steady, Deleting
  <1> QED BY <1>3, <1>4

(* The caller waits on object o, wherever in its list it goes.             *)
LEMMA JoinServes ==
  ASSUME Serving, InThread, NEW o \in inUse, NEW l \in Links,
         LinkedAs(l, [PlaceOf(Kernel) EXCEPT ![current] = o]), Ranked(l),
         \A p \in Priority : l.head[p] = links.head[p],
         Becomes(BlockCurrent([Kernel EXCEPT !.links = l, !.waiters[o] = @ + 1], o)),
         mode' = mode
  PROVE  /\ Serving' /\ inUse' = inUse
         /\ wait' = [wait EXCEPT ![current] = o]
  <1> DEFINE k == Kernel
             c == k.current
             n == k.waiters[o] + 1
             j == [k EXCEPT !.links = l, !.waiters[o] = n]
             m == [j EXCEPT !.state[c] = "Wait", !.wait[c] = o]
             r == BlockCurrent(j, o)
  <1>1. /\ k \in KernelType /\ Sound(k) /\ mode = "thread" /\ closing = {}
        /\ k.pending = c /\ c \in Thread /\ c # Idle /\ c = current
        /\ o \in k.inUse /\ o \in Object /\ o \in WaitReason
    BY CallerRuns, KernelTyped, KernelFields, QueueKinds
    DEF Serving, Steady, KernelType, WaitReason, InThread
  <1>2. /\ j \in KernelType /\ j.links = l /\ j.readyBits = k.readyBits
        /\ j.state = k.state /\ j.wait = k.wait /\ Quiet(k, j)
        /\ j.delayed = k.delayed /\ j.current = c
    <2>1. [k.waiters EXCEPT ![o] = n] \in [Object -> Int]
      BY <1>1 DEF KernelType
    <2> QED BY <1>1, <2>1 DEF KernelType, Quiet
  <1>3. Becomes(r)
    <2>1. j = [Kernel EXCEPT !.links = l, !.waiters[o] = @ + 1]  OBVIOUS
    <2> HIDE DEF j
    <2> QED BY <2>1
  <1> HIDE DEF j
  <1>4. /\ m \in KernelType /\ m.links = l /\ m.readyBits = k.readyBits
        /\ m.state = [k.state EXCEPT ![c] = "Wait"]
        /\ m.wait = [k.wait EXCEPT ![c] = o]
        /\ Quiet(k, m) /\ m.delayed = k.delayed /\ m.current = c
    <2>1. /\ m \in KernelType /\ m.links = j.links /\ m.readyBits = j.readyBits
          /\ m.state = [j.state EXCEPT ![c] = "Wait"]
          /\ m.wait = [j.wait EXCEPT ![c] = o]
          /\ Quiet(j, m) /\ m.delayed = j.delayed /\ m.current = j.current
      BY <1>1, <1>2, SetWait
    <2> HIDE DEF m
    <2> QED BY <1>2, <2>1 DEF Quiet
  <1>5. r = SwitchNow(PickPending(m))  BY <1>2 DEF BlockCurrent
  <1>6. r.inUse = k.inUse /\ r.wait = [k.wait EXCEPT ![c] = o]
    BY <1>1, <1>2, BlockJoins DEF Quiet
  <1> HIDE DEF m, r
  <1>7. Queues(m, [PlaceOf(k) EXCEPT ![c] = IF o \in Object THEN o ELSE Nowhere])
    <2>1. [PlaceOf(k) EXCEPT ![c] = o] \in Places
      BY <1>1, PlaceTells, QueueKinds DEF Places
    <2>2. \A p \in Priority : p \in m.readyBits <=> m.links.head[p] # None
      BY <1>1, <1>4, KernelFields DEF Sound, Queues
    <2> QED BY <1>1, <1>4, <2>1, <2>2 DEF Queues
  <1>8. Sound(r) /\ r.pending = r.current /\ r.closing = k.closing
    <2> DEFINE s == "Wait"
    <2>1. s \in {"Dormant", "Wait"} /\ (s = "Wait" <=> o # "NotWaiting")
          /\ o # "Sleep" /\ o # "Delay"
      BY <1>1, ObjectsApart
    <2>2. m.delayed = IF o = "Delay" THEN k.delayed \cup {c} ELSE k.delayed
      BY <1>4, <2>1
    <2> QED BY <1>1, <1>4, <1>5, <1>7, <2>1, <2>2, LeaveSound
  <1>9. Holds
    BY <1>1, <1>3, <1>8, KernelFields, SteadyStep DEF Serving
  <1>10. inUse' = inUse /\ wait' = [wait EXCEPT ![current] = o]
    BY <1>1, <1>3, <1>6, KernelFields DEF Becomes
  <1> QED BY <1>1, <1>9, <1>10 DEF Serving, Holds, Deleting

(* Both ways of joining a list: at its end, or by priority.                *)
LEMMA JoinQueueServes ==
  ASSUME Serving, InThread, NEW o \in inUse,
         NEW l \in {Enqueue(links, o, current),
                    EnqueueByPriority(links, priority, o, current)},
         Becomes(BlockCurrent([Kernel EXCEPT !.links = l, !.waiters[o] = @ + 1], o)),
         mode' = mode
  PROVE  /\ Serving' /\ inUse' = inUse
         /\ wait' = [wait EXCEPT ![current] = o]
  <1> DEFINE k == Kernel
             w == PlaceOf(k)
  <1>1. /\ k \in KernelType /\ Sound(k) /\ current \in Thread /\ o \in Object
        /\ links \in Links /\ priority \in [Thread -> Priority] /\ o \in Queue
        /\ w[current] = Nowhere /\ w \in Places /\ LinkedAs(links, w)
        /\ Ranked(links)
    <2>1. k \in KernelType /\ Sound(k) /\ k.current = k.pending
      BY CallerRuns, KernelTyped DEF Serving
    <2>2. k.current \in Thread /\ o \in Object /\ k.links \in Links
          /\ k.priority \in [Thread -> Priority]
      BY <2>1, KernelFields DEF KernelType
    <2>3. w[k.current] = Nowhere
      BY <2>1, <2>2 DEF PlaceOf, Sound, Runs
    <2> QED BY <2>1, <2>2, <2>3, KernelFields, QueueKinds DEF Sound, Queues
  <1>2. /\ l \in Links /\ LinkedAs(l, [w EXCEPT ![current] = o]) /\ Ranked(l)
    BY <1>1, EnqueueType, EnqueueLinked, EnqueueRanked, EnqueueByPriorityType,
       EnqueueByPriorityLinked
  <1>3. \A p \in Priority : l.head[p] = links.head[p]
    <2>1. \A p \in Priority : p # o  BY <1>1, ObjectsApart
    <2>2. Enqueue(links, o, current).head
             = [links.head EXCEPT ![o] = IF links.tail[o] = None THEN current ELSE @]
      BY DEF Enqueue
    <2>3. ASSUME NEW at \in Thread
          PROVE  \A p \in Priority :
                   InsertBefore(links, o, at, current).head[p] = links.head[p]
      BY <1>1, <2>1, QueueKinds DEF InsertBefore, Links
    <2>4. \A p \in Priority : Enqueue(links, o, current).head[p] = links.head[p]
      BY <1>1, <2>1, <2>2, QueueKinds DEF Links
    <2> QED BY <2>3, <2>4 DEF EnqueueByPriority
  <1> QED BY <1>2, <1>3, JoinServes

-----------------------------------------------------------------------------
(* What the helpers of the scheduler leave of the wait list of object o,   *)
(* in which the threads M are.                                             *)
Spares(k, r, o, M) == r \in KernelType /\ KeepsList(k.links, r.links, o, M)

LEMMA SparesTwice ==
  ASSUME NEW k, NEW m, NEW r, NEW o, NEW M, Spares(k, m, o, M), Spares(m, r, o, M)
  PROVE  Spares(k, r, o, M)
  BY KeepsListTwice DEF Spares

LEMMA SparesLeavesSecluded ==
  ASSUME NEW k, NEW r, NEW o, NEW M, Spares(k, r, o, M)
  PROVE  r \in KernelType /\ Secluded(r.links, o, M)
  BY DEF Spares, KeepsList

LEMMA PrioritiesAreOthers ==
  ASSUME NEW o \in Object
  PROVE  o \in Queue /\ \A p \in Priority : p \in Queue \ {o}
  BY QueueKinds, ObjectsApart

(* A record with the same links, or with the links of ready queues changed.*)
LEMMA SameLinksSpare ==
  ASSUME NEW k, NEW o, NEW M, Secluded(k.links, o, M), NEW r \in KernelType,
         r.links = k.links
  PROVE  Spares(k, r, o, M)
  BY DEF Spares, KeepsList

LEMMA ReadySpares ==
  ASSUME NEW k \in KernelType, NEW o \in Object, NEW M, Secluded(k.links, o, M),
         NEW i \in Thread \ M
  PROVE  /\ Spares(k, MakeReady(k, i), o, M)
         /\ Spares(k, MakeReadyFirst(k, i), o, M)
         /\ Spares(k, TakeOffReady(k, i), o, M)
  <1>1. o \in Queue /\ k.priority[i] \in Priority /\ k.priority[i] \in Queue \ {o}
    BY PrioritiesAreOthers DEF KernelType
  <1>2. MakeReady(k, i).links = Enqueue(k.links, k.priority[i], i)
    BY DEF MakeReady, Readied, KernelType
  <1>3. MakeReadyFirst(k, i).links = EnqueueFirst(k.links, k.priority[i], i)
    BY DEF MakeReadyFirst, Readied, KernelType
  <1>4. TakeOffReady(k, i).links = Unlink(k.links, k.priority[i], i)
    BY DEF TakeOffReady, Dequeued, KernelType
  <1>5. /\ KeepsList(k.links, MakeReady(k, i).links, o, M)
        /\ KeepsList(k.links, MakeReadyFirst(k, i).links, o, M)
        /\ KeepsList(k.links, TakeOffReady(k, i).links, o, M)
    BY <1>1, <1>2, <1>3, <1>4, OthersKeepList
  <1> QED BY <1>5, MakeReadyType, MakeReadyFirstType, TakeOffReadyType DEF Spares

LEMMA StagingSpares ==
  ASSUME NEW k \in KernelType, NEW o \in Object, NEW M, Secluded(k.links, o, M),
         NEW i \in Thread
  PROVE  LET m == [k EXCEPT !.pending = i]
         IN  /\ Spares(k, m, o, M)
             /\ \A a \in Answer : Spares(k, [k EXCEPT !.answer[i] = a], o, M)
  <1>1. i \in Index  BY DEF Index
  <1>2. [k EXCEPT !.pending = i] \in KernelType
    BY <1>1, FieldTypes
  <1>3. ASSUME NEW a \in Answer PROVE [k EXCEPT !.answer[i] = a] \in KernelType
    BY FieldTypes
  <1>4. [k EXCEPT !.pending = i].links = k.links
    BY DEF KernelType
  <1>5. ASSUME NEW a \in Answer PROVE [k EXCEPT !.answer[i] = a].links = k.links
    BY DEF KernelType
  <1> QED BY <1>2, <1>3, <1>4, <1>5, SameLinksSpare

LEMMA PickSpares ==
  ASSUME NEW k \in KernelType, NEW o \in Object, NEW M, Secluded(k.links, o, M)
  PROVE  Spares(k, Picked(k), o, M) /\ Spares(k, PickPending(k), o, M)
  <1>1. Spares(k, Picked(k), o, M)
    <2>1. CASE k.readyBits = {}
      BY <2>1, SameLinksSpare DEF Picked
    <2>2. CASE k.readyBits # {}
      <3>1. Min(k.readyBits) \in Queue \ {o} /\ o \in Queue
        BY <2>2, MinIsBest, PrioritiesAreOthers DEF KernelType
      <3>2. Picked(k).links = PopFront(k.links, Min(k.readyBits))
        BY <2>2 DEF Picked, Dequeued, KernelType
      <3> QED BY <3>1, <3>2, PopOtherKeepsList, PickPendingType DEF Spares
    <2> QED BY <2>1, <2>2
  <1>2. PickPending(k).links = Picked(k).links
    BY PickPendingType DEF PickPending, KernelType
  <1> QED BY <1>1, <1>2, PickPendingType DEF Spares

LEMMA SwitchSpares ==
  ASSUME NEW k \in KernelType, NEW o \in Object, NEW M, Secluded(k.links, o, M)
  PROVE  /\ Spares(k, NewContext(k), o, M) /\ Spares(k, Reschedule(k), o, M)
         /\ Spares(k, SwitchNow(k), o, M)
  <1>1. ASSUME NEW j \in KernelType, Secluded(j.links, o, M)
        PROVE  Spares(j, NewContext(j), o, M)
    <2> DEFINE chosen == IF j.pending \in {None, j.current} THEN PickPending(j) ELSE j
    <2>1. Spares(j, chosen, o, M)
      BY <1>1, PickSpares, SameLinksSpare
    <2>2. NewContext(j).links = chosen.links
      BY <1>1, PickPendingType DEF NewContext, KernelType
    <2> QED BY <1>1, <2>1, <2>2, NewContextType DEF Spares
  <1>2. ASSUME NEW j \in KernelType, Secluded(j.links, o, M)
        PROVE  Spares(j, Reschedule(j), o, M)
    BY <1>1, <1>2, SameLinksSpare DEF Reschedule
  <1>3. Spares(k, SwitchNow(k), o, M)
    <2> DEFINE j == [k EXCEPT !.answer[k.current] = "Ok"]
    <2>1. j \in KernelType /\ j.links = k.links
      BY FieldTypes, StateNames DEF KernelType
    <2>2. Spares(k, j, o, M)  BY <2>1, SameLinksSpare
    <2>3. Spares(j, Reschedule(j), o, M)  BY <2>1, <1>2
    <2> QED BY <2>2, <2>3, SparesTwice DEF SwitchNow
  <1> QED BY <1>1, <1>2, <1>3

LEMMA HeadToTailSpares ==
  ASSUME NEW k \in KernelType, NEW o \in Object, NEW M, Secluded(k.links, o, M),
         NEW p \in Priority
  PROVE  Spares(k, HeadToTail(k, p), o, M)
  <1>1. o \in Queue /\ p \in Queue \ {o}
    BY PrioritiesAreOthers
  <1>2. HeadToTail(k, p) \in KernelType
    BY RotatedJoinsNone DEF JoinsNone
  <1>3. CASE k.links.head[p] = None
    BY <1>1, <1>3, SameLinksSpare DEF HeadToTail
  <1>4. CASE k.links.head[p] # None
    <2>1. k.links.head[p] \in Thread \ M
      BY <1>1, <1>4 DEF Secluded, Links, Index
    <2>2. KeepsList(k.links, PopFront(k.links, p), o, M)
      BY <1>1, PopOtherKeepsList
    <2>3. KeepsList(PopFront(k.links, p),
                    Enqueue(PopFront(k.links, p), p, k.links.head[p]), o, M)
      BY <1>1, <2>1, <2>2, OthersKeepList DEF KeepsList
    <2>4. HeadToTail(k, p).links = Enqueue(PopFront(k.links, p), p, k.links.head[p])
      BY <1>1, <1>4 DEF HeadToTail, KernelType
    <2> QED BY <1>2, <2>2, <2>3, <2>4, KeepsListTwice DEF Spares
  <1> QED BY <1>3, <1>4

LEMMA HandOffSpares ==
  ASSUME NEW k \in KernelType, NEW o \in Object, NEW M, Secluded(k.links, o, M),
         NEW i \in Thread \ M, k.current \notin M, k.pending \in Thread
  PROVE  Spares(k, HandOffIfBetter(k, i), o, M)
  <1> DEFINE c == k.current
             yielded == [k EXCEPT !.state[c] = "Ready",
                                  !.links = Enqueue(@, k.priority[c], c),
                                  !.readyBits = @ \cup {k.priority[c]}]
             m == [TakeOffReady(yielded, i) EXCEPT !.pending = i]
  <1>1. /\ c \in Thread \ M /\ o \in Queue /\ k.priority[c] \in Priority
        /\ k.priority[c] \in Queue \ {o}
    BY PrioritiesAreOthers DEF KernelType
  <1>2. Enqueue(k.links, k.priority[c], c) \in Links
    BY <1>1, EnqueueType DEF KernelType
  <1>3. yielded \in KernelType /\ yielded.links = Enqueue(k.links, k.priority[c], c)
    BY <1>1, <1>2, StateNames DEF KernelType
  <1>4. Spares(k, yielded, o, M)
    BY <1>1, <1>3, OthersKeepList DEF Spares
  <1> HIDE DEF yielded
  <1>5. Spares(yielded, TakeOffReady(yielded, i), o, M)
    BY <1>3, <1>4, SparesLeavesSecluded, ReadySpares
  <1>7. Spares(TakeOffReady(yielded, i), m, o, M)
    BY <1>5, StagingSpares, SparesLeavesSecluded
  <1> HIDE DEF m
  <1>8. Spares(m, SwitchNow(m), o, M)
    BY <1>7, SparesLeavesSecluded, SwitchSpares
  <1>9. Spares(k, SwitchNow(m), o, M)
    BY <1>4, <1>5, <1>7, <1>8, SparesTwice
  <1> QED BY <1>9, SameLinksSpare DEF HandOffIfBetter, m, yielded

LEMMA StageSpares ==
  ASSUME NEW k \in KernelType, NEW o \in Object, NEW M, Secluded(k.links, o, M),
         NEW i \in Thread \ M, k.current \notin M, k.pending \in Thread \ M
  PROVE  Spares(k, StageIfBetter(k, i), o, M)
  <1> DEFINE nothing == k.pending \in {None, k.current}
             displaced == IF nothing THEN MakeReadyFirst(k, k.current)
                                     ELSE MakeReady(k, k.pending)
             m == [TakeOffReady(displaced, i) EXCEPT !.pending = i]
  <1>1. k.current \in Thread \ M  BY DEF KernelType
  <1>2. Spares(k, displaced, o, M)  BY <1>1, ReadySpares
  <1> HIDE DEF displaced
  <1>3. Spares(displaced, TakeOffReady(displaced, i), o, M)
    BY <1>2, SparesLeavesSecluded, ReadySpares
  <1>4. Spares(TakeOffReady(displaced, i), m, o, M)
    BY <1>3, StagingSpares, SparesLeavesSecluded
  <1>5. Spares(k, m, o, M)
    BY <1>2, <1>3, <1>4, SparesTwice
  <1> QED BY <1>5, SameLinksSpare DEF StageIfBetter, displaced

(* leaveWait, of a thread that waits on another object or on none.         *)
LEMMA LeaveOtherSpares ==
  ASSUME NEW k \in KernelType, NEW o \in Object, NEW M, Secluded(k.links, o, M),
         NEW i \in Thread \ M, k.wait[i] # o
  PROVE  Spares(k, LeaveWait(k, i), o, M)
  <1>1. LeaveWait(k, i) \in KernelType  BY LeaveWaitType
  <1>2. CASE k.wait[i] \notin k.inUse
    BY <1>1, <1>2, SameLinksSpare DEF LeaveWait, KernelType
  <1>3. CASE k.wait[i] \in k.inUse
    <2>1. o \in Queue /\ k.wait[i] \in Queue \ {o}
      BY <1>3, QueueKinds DEF KernelType
    <2>2. LeaveWait(k, i).links = Unlink(k.links, k.wait[i], i)
      BY <1>3 DEF LeaveWait, KernelType
    <2> QED BY <1>1, <2>1, <2>2, OthersKeepList DEF Spares
  <1> QED BY <1>2, <1>3

(* The rest of wake, once the thread has left the list it was on.          *)
LEMMA WakeSpares ==
  ASSUME NEW k \in KernelType, NEW o \in Object, NEW i \in Thread, NEW M,
         Secluded(LeaveWait(k, i).links, o, M), i \notin M, k.current \notin M,
         k.pending \in Thread \ M, NEW a \in Answer, NEW interrupt \in BOOLEAN
  PROVE  Spares(LeaveWait(k, i), Wake(k, i, a, interrupt), o, M)
  <1> DEFINE left == LeaveWait(k, i)
             told == [left EXCEPT !.answer[i] = a]
             woken == MakeReady(told, i)
  <1>1. left \in KernelType /\ left.current = k.current /\ left.pending = k.pending
    BY LeaveWaitType DEF LeaveWait, KernelType
  <1>2. told.current = k.current /\ told.pending = k.pending
    BY <1>1 DEF KernelType
  <1>3. Spares(left, told, o, M)  BY <1>1, StagingSpares
  <1> HIDE DEF left, told
  <1>4. Spares(told, woken, o, M) /\ i \in Thread \ M
    BY <1>3, SparesLeavesSecluded, ReadySpares
  <1>5. woken.current = k.current /\ woken.pending = k.pending
    BY <1>2, <1>3 DEF MakeReady, Readied, KernelType, Spares
  <1> HIDE DEF woken
  <1>6. /\ Spares(woken, StageIfBetter(woken, i), o, M)
        /\ Spares(woken, HandOffIfBetter(woken, i), o, M)
    BY <1>4, <1>5, SparesLeavesSecluded, StageSpares, HandOffSpares
  <1>7. Spares(left, StageIfBetter(woken, i), o, M)
        /\ Spares(left, HandOffIfBetter(woken, i), o, M)
    BY <1>3, <1>4, <1>6, SparesTwice
  <1> QED BY <1>7 DEF Wake, woken, told, left

LEMMA BlockSpares ==
  ASSUME NEW k \in KernelType, NEW o \in Object, NEW M, Secluded(k.links, o, M),
         NEW x \in WaitReason
  PROVE  Spares(k, BlockCurrent(k, x), o, M)
  <1> DEFINE m == [k EXCEPT !.state[k.current] = "Wait", !.wait[k.current] = x]
  <1>1. m \in KernelType /\ m.links = k.links
    BY SetWait DEF KernelType
  <1>2. Spares(k, m, o, M)  BY <1>1, SameLinksSpare
  <1> HIDE DEF m
  <1>3. Spares(m, PickPending(m), o, M)
    BY <1>2, SparesLeavesSecluded, PickSpares
  <1>4. Spares(PickPending(m), SwitchNow(PickPending(m)), o, M)
    BY <1>3, SparesLeavesSecluded, SwitchSpares
  <1> QED BY <1>2, <1>3, <1>4, SparesTwice DEF BlockCurrent, m

(* The answers in the threads' frames: wake sets one, and a switch that of *)
(* the thread it switches from.                                            *)
LEMMA HelpersKeepAnswers ==
  ASSUME NEW k \in KernelType, NEW i \in Thread
  PROVE  /\ MakeReady(k, i).answer = k.answer /\ MakeReady(k, i).current = k.current
         /\ MakeReadyFirst(k, i).answer = k.answer
         /\ MakeReadyFirst(k, i).current = k.current
         /\ TakeOffReady(k, i).answer = k.answer
         /\ TakeOffReady(k, i).current = k.current
         /\ LeaveWait(k, i).answer = k.answer /\ LeaveWait(k, i).current = k.current
         /\ LeaveWait(k, i).pending = k.pending
  BY DEF KernelType, MakeReady, MakeReadyFirst, Readied, TakeOffReady, Dequeued,
         LeaveWait

LEMMA PickKeepsAnswers ==
  ASSUME NEW k \in KernelType
  PROVE  /\ Picked(k).answer = k.answer /\ Picked(k).current = k.current
         /\ PickPending(k).answer = k.answer /\ PickPending(k).current = k.current
  <1>1. Picked(k).answer = k.answer /\ Picked(k).current = k.current
    BY DEF KernelType, Picked, Dequeued
  <1> QED BY <1>1, PickPendingType DEF PickPending, KernelType

LEMMA SwitchAnswers ==
  ASSUME NEW k \in KernelType
  PROVE  /\ Reschedule(k).answer = k.answer
         /\ SwitchNow(k).answer = [k.answer EXCEPT ![k.current] = "Ok"]
  <1>1. ASSUME NEW j \in KernelType
        PROVE  Reschedule(j).answer = j.answer
    <2> DEFINE chosen == IF j.pending \in {None, j.current} THEN PickPending(j) ELSE j
    <2>1. chosen \in KernelType /\ chosen.answer = j.answer
      BY <1>1, PickPendingType, PickKeepsAnswers
    <2>2. NewContext(j).answer = chosen.answer
      BY <2>1 DEF NewContext, KernelType
    <2> QED BY <2>1, <2>2 DEF Reschedule
  <1> DEFINE j == [k EXCEPT !.answer[k.current] = "Ok"]
  <1>2. k.current \in Thread  BY DEF KernelType
  <1>3. j \in KernelType  BY <1>2, FieldTypes, StateNames
  <1>4. j.answer = [k.answer EXCEPT ![k.current] = "Ok"]
    BY DEF KernelType
  <1> HIDE DEF j
  <1>5. Reschedule(j).answer = j.answer  BY <1>1, <1>3
  <1> QED BY <1>1, <1>4, <1>5 DEF SwitchNow, j

LEMMA HandOffAnswers ==
  ASSUME NEW k \in KernelType, NEW i \in Thread
  PROVE  \A t \in Thread \ {k.current} : HandOffIfBetter(k, i).answer[t] = k.answer[t]
  <1> DEFINE c == k.current
             yielded == [k EXCEPT !.state[c] = "Ready",
                                  !.links = Enqueue(@, k.priority[c], c),
                                  !.readyBits = @ \cup {k.priority[c]}]
             m == [TakeOffReady(yielded, i) EXCEPT !.pending = i]
  <1>1. c \in Thread /\ k.priority[c] \in Priority /\ k.priority[c] \in Queue
    BY QueueKinds DEF KernelType
  <1>2. Enqueue(k.links, k.priority[c], c) \in Links
    BY <1>1, EnqueueType DEF KernelType
  <1>3. yielded \in KernelType /\ yielded.answer = k.answer /\ yielded.current = c
    BY <1>1, <1>2, StateNames DEF KernelType
  <1> HIDE DEF yielded
  <1>4. /\ TakeOffReady(yielded, i) \in KernelType
        /\ TakeOffReady(yielded, i).answer = k.answer
        /\ TakeOffReady(yielded, i).current = c
    BY <1>3, TakeOffReadyType, HelpersKeepAnswers
  <1>5. i \in Index  BY DEF Index
  <1>6. m \in KernelType  BY <1>4, <1>5, FieldTypes
  <1>7. m.answer = k.answer /\ m.current = c  BY <1>4 DEF KernelType
  <1> HIDE DEF m
  <1>8. SwitchNow(m).answer = [k.answer EXCEPT ![c] = "Ok"]
    BY <1>6, <1>7, SwitchAnswers
  <1>9. HandOffIfBetter(k, i) \in {k, SwitchNow(m)}
    BY DEF HandOffIfBetter, m, yielded
  <1> QED BY <1>8, <1>9 DEF KernelType

LEMMA StageAnswers ==
  ASSUME NEW k \in KernelType, NEW i \in Thread, k.pending \in Thread
  PROVE  StageIfBetter(k, i).answer = k.answer
  <1> DEFINE nothing == k.pending \in {None, k.current}
             displaced == IF nothing THEN MakeReadyFirst(k, k.current)
                                     ELSE MakeReady(k, k.pending)
             m == [TakeOffReady(displaced, i) EXCEPT !.pending = i]
  <1>1. k.current \in Thread  BY DEF KernelType
  <1>2. displaced \in KernelType /\ displaced.answer = k.answer
    BY <1>1, HelpersKeepAnswers, MakeReadyType, MakeReadyFirstType
  <1> HIDE DEF displaced
  <1>3. /\ TakeOffReady(displaced, i) \in KernelType
        /\ TakeOffReady(displaced, i).answer = k.answer
    BY <1>2, TakeOffReadyType, HelpersKeepAnswers
  <1>4. m.answer = k.answer  BY <1>3 DEF KernelType
  <1> QED BY <1>4 DEF StageIfBetter, displaced

LEMMA WakeAnswers ==
  ASSUME NEW k \in KernelType, NEW i \in Thread, k.pending \in Thread,
         NEW a \in Answer, NEW interrupt \in BOOLEAN
  PROVE  \A t \in Thread \ {k.current} :
            Wake(k, i, a, interrupt).answer[t] = IF t = i THEN a ELSE k.answer[t]
  <1> DEFINE left == LeaveWait(k, i)
             told == [left EXCEPT !.answer[i] = a]
             woken == MakeReady(told, i)
  <1>1. /\ left \in KernelType /\ left.answer = k.answer
        /\ left.current = k.current /\ left.pending = k.pending
    BY LeaveWaitType, HelpersKeepAnswers
  <1> HIDE DEF left
  <1>2. told \in KernelType  BY <1>1, FieldTypes
  <1>3. /\ told.answer = [k.answer EXCEPT ![i] = a]
        /\ told.current = k.current /\ told.pending = k.pending
    BY <1>1 DEF KernelType
  <1> HIDE DEF told
  <1>4. /\ woken \in KernelType /\ woken.answer = told.answer
        /\ woken.current = k.current /\ woken.pending \in Thread
    BY <1>2, <1>3, MakeReadyType, HelpersKeepAnswers
  <1> HIDE DEF woken
  <1>5. StageIfBetter(woken, i).answer = told.answer
    BY <1>4, StageAnswers
  <1>6. \A t \in Thread \ {k.current} :
           HandOffIfBetter(woken, i).answer[t] = told.answer[t]
    BY <1>4, HandOffAnswers
  <1>7. \A t \in Thread : told.answer[t] = IF t = i THEN a ELSE k.answer[t]
    BY <1>3 DEF KernelType
  <1>8. Wake(k, i, a, interrupt) = IF interrupt THEN StageIfBetter(woken, i)
                                   ELSE HandOffIfBetter(woken, i)
    BY DEF Wake, woken, told, left
  <1> QED BY <1>5, <1>6, <1>7, <1>8

LEMMA BlockAnswers ==
  ASSUME NEW k \in KernelType, NEW x \in WaitReason
  PROVE  \A t \in Thread \ {k.current} : BlockCurrent(k, x).answer[t] = k.answer[t]
  <1> DEFINE m == [k EXCEPT !.state[k.current] = "Wait", !.wait[k.current] = x]
  <1>1. k.current \in Thread  BY DEF KernelType
  <1>2. m \in KernelType  BY <1>1, SetWait
  <1>3. m.answer = k.answer /\ m.current = k.current  BY DEF KernelType
  <1> HIDE DEF m
  <1>4. /\ PickPending(m) \in KernelType /\ PickPending(m).answer = k.answer
        /\ PickPending(m).current = k.current
    BY <1>2, <1>3, PickPendingType, PickKeepsAnswers
  <1>5. SwitchNow(PickPending(m)).answer = [k.answer EXCEPT ![k.current] = "Ok"]
    BY <1>4, SwitchAnswers
  <1>6. BlockCurrent(k, x) = SwitchNow(PickPending(m))
    BY DEF BlockCurrent, m
  <1> QED BY <1>5, <1>6 DEF KernelType

-----------------------------------------------------------------------------
(* The wait list of object o, and the threads in it.                       *)
Line(o) == Contents(links, o)
WaitersOf(o) == {t \in Thread : wait[t] = o}

(* What a step may do to the list of object o, without adding to it:       *)
(* nothing, or take a thread out of it; the others are told nothing.       *)
StaysPut(o) ==
    Line(o)' = Line(o) /\ \A t \in Met(Line(o)) : answer'[t] = answer[t]

Leaves(o, i) ==
    \E n \in 1 .. Len(Line(o)) :
        /\ Line(o)[n] = i /\ Line(o)' = TakenOut(Line(o), n)
        /\ \A t \in Met(Line(o)) \ {i} : answer'[t] = answer[t]

LEMMA LineTells ==
  ASSUME Steady, NEW o \in Object
  PROVE  /\ o \in Queue /\ links \in Links /\ PlaceOf(Kernel) \in Places
         /\ LinkedAs(links, PlaceOf(Kernel)) /\ Ranked(links)
         /\ Listed(links, o, Line(o)) /\ Met(Line(o)) = WaitersOf(o)
         /\ \A n, m \in 1 .. Len(Line(o)) : Line(o)[n] = Line(o)[m] => n = m
         /\ WaitersOf(o) = InQueue(PlaceOf(Kernel), o)
         /\ Secluded(links, o, WaitersOf(o))
         /\ \A t \in WaitersOf(o) : state[t] = "Wait" /\ t # current /\ t # pending
  <1>1. /\ o \in Queue /\ links \in Links /\ PlaceOf(Kernel) \in Places
        /\ LinkedAs(links, PlaceOf(Kernel)) /\ Ranked(links)
    BY KernelFields, QueueKinds DEF Steady, Sound, Queues, KernelType
  <1>2. Listed(links, o, Line(o))  BY <1>1, ContentsListed DEF Line
  <1>3. /\ Met(Line(o)) = InQueue(PlaceOf(Kernel), o)
        /\ \A n, m \in 1 .. Len(Line(o)) : Line(o)[n] = Line(o)[m] => n = m
    BY <1>1, <1>2, ListedHolds
  <1>4. /\ \A t \in Thread : state[t] = "Wait" <=> wait[t] # "NotWaiting"
        /\ \A t \in Thread : priority[t] \in Priority
        /\ state[pending] \in {"Run", "Ready"} /\ state[current] \in {"Run", "Ready"}
    BY KernelFields DEF Steady, Sound, Queues, Threads, Runs, KernelType
  <1>5. WaitersOf(o) = InQueue(PlaceOf(Kernel), o)
    <2>1. ASSUME NEW t \in Thread
          PROVE  PlaceOf(Kernel)[t] = o <=> wait[t] = o
      BY <1>4, ObjectsApart, KernelFields DEF PlaceOf
    <2> QED BY <2>1 DEF WaitersOf, InQueue
  <1>6. Secluded(links, o, WaitersOf(o))  BY <1>1, <1>5, LinkedSecluded
  <1>7. \A t \in WaitersOf(o) : state[t] = "Wait" /\ t # current /\ t # pending
    BY <1>4, ObjectsApart DEF WaitersOf
  <1> QED BY <1>1, <1>2, <1>3, <1>5, <1>6, <1>7

(* The list after a step is the one that its links give.                   *)
LEMMA LineAfter ==
  ASSUME Steady', NEW o \in Object, NEW s, Listed(links', o, s)
  PROVE  Line(o)' = s
  <1>1. links' \in Links /\ Ranked(links')
    BY DEF Steady, Sound, Queues, Kernel, KernelType, Ranked
  <1>2. o \in Queue  BY QueueKinds
  <1>3. Listed(links', o, Contents(links', o))  BY <1>1, <1>2, ContentsListed
  <1>4. Contents(links', o) = s  BY <1>1, <1>2, <1>3, ListedUnique
  <1> QED BY <1>4 DEF Line

LEMMA StaysPutBy ==
  ASSUME Steady, Steady', NEW o \in Object, NEW r, Becomes(r),
         Spares(Kernel, r, o, WaitersOf(o)),
         \A t \in WaitersOf(o) : r.answer[t] = answer[t]
  PROVE  StaysPut(o)
  <1>1. links' = r.links /\ answer' = r.answer  BY DEF Becomes
  <1>2. KeepsList(links, links', o, WaitersOf(o))
    BY <1>1, KernelFields DEF Spares
  <1>3. Listed(links, o, Line(o)) /\ Met(Line(o)) = WaitersOf(o)
    BY LineTells
  <1>4. Listed(links', o, Line(o))
    BY <1>2, <1>3, KeptListed
  <1>5. Line(o)' = Line(o)  BY <1>4, LineAfter
  <1> QED BY <1>1, <1>3, <1>5 DEF StaysPut

(* The links with one waiter less.                                         *)
LEMMA UnlinkSecluded ==
  ASSUME Steady, NEW o \in Object, NEW i \in WaitersOf(o)
  PROVE  Secluded(Unlink(links, o, i), o, WaitersOf(o) \ {i})
  <1> DEFINE w == PlaceOf(Kernel)
             v == [w EXCEPT ![i] = Nowhere]
  <1>1. /\ o \in Queue /\ links \in Links /\ w \in Places /\ LinkedAs(links, w)
        /\ WaitersOf(o) = InQueue(w, o)
    BY LineTells
  <1>2. i \in Thread /\ w[i] = o  BY <1>1 DEF InQueue
  <1> HIDE DEF w
  <1>3. LinkedAs(Unlink(links, o, i), v) /\ v \in Places
    BY <1>1, <1>2, UnlinkLinked DEF Places
  <1>4. Unlink(links, o, i) \in Links  BY <1>1, <1>2, UnlinkType
  <1>5. InQueue(v, o) = WaitersOf(o) \ {i}
    BY <1>1, <1>2, NowhereIsNoQueue DEF InQueue, Places
  <1> HIDE DEF v
  <1> QED BY <1>1, <1>3, <1>4, <1>5, LinkedSecluded

LEMMA LeavesBy ==
  ASSUME Steady, Steady', NEW o \in Object, NEW i \in WaitersOf(o), NEW r, Becomes(r),
         KeepsList(Unlink(links, o, i), r.links, o, WaitersOf(o) \ {i}),
         \A t \in WaitersOf(o) \ {i} : r.answer[t] = answer[t]
  PROVE  Leaves(o, i)
  <1>1. links' = r.links /\ answer' = r.answer  BY DEF Becomes
  <1>2. /\ o \in Queue /\ links \in Links /\ PlaceOf(Kernel) \in Places
        /\ LinkedAs(links, PlaceOf(Kernel)) /\ Ranked(links)
        /\ Listed(links, o, Line(o)) /\ Met(Line(o)) = WaitersOf(o)
        /\ \A n, m \in 1 .. Len(Line(o)) : Line(o)[n] = Line(o)[m] => n = m
    BY LineTells
  <1>3. PICK n \in 1 .. Len(Line(o)) : Line(o)[n] = i
    BY <1>2 DEF Met
  <1>4. Listed(Unlink(links, o, i), o, TakenOut(Line(o), n))
    BY <1>2, <1>3, UnlinkListed
  <1>5. Met(TakenOut(Line(o), n)) \subseteq WaitersOf(o) \ {i}
    <2>1. Line(o) \in Seq(Thread) /\ Len(Line(o)) \in Nat
      BY <1>2, LenProperties DEF Listed
    <2>2. /\ Len(TakenOut(Line(o), n)) = Len(Line(o)) - 1
          /\ \A j \in 1 .. Len(Line(o)) - 1 :
               TakenOut(Line(o), n)[j] = IF j < n THEN Line(o)[j] ELSE Line(o)[j + 1]
      BY <2>1, TakenOutIs
    <2>3. ASSUME NEW j \in 1 .. Len(TakenOut(Line(o), n))
          PROVE  \E m \in 1 .. Len(Line(o)) : m # n /\ TakenOut(Line(o), n)[j] = Line(o)[m]
      <3>1. CASE j < n
        <4>1. j \in 1 .. Len(Line(o)) /\ j # n  BY <2>1, <2>2, <3>1
        <4> QED BY <2>2, <3>1, <4>1
      <3>2. CASE ~(j < n)
        <4>1. j + 1 \in 1 .. Len(Line(o)) /\ j + 1 # n  BY <2>1, <2>2, <3>2
        <4> QED BY <2>2, <3>2, <4>1
      <3> QED BY <3>1, <3>2
    <2>4. ASSUME NEW j \in 1 .. Len(TakenOut(Line(o), n))
          PROVE  TakenOut(Line(o), n)[j] \in WaitersOf(o) \ {i}
      <3>1. PICK m \in 1 .. Len(Line(o)) :
               m # n /\ TakenOut(Line(o), n)[j] = Line(o)[m]
        BY <2>3
      <3>2. Line(o)[m] # i  BY <1>2, <1>3, <3>1
      <3>3. Line(o)[m] \in WaitersOf(o)  BY <1>2, <3>1 DEF Met
      <3> QED BY <3>1, <3>2, <3>3
    <2> QED BY <2>4 DEF Met
  <1>6. Listed(links', o, TakenOut(Line(o), n))
    BY <1>1, <1>4, <1>5, KeptListed
  <1>7. Line(o)' = TakenOut(Line(o), n)  BY <1>6, LineAfter
  <1> QED BY <1>1, <1>2, <1>3, <1>7 DEF Leaves

(* A thread is woken, for object o or another or none, perhaps with its    *)
(* alarm gone already.                                                     *)
LEMMA WakeLines ==
  ASSUME Steady, Steady', NEW o \in Object, NEW i \in Thread, state[i] = "Wait",
         NEW a \in Answer, NEW interrupt \in BOOLEAN,
         NEW d \in SUBSET Thread,
         Becomes(Wake([Kernel EXCEPT !.delayed = d], i, a, interrupt))
  PROVE  IF wait[i] = o THEN Leaves(o, i) /\ answer'[i] = a ELSE StaysPut(o)
  <1> DEFINE k == [Kernel EXCEPT !.delayed = d]
             r == Wake(k, i, a, interrupt)
  <1>1. Kernel \in KernelType /\ Kernel.pending \in Thread /\ Kernel.answer = answer
    BY DEF Steady, Sound, Queues, Runs, Kernel
  <1>2. /\ k.links = links /\ k.wait = wait /\ k.answer = answer /\ k.inUse = inUse
        /\ k.current = current /\ k.pending = pending /\ k.pending \in Thread
    BY <1>1, KernelFields DEF KernelType
  <1>3. k \in KernelType  BY <1>1, FieldTypes
  <1>4. Becomes(r)  OBVIOUS
  <1>5. state[current] # "Wait" /\ state[pending] # "Wait" /\ current \in Thread
    BY KernelFields DEF Steady, Sound, Runs, Queues, KernelType
  <1> HIDE DEF k
  <1>6. \A t \in Thread \ {current} : r.answer[t] = IF t = i THEN a ELSE answer[t]
    BY <1>2, <1>3, WakeAnswers
  <1>7. r \in KernelType  BY <1>2, <1>3, WakeType
  <1> DEFINE W == WaitersOf(o)
  <1>8. /\ Secluded(links, o, W) /\ W \subseteq Thread
        /\ \A t \in W : t # current /\ t # pending
    BY LineTells DEF WaitersOf
  <1>9. current \in Thread \ W /\ pending \in Thread \ W
    BY <1>2, <1>5, <1>8
  <1> HIDE DEF r
  <1>10. CASE wait[i] = o
    <2>1. i \in W  BY <1>10 DEF WaitersOf
    <2>2. o \in inUse
      BY <1>10, KernelFields DEF Steady, Sound, Threads
    <2>3. LeaveWait(k, i).links = Unlink(links, o, i)
      BY <1>2, <1>3, <1>10, <2>2 DEF LeaveWait, KernelType
    <2>4. Secluded(LeaveWait(k, i).links, o, W \ {i})
      BY <2>1, <2>3, UnlinkSecluded
    <2>5. Spares(LeaveWait(k, i), r, o, W \ {i})
      BY <1>2, <1>3, <1>9, <2>4, WakeSpares DEF r
    <2>6. KeepsList(Unlink(links, o, i), r.links, o, W \ {i})
      BY <2>3, <2>5 DEF Spares
    <2>7. \A t \in W \ {i} : r.answer[t] = answer[t]
      BY <1>6, <1>8
    <2>8. Leaves(o, i)  BY <1>4, <2>1, <2>6, <2>7, LeavesBy
    <2>9. answer'[i] = a
      BY <1>4, <1>6, <1>8, <2>1 DEF Becomes
    <2> QED BY <1>10, <2>8, <2>9
  <1>11. CASE wait[i] # o
    <2>1. i \notin W /\ i \in Thread \ W  BY <1>11 DEF WaitersOf
    <2>2. Spares(k, LeaveWait(k, i), o, W)
      BY <1>2, <1>3, <1>8, <1>11, <2>1, LeaveOtherSpares
    <2>3. Spares(LeaveWait(k, i), r, o, W)
      BY <1>2, <1>3, <1>9, <2>1, <2>2, SparesLeavesSecluded, WakeSpares DEF r
    <2>4. Spares(k, r, o, W)  BY <2>2, <2>3, SparesTwice
    <2>5. Spares(Kernel, r, o, W)  BY <1>2, <2>4, KernelFields DEF Spares
    <2>6. \A t \in W : r.answer[t] = answer[t]
      BY <1>6, <1>8, <2>1
    <2>7. StaysPut(o)  BY <1>4, <2>5, <2>6, StaysPutBy
    <2> QED BY <1>11, <2>7
  <1> QED BY <1>10, <1>11
-----------------------------------------------------------------------------
(* A helper's result in which the threads M of object o's list, and what   *)
(* they will be told, are as they were; the second, with the same caller.  *)
Spared(k, r, o, M) == Spares(k, r, o, M) /\ \A t \in M : r.answer[t] = k.answer[t]

Partway(k, r, o, M) ==
    /\ Spared(k, r, o, M) /\ r.current = k.current /\ r.current \in Thread \ M

LEMMA SparedTwice ==
  ASSUME NEW k, NEW m, NEW r, NEW o, NEW M, Spared(k, m, o, M), Spared(m, r, o, M)
  PROVE  Spared(k, r, o, M)
  BY SparesTwice DEF Spared

LEMMA PartwayTwice ==
  ASSUME NEW k, NEW m, NEW r, NEW o, NEW M, Partway(k, m, o, M), Partway(m, r, o, M)
  PROVE  Partway(k, r, o, M)
  BY SparedTwice DEF Partway

LEMMA PartwayTells ==
  ASSUME NEW k, NEW m, NEW o, NEW M, Partway(k, m, o, M)
  PROVE  /\ m \in KernelType /\ Secluded(m.links, o, M) /\ Spared(k, m, o, M)
         /\ m.current = k.current /\ m.current \in Thread \ M /\ M \subseteq Thread
  BY SparesLeavesSecluded DEF Partway, Spared, Secluded

(* One field of one thread's record is set.                                *)
LEMMA FieldPartway ==
  ASSUME NEW k, NEW m, NEW o, NEW M, Partway(k, m, o, M), NEW i \in Thread
  PROVE  /\ \A s \in State : Partway(k, [m EXCEPT !.state[i] = s], o, M)
         /\ \A x \in WaitReason : Partway(k, [m EXCEPT !.wait[i] = x], o, M)
         /\ \A p \in Priority : Partway(k, [m EXCEPT !.priority[i] = p], o, M)
         /\ \A n \in 0 .. MaxWakeups : Partway(k, [m EXCEPT !.wakeups[i] = n], o, M)
         /\ \A j \in Index : Partway(k, [m EXCEPT !.pending = j], o, M)
         /\ \A d \in SUBSET Thread : Partway(k, [m EXCEPT !.delayed = d], o, M)
         /\ i \notin M => \A a \in Answer : Partway(k, [m EXCEPT !.answer[i] = a], o, M)
  <1>1. /\ m \in KernelType /\ Secluded(m.links, o, M)
        /\ m.current \in Thread \ M /\ M \subseteq Thread
    BY PartwayTells
  <1>2. ASSUME NEW r \in KernelType, r.links = m.links, r.current = m.current,
               \A t \in M : r.answer[t] = m.answer[t]
        PROVE  Partway(k, r, o, M)
    <2>1. Spared(m, r, o, M)  BY <1>1, <1>2, SameLinksSpare DEF Spared
    <2> QED BY <1>1, <1>2, <2>1, PartwayTwice DEF Partway
  <1>3. ASSUME NEW s \in State PROVE Partway(k, [m EXCEPT !.state[i] = s], o, M)
    <2>1. [m EXCEPT !.state[i] = s] \in KernelType  BY <1>1, FieldTypes
    <2> QED BY <1>1, <1>2, <2>1 DEF KernelType
  <1>4. ASSUME NEW x \in WaitReason PROVE Partway(k, [m EXCEPT !.wait[i] = x], o, M)
    <2>1. [m EXCEPT !.wait[i] = x] \in KernelType  BY <1>1, FieldTypes
    <2> QED BY <1>1, <1>2, <2>1 DEF KernelType
  <1>5. ASSUME NEW p \in Priority PROVE Partway(k, [m EXCEPT !.priority[i] = p], o, M)
    <2>1. [m EXCEPT !.priority[i] = p] \in KernelType  BY <1>1, FieldTypes
    <2> QED BY <1>1, <1>2, <2>1 DEF KernelType
  <1>6. ASSUME NEW n \in 0 .. MaxWakeups
        PROVE  Partway(k, [m EXCEPT !.wakeups[i] = n], o, M)
    <2>1. [m EXCEPT !.wakeups[i] = n] \in KernelType  BY <1>1, FieldTypes
    <2> QED BY <1>1, <1>2, <2>1 DEF KernelType
  <1>7. ASSUME NEW j \in Index PROVE Partway(k, [m EXCEPT !.pending = j], o, M)
    <2>1. [m EXCEPT !.pending = j] \in KernelType  BY <1>1, FieldTypes
    <2> QED BY <1>1, <1>2, <2>1 DEF KernelType
  <1>8. ASSUME NEW d \in SUBSET Thread PROVE Partway(k, [m EXCEPT !.delayed = d], o, M)
    <2>1. [m EXCEPT !.delayed = d] \in KernelType  BY <1>1, FieldTypes
    <2> QED BY <1>1, <1>2, <2>1 DEF KernelType
  <1>9. ASSUME i \notin M, NEW a \in Answer
        PROVE  Partway(k, [m EXCEPT !.answer[i] = a], o, M)
    <2>1. [m EXCEPT !.answer[i] = a] \in KernelType  BY <1>1, FieldTypes
    <2> QED BY <1>1, <1>2, <1>9, <2>1 DEF KernelType
  <1> QED BY <1>3, <1>4, <1>5, <1>6, <1>7, <1>8, <1>9

(* The helpers, for a thread that does not wait on o.                      *)
LEMMA HelperPartway ==
  ASSUME NEW k, NEW m, NEW o \in Object, NEW M, Partway(k, m, o, M),
         NEW i \in Thread \ M
  PROVE  /\ Partway(k, MakeReady(m, i), o, M) /\ Partway(k, TakeOffReady(m, i), o, M)
         /\ Partway(k, Picked(m), o, M) /\ Partway(k, PickPending(m), o, M)
         /\ m.wait[i] # o => Partway(k, LeaveWait(m, i), o, M)
  <1>1. /\ m \in KernelType /\ Secluded(m.links, o, M)
        /\ m.current \in Thread \ M /\ M \subseteq Thread
    BY PartwayTells
  <1>2. ASSUME NEW r, Spares(m, r, o, M), r.answer = m.answer, r.current = m.current
        PROVE  Partway(k, r, o, M)
    <2>1. Partway(m, r, o, M)  BY <1>1, <1>2 DEF Partway, Spared
    <2> QED BY <2>1, PartwayTwice
  <1>3. Partway(k, MakeReady(m, i), o, M) /\ Partway(k, TakeOffReady(m, i), o, M)
    BY <1>1, <1>2, ReadySpares, HelpersKeepAnswers
  <1>4. Partway(k, Picked(m), o, M) /\ Partway(k, PickPending(m), o, M)
    BY <1>1, <1>2, PickSpares, PickKeepsAnswers
  <1>5. m.wait[i] # o => Partway(k, LeaveWait(m, i), o, M)
    BY <1>1, <1>2, LeaveOtherSpares, HelpersKeepAnswers
  <1> QED BY <1>3, <1>4, <1>5

(* What ends a call.                                                       *)
LEMMA EndSpared ==
  ASSUME NEW k, NEW m, NEW o \in Object, NEW M, Partway(k, m, o, M)
  PROVE  /\ Spared(k, SwitchNow(m), o, M) /\ Spared(k, Reschedule(m), o, M)
         /\ \A x \in WaitReason : Spared(k, BlockCurrent(m, x), o, M)
         /\ m.pending \in Thread =>
              \A i \in Thread \ M : Spared(k, HandOffIfBetter(m, i), o, M)
         /\ \A p \in Priority : Spared(k, HeadToTail(m, p), o, M)
  <1>1. /\ m \in KernelType /\ Secluded(m.links, o, M) /\ Spared(k, m, o, M)
        /\ m.current \in Thread \ M /\ M \subseteq Thread
    BY PartwayTells
  <1>2. ASSUME NEW r, Spares(m, r, o, M),
               \A t \in Thread \ {m.current} : r.answer[t] = m.answer[t]
        PROVE  Spared(k, r, o, M)
    <2>1. Spared(m, r, o, M)  BY <1>1, <1>2 DEF Spared
    <2> QED BY <1>1, <2>1, SparedTwice
  <1>3. Spared(k, SwitchNow(m), o, M) /\ Spared(k, Reschedule(m), o, M)
    <2>1. \A t \in Thread \ {m.current} : SwitchNow(m).answer[t] = m.answer[t]
      BY <1>1, SwitchAnswers DEF KernelType
    <2>2. \A t \in Thread \ {m.current} : Reschedule(m).answer[t] = m.answer[t]
      BY <1>1, SwitchAnswers
    <2> QED BY <1>1, <1>2, <2>1, <2>2, SwitchSpares
  <1>4. ASSUME NEW x \in WaitReason PROVE Spared(k, BlockCurrent(m, x), o, M)
    BY <1>1, <1>2, BlockSpares, BlockAnswers
  <1>5. ASSUME m.pending \in Thread, NEW i \in Thread \ M
        PROVE  Spared(k, HandOffIfBetter(m, i), o, M)
    BY <1>1, <1>2, <1>5, HandOffSpares, HandOffAnswers
  <1>6. ASSUME NEW p \in Priority PROVE Spared(k, HeadToTail(m, p), o, M)
    <2>1. HeadToTail(m, p).answer = m.answer
      BY <1>1 DEF HeadToTail, KernelType
    <2> QED BY <1>1, <1>2, <2>1, HeadToTailSpares
  <1> QED BY <1>3, <1>4, <1>5, <1>6
-----------------------------------------------------------------------------
(* The calls of thbase, and what they do to the list of object o.          *)
LEMMA Bystanders ==
  ASSUME Steady, NEW o \in Object
  PROVE  /\ Kernel \in KernelType /\ Kernel.answer = answer
         /\ Partway(Kernel, Kernel, o, WaitersOf(o))
         /\ Kernel.current \in Thread \ WaitersOf(o)
         /\ Kernel.pending \in Thread \ WaitersOf(o)
         /\ \A i \in Thread : Kernel.state[i] # "Wait" => i \in Thread \ WaitersOf(o)
  <1>1. /\ Kernel \in KernelType /\ Kernel.answer = answer
        /\ Kernel.pending \in Thread /\ Kernel.current \in Thread
    BY DEF Steady, Sound, Queues, Runs, Kernel, KernelType
  <1>2. /\ Kernel.current \in Thread \ WaitersOf(o)
        /\ Kernel.pending \in Thread \ WaitersOf(o)
        /\ \A i \in Thread : Kernel.state[i] # "Wait" => i \in Thread \ WaitersOf(o)
        /\ Secluded(Kernel.links, o, WaitersOf(o))
    BY <1>1, LineTells, KernelFields
  <1>3. Partway(Kernel, Kernel, o, WaitersOf(o))
    BY <1>1, <1>2, SameLinksSpare DEF Partway, Spared
  <1> QED BY <1>1, <1>2, <1>3

LEMMA SparedStays ==
  ASSUME Steady, Steady', NEW o \in Object, NEW r, Becomes(r),
         Spared(Kernel, r, o, WaitersOf(o))
  PROVE  StaysPut(o)
  BY StaysPutBy, Bystanders DEF Spared

LEMMA PartwayStays ==
  ASSUME Steady, Steady', NEW o \in Object, NEW r, Becomes(r),
         Partway(Kernel, r, o, WaitersOf(o))
  PROVE  StaysPut(o)
  BY SparedStays DEF Partway

(* What any of these calls does: a thread that leaves o's list was         *)
(* released, or ended.                                                     *)
LeavesUnmet(o) ==
    \/ StaysPut(o)
    \/ \E i \in Thread : /\ Leaves(o, i)
                         /\ answer'[i] = "ReleaseWait" \/ state'[i] = "Dormant"

LEMMA CreateStays ==
  ASSUME Steady, Steady', NEW o \in Object, NEW p \in Priority, CreateThread(p)
  PROVE  StaysPut(o)
  <1> DEFINE k == Kernel
             M == WaitersOf(o)
  <1>1. PICK i \in Thread : state[i] = "Free" /\ Becomes(Fresh(k, i, p))
    BY DEF CreateThread, Fresh
  <1>2. /\ k \in KernelType /\ k.links = links /\ i \in Thread \ M
        /\ Secluded(links, o, M) /\ links \in Links
    BY <1>1, Bystanders, LineTells, KernelFields, StateNames
  <1>3. Fresh(k, i, p) \in KernelType
    BY <1>1, KernelFields, CreateSound DEF Steady, Sound, Queues
  <1> DEFINE l == Fresh(k, i, p).links
  <1>4. Fresh(k, i, p).answer = k.answer  BY <1>2 DEF Fresh, KernelType
  <1>5. /\ l.head = links.head /\ l.tail = links.tail
        /\ l.next = [links.next EXCEPT ![i] = None]
        /\ l.prev = [links.prev EXCEPT ![i] = None]
    BY <1>2 DEF Fresh, KernelType, Links
  <1>6. l \in Links  BY <1>3 DEF KernelType
  <1> HIDE DEF l
  <1>7. KeepsList(links, l, o, M)
    BY <1>2, <1>5, <1>6, NoneIsNoThread DEF KeepsList, Secluded, Links
  <1>8. Spared(k, Fresh(k, i, p), o, M)
    BY <1>2, <1>3, <1>4, <1>7 DEF Spared, Spares, l
  <1> QED BY <1>1, <1>8, SparedStays

LEMMA ThreadCallsStay ==
  ASSUME Steady, Steady', NEW o \in Object, NEW i \in Thread, NEW p \in Priority,
         \/ DeleteThread(i) \/ StartThread(i) \/ ExitThread
         \/ RotateThreadReadyQueue(p) \/ IRotateThreadReadyQueue(p)
  PROVE  StaysPut(o)
  <1> DEFINE k == Kernel
             M == WaitersOf(o)
             c == k.current
  <1>1. /\ k \in KernelType /\ c \in Thread \ M /\ k.pending \in Thread \ M
        /\ Partway(k, k, o, M)
        /\ \A j \in Thread : k.state[j] # "Wait" => j \in Thread \ M
    BY Bystanders
  <1>2. ASSUME DeleteThread(i)  PROVE StaysPut(o)
    <2>1. Becomes([Kernel EXCEPT !.state[i] = "Free"])
      BY <1>2 DEF DeleteThread
    <2>2. Partway(k, [k EXCEPT !.state[i] = "Free"], o, M)
      BY <1>1, FieldPartway, StateNames
    <2> QED BY <2>1, <2>2, PartwayStays
  <1>3. ASSUME StartThread(i)  PROVE StaysPut(o)
    <2> DEFINE a == [k EXCEPT !.priority[i] = k.initial[i]]
               m == [a EXCEPT !.answer[i] = "Ok"]
               r == MakeReady(m, i)
    <2>0. i \in Thread \ M  BY <1>1, <1>3, KernelFields DEF StartThread
    <2>1. Partway(k, a, o, M) /\ a.pending = k.pending
      <3>1. k.initial[i] \in Priority  BY <1>1 DEF KernelType
      <3> QED BY <1>1, <3>1, FieldPartway DEF KernelType
    <2>2. m = [Kernel EXCEPT !.priority[i] = initial[i], !.answer[i] = "Ok"]
      BY KernelFields
    <2>3. a \in KernelType  BY <2>1, PartwayTells
    <2> HIDE DEF a
    <2>4. Partway(k, m, o, M) /\ m.pending = k.pending /\ m \in KernelType
      <3>1. Partway(k, m, o, M)  BY <2>0, <2>1, FieldPartway, StateNames
      <3>2. m.pending = k.pending  BY <2>1, <2>3 DEF KernelType
      <3> QED BY <3>1, <3>2, PartwayTells
    <2> HIDE DEF m
    <2>5. Partway(k, r, o, M) /\ r.pending = k.pending
      <3>1. r.pending = m.pending  BY <2>4 DEF MakeReady, Readied, KernelType
      <3> QED BY <2>0, <2>4, <3>1, HelperPartway
    <2>6. Becomes(HandOffIfBetter(r, i))
      BY <1>3, <2>2, Zenon DEF StartThread
    <2> HIDE DEF r
    <2>7. Spared(k, HandOffIfBetter(r, i), o, M)
      BY <1>1, <2>0, <2>5, EndSpared
    <2> QED BY <2>6, <2>7, SparedStays
  <1>4. ASSUME ExitThread  PROVE StaysPut(o)
    <2> DEFINE a == [k EXCEPT !.state[c] = "Dormant"]
               m == [a EXCEPT !.wait[c] = "NotWaiting"]
    <2>1. Partway(k, a, o, M)  BY <1>1, FieldPartway, StateNames
    <2>2. m = [Kernel EXCEPT !.state[current] = "Dormant",
                             !.wait[current] = "NotWaiting"]
      BY KernelFields
    <2> HIDE DEF a
    <2>3. Partway(k, m, o, M)  BY <1>1, <2>1, FieldPartway, StateNames
    <2> HIDE DEF m
    <2>4. Partway(k, PickPending(m), o, M)  BY <1>1, <2>3, HelperPartway
    <2>5. Spared(k, SwitchNow(PickPending(m)), o, M)  BY <2>4, EndSpared
    <2>6. Becomes(SwitchNow(PickPending(m)))
      BY <1>4, <2>2, Zenon DEF ExitThread
    <2> QED BY <2>5, <2>6, SparedStays
  <1>5. Spared(k, HeadToTail(k, p), o, M)  BY <1>1, EndSpared
  <1>6. ASSUME RotateThreadReadyQueue(p)  PROVE StaysPut(o)
    <2> DEFINE m == MakeReady(k, c)
               s == SwitchNow(PickPending(m))
    <2>1. Spared(k, s, o, M)
      <3>1. Partway(k, m, o, M)  BY <1>1, HelperPartway
      <3> HIDE DEF m
      <3>2. Partway(k, PickPending(m), o, M)  BY <1>1, <3>1, HelperPartway
      <3> QED BY <3>2, EndSpared
    <2>3. Becomes(s) \/ Becomes(HeadToTail(k, p))
      BY <1>6, KernelFields DEF RotateThreadReadyQueue
    <2> QED BY <1>5, <2>1, <2>3, SparedStays
  <1>7. ASSUME IRotateThreadReadyQueue(p)  PROVE StaysPut(o)
    BY <1>5, <1>7, SparedStays DEF IRotateThreadReadyQueue
  <1> QED BY <1>2, <1>3, <1>4, <1>6, <1>7

LEMMA TerminateLeaves ==
  ASSUME Steady, Steady', NEW o \in Object, NEW i \in Thread, TerminateThread(i)
  PROVE  StaysPut(o) \/ (Leaves(o, i) /\ state'[i] = "Dormant")
  <1> DEFINE k == Kernel
             M == WaitersOf(o)
             out == IF state[i] = "Ready" THEN TakeOffReady(Kernel, i)
                    ELSE IF state[i] = "Wait" THEN LeaveWait(Kernel, i)
                    ELSE Kernel
             j == IF out.pending = i THEN current ELSE out.pending
             a == [out EXCEPT !.pending = j]
             r == [a EXCEPT !.state[i] = "Dormant"]
  <1>1. /\ k \in KernelType /\ k.current \in Thread \ M /\ k.pending \in Thread \ M
        /\ Partway(k, k, o, M) /\ k.answer = answer
        /\ \A t \in Thread : k.state[t] # "Wait" => t \in Thread \ M
    BY Bystanders
  <1>2. Becomes(r)  BY Zenon DEF TerminateThread
  <1>3. CASE wait[i] # o
    <2>1. i \in Thread \ M  BY <1>3 DEF WaitersOf
    <2>2. Partway(k, out, o, M)  BY <1>1, <1>3, <2>1, HelperPartway, KernelFields
    <2> HIDE DEF out
    <2>3. j \in Index
      BY <1>1, <2>2, PartwayTells, KernelFields DEF KernelType, Index
    <2> HIDE DEF j
    <2>4. Partway(k, a, o, M)  BY <2>2, <2>3, FieldPartway
    <2> HIDE DEF a
    <2>5. Partway(k, r, o, M)  BY <2>4, FieldPartway, StateNames
    <2> QED BY <1>2, <2>5, PartwayStays
  <1>4. CASE wait[i] = o
    <2>1. i \in M /\ o \in inUse /\ state[i] = "Wait"
      BY <1>4, LineTells, KernelFields DEF WaitersOf, Steady, Sound, Threads
    <2>2. out = LeaveWait(k, i)  BY <2>1
    <2>3. out.links = Unlink(links, o, i) /\ out.answer = answer /\ out \in KernelType
      <3>1. LeaveWait(k, i).links = Unlink(k.links, o, i)
        BY <1>1, <1>4, <2>1, KernelFields DEF LeaveWait, KernelType
      <3>2. LeaveWait(k, i) \in KernelType /\ LeaveWait(k, i).answer = k.answer
        BY <1>1, LeaveWaitType, HelpersKeepAnswers
      <3> QED BY <1>1, <2>2, <3>1, <3>2, KernelFields
    <2> HIDE DEF out
    <2>4. j \in Index
      BY <1>1, <2>3, KernelFields DEF KernelType, Index
    <2> HIDE DEF j
    <2>5. a \in KernelType /\ a.links = out.links /\ a.answer = answer
      BY <2>3, <2>4 DEF KernelType
    <2> HIDE DEF a
    <2>6. r.links = Unlink(links, o, i) /\ r.answer = answer /\ r.state[i] = "Dormant"
      BY <2>3, <2>5 DEF KernelType
    <2> HIDE DEF r
    <2>7. KeepsList(Unlink(links, o, i), r.links, o, M \ {i})
      BY <2>1, <2>6, UnlinkSecluded DEF KeepsList
    <2>8. Leaves(o, i)  BY <1>2, <2>1, <2>6, <2>7, LeavesBy
    <2> QED BY <1>2, <2>6, <2>8 DEF Becomes
  <1> QED BY <1>3, <1>4

LEMMA PriorityCallsStay ==
  ASSUME Steady, Steady', NEW o \in Object, NEW i \in Thread, NEW p \in Priority,
         ChangeThreadPriority(i, p) \/ IChangeThreadPriority(i, p)
  PROVE  StaysPut(o)
  <1> DEFINE k == Kernel
             M == WaitersOf(o)
             t == TakeOffReady(k, i)
             m == [t EXCEPT !.priority[i] = p]
             requeued == MakeReady(m, i)
             changed == [k EXCEPT !.priority[i] = p]
             best == Best(changed)
  <1>1. /\ k \in KernelType /\ k.current \in Thread \ M /\ k.pending \in Thread \ M
        /\ Partway(k, k, o, M) /\ Secluded(k.links, o, M)
        /\ \A j \in Thread : k.state[j] # "Wait" => j \in Thread \ M
    BY Bystanders, PartwayTells
  <1>2. ASSUME state[i] = "Ready"
        PROVE  /\ Spared(k, requeued, o, M)
               /\ Spared(k, HandOffIfBetter(requeued, i), o, M)
    <2>0. i \in Thread \ M  BY <1>1, <1>2, KernelFields
    <2>1. Partway(k, t, o, M) /\ t.pending = k.pending /\ t \in KernelType
      <3>1. Partway(k, t, o, M)  BY <1>1, <2>0, HelperPartway
      <3>2. t.pending = k.pending  BY <1>1 DEF TakeOffReady, Dequeued, KernelType
      <3> QED BY <3>1, <3>2, PartwayTells
    <2> HIDE DEF t
    <2>2. Partway(k, m, o, M) /\ m.pending = k.pending /\ m \in KernelType
      <3>1. Partway(k, m, o, M)  BY <2>1, FieldPartway
      <3>2. m.pending = k.pending  BY <2>1 DEF KernelType
      <3> QED BY <3>1, <3>2, PartwayTells
    <2> HIDE DEF m
    <2>3. Partway(k, requeued, o, M) /\ requeued.pending = k.pending
      <3>1. requeued.pending = m.pending  BY <2>2 DEF MakeReady, Readied, KernelType
      <3> QED BY <2>0, <2>2, <3>1, HelperPartway
    <2> HIDE DEF requeued
    <2>4. Spared(k, requeued, o, M)  BY <2>3 DEF Partway
    <2> QED BY <1>1, <2>0, <2>3, <2>4, EndSpared
  <1>3. Partway(k, changed, o, M)  BY <1>1, FieldPartway
  <1>4. best = None \/ best \in Thread \ M
    <2>1. changed.readyBits = k.readyBits /\ changed.links = k.links
          /\ changed \in KernelType
      BY <1>1 DEF KernelType
    <2> HIDE DEF changed
    <2>2. CASE changed.readyBits = {}
      BY <2>2 DEF Best
    <2>3. CASE changed.readyBits # {}
      <3>1. Min(changed.readyBits) \in Queue \ {o}
        BY <2>1, <2>3, MinIsBest, PrioritiesAreOthers DEF KernelType
      <3>2. best \in Index /\ best \notin M
        BY <1>1, <2>1, <2>3, <3>1 DEF Best, Secluded, Links
      <3> QED BY <3>2 DEF Index
    <2> QED BY <2>2, <2>3
  <1>5. ASSUME ChangeThreadPriority(i, p)  PROVE StaysPut(o)
    <2> DEFINE a == MakeReady(Picked(changed), i)
               given == [a EXCEPT !.pending = best]
               kept == MakeReady(Picked(changed), best)
    <2>1. \/ state[i] = "Ready" /\ Becomes(HandOffIfBetter(requeued, i))
          \/ Becomes(changed)
          \/ /\ best # None /\ i = current
             /\ Becomes(SwitchNow(given)) \/ Becomes(kept)
      BY <1>5, Zenon DEF ChangeThreadPriority
    <2> HIDE DEF changed
    <2>2. Partway(k, Picked(changed), o, M)  BY <1>1, <1>3, HelperPartway
    <2> HIDE DEF best
    <2>3. ASSUME best # None, i = current
          PROVE  Spared(k, SwitchNow(given), o, M) /\ Spared(k, kept, o, M)
      <3>1. best \in Thread \ M /\ i \in Thread \ M /\ best \in Index
        BY <1>1, <1>4, <2>3, KernelFields DEF Index
      <3>2. Partway(k, a, o, M) /\ Partway(k, kept, o, M)
        BY <2>2, <3>1, HelperPartway
      <3> HIDE DEF a, kept
      <3>3. Partway(k, given, o, M)  BY <3>1, <3>2, FieldPartway
      <3> QED BY <3>2, <3>3, EndSpared DEF Partway
    <2>4. Spared(k, changed, o, M)  BY <1>3 DEF Partway
    <2> HIDE DEF a, given, kept, requeued
    <2> QED BY <1>2, <2>1, <2>3, <2>4, SparedStays
  <1>6. ASSUME IChangeThreadPriority(i, p)  PROVE StaysPut(o)
    <2>1. (state[i] = "Ready" /\ Becomes(requeued)) \/ Becomes(changed)
      BY <1>6, Zenon DEF IChangeThreadPriority
    <2>2. Spared(k, changed, o, M)  BY <1>3 DEF Partway
    <2> HIDE DEF requeued, changed
    <2> QED BY <1>2, <2>1, <2>2, SparedStays
  <1> QED BY <1>5, <1>6

LEMMA WakersLeave ==
  ASSUME Steady, Steady', NEW o \in Object, NEW i \in Thread,
         \/ ReleaseWaitThread(i) \/ WakeupThread(i) \/ CancelWakeupThread(i)
         \/ DelayExpired(i)
  PROVE  StaysPut(o) \/ (Leaves(o, i) /\ answer'[i] = "ReleaseWait")
  <1> DEFINE k == Kernel
             M == WaitersOf(o)
  <1>1. /\ k \in KernelType /\ Partway(k, k, o, M) /\ delayed \in SUBSET Thread
        /\ wakeups[i] \in 0 .. MaxWakeups /\ MaxWakeups \in Nat
        /\ o \notin {"Sleep", "Delay"}
    BY Bystanders, KernelFields, SchedulerAssumption, ObjectsApart DEF KernelType
  <1>2. InInterrupt \in BOOLEAN /\ [Kernel EXCEPT !.delayed = delayed] = Kernel
    BY DEF InInterrupt, Kernel
  <1>3. ASSUME NEW a \in Answer, state[i] = "Wait",
               Becomes(Wake(Kernel, i, a, InInterrupt))
        PROVE  IF wait[i] = o THEN Leaves(o, i) /\ answer'[i] = a ELSE StaysPut(o)
    <2> DEFINE b == InInterrupt
               d == delayed
               u == [Kernel EXCEPT !.delayed = d]
    <2>1. Becomes(Wake(u, i, a, b))  BY <1>2, <1>3
    <2>2. b \in BOOLEAN /\ d \in SUBSET Thread  BY <1>1, <1>2
    <2> HIDE DEF b, d
    <2> QED BY <1>3, <2>1, <2>2, WakeLines
  <1>4. CASE ReleaseWaitThread(i)
    BY <1>3, <1>4, StateNames DEF ReleaseWaitThread
  <1>5. ASSUME NEW n \in 0 .. MaxWakeups, Becomes([Kernel EXCEPT !.wakeups[i] = n])
        PROVE  StaysPut(o)
    <2>1. Partway(k, [k EXCEPT !.wakeups[i] = n], o, M)  BY <1>1, FieldPartway
    <2> QED BY <1>5, <2>1, PartwayStays
  <1>6. CASE WakeupThread(i)
    <2>1. CASE state[i] = "Wait" /\ wait[i] = "Sleep"
      BY <1>1, <1>3, <1>6, <2>1, StateNames DEF WakeupThread
    <2>2. CASE ~(state[i] = "Wait" /\ wait[i] = "Sleep")
      <3>1. k.wakeups[i] + 1 \in 0 .. MaxWakeups
        BY <1>1, <1>6, <2>2, KernelFields DEF WakeupThread
      <3>2. Becomes([Kernel EXCEPT !.wakeups[i] = k.wakeups[i] + 1])
        BY <1>6, <2>2 DEF WakeupThread
      <3> QED BY <1>5, <3>1, <3>2
    <2> QED BY <2>1, <2>2
  <1>7. CASE CancelWakeupThread(i)
    BY <1>1, <1>5, <1>7 DEF CancelWakeupThread
  <1>8. CASE DelayExpired(i)
    <2> DEFINE d == k.delayed \ {i}
               u == [k EXCEPT !.delayed = d]
               r == Wake(u, i, "Ok", TRUE)
    <2>1. u = [Kernel EXCEPT !.delayed = @ \ {i}]  OBVIOUS
    <2>2. (state[i] = "Wait" /\ wait[i] = "Delay" /\ Becomes(r)) \/ Becomes(u)
      BY <1>8, <2>1, Zenon DEF DelayExpired
    <2>3. d \in SUBSET Thread  BY <1>1 DEF KernelType
    <2>4. Partway(k, u, o, M)  BY <1>1, <2>3, FieldPartway
    <2> HIDE DEF d
    <2>5. ASSUME state[i] = "Wait", wait[i] = "Delay", Becomes(r)
          PROVE  StaysPut(o)
      <3>1. TRUE \in BOOLEAN /\ "Ok" \in Answer  BY StateNames
      <3> QED BY <1>1, <2>3, <2>5, <3>1, WakeLines
    <2> HIDE DEF r, u
    <2> QED BY <2>2, <2>4, <2>5, PartwayStays
  <1> QED BY <1>4, <1>6, <1>7, <1>8

LEMMA BlockersStay ==
  ASSUME Steady, Steady', NEW o \in Object,
         SleepThread \/ DelayThread \/ InterruptEnter \/ InterruptExit
  PROVE  StaysPut(o)
  <1> DEFINE k == Kernel
             M == WaitersOf(o)
             c == k.current
  <1>1. k \in KernelType /\ c \in Thread \ M /\ Partway(k, k, o, M)
    BY Bystanders
  <1>2. CASE SleepThread
    <2>1. k.wakeups[c] \in 0 .. MaxWakeups /\ MaxWakeups \in Nat
      BY <1>1, SchedulerAssumption DEF KernelType
    <2>2. CASE k.wakeups[c] > 0
      <3> DEFINE n == k.wakeups[c] - 1
      <3>1. n \in 0 .. MaxWakeups  BY <2>1, <2>2
      <3>2. Becomes([Kernel EXCEPT !.wakeups[c] = n])
        BY <1>2, <2>2, KernelFields DEF SleepThread
      <3> HIDE DEF n
      <3>3. Partway(k, [k EXCEPT !.wakeups[c] = n], o, M)
        BY <1>1, <3>1, FieldPartway
      <3> QED BY <3>2, <3>3, PartwayStays
    <2>3. CASE ~(k.wakeups[c] > 0)
      <3>1. Becomes(BlockCurrent(k, "Sleep"))
        BY <1>2, <2>3, KernelFields DEF SleepThread
      <3>2. Spared(k, BlockCurrent(k, "Sleep"), o, M)
        BY <1>1, EndSpared, StateNames
      <3> QED BY <3>1, <3>2, SparedStays
    <2> QED BY <2>2, <2>3
  <1>3. CASE DelayThread
    <2> DEFINE d == k.delayed \cup {c}
               j == [k EXCEPT !.delayed = d]
               r == BlockCurrent(j, "Delay")
    <2>1. j = [Kernel EXCEPT !.delayed = @ \cup {current}]
      BY KernelFields
    <2>2. Becomes(r)  BY <1>3, <2>1, Zenon DEF DelayThread
    <2>3. d \in SUBSET Thread  BY <1>1 DEF KernelType
    <2>4. Partway(k, j, o, M)  BY <1>1, <2>3, FieldPartway
    <2> HIDE DEF j
    <2>5. Spared(k, r, o, M)  BY <2>4, EndSpared, StateNames
    <2> QED BY <2>2, <2>5, SparedStays
  <1>4. CASE InterruptEnter
    BY <1>1, <1>4, PartwayStays DEF InterruptEnter
  <1>5. CASE InterruptExit
    <2>1. Spared(k, Reschedule(k), o, M)  BY <1>1, EndSpared
    <2> QED BY <1>5, <2>1, SparedStays DEF InterruptExit
  <1> QED BY <1>2, <1>3, <1>4, <1>5

LEMMA SchedNextLeaves ==
  ASSUME Steady, Steady', NEW o \in Object, SchedNext
  PROVE  LeavesUnmet(o)
  <1>1. Target \subseteq Thread /\ CallPriority \subseteq Priority
        /\ Idle \in Thread /\ IdlePriority \in Priority
    BY SchedulerAssumption, IdleIsThread, QueueAssumption DEF Target, Priority
  <1>2. CASE \E p \in CallPriority : CreateThread(p)
    BY <1>1, <1>2, CreateStays DEF LeavesUnmet
  <1>3. CASE \E i \in Target : DeleteThread(i) \/ StartThread(i)
    BY <1>1, <1>3, ThreadCallsStay DEF LeavesUnmet
  <1>4. CASE ExitThread
    BY <1>1, <1>4, ThreadCallsStay DEF LeavesUnmet
  <1>5. CASE \E p \in Priority : RotateThreadReadyQueue(p) \/ IRotateThreadReadyQueue(p)
    BY <1>1, <1>5, ThreadCallsStay DEF LeavesUnmet
  <1>6. CASE \E i \in Target, p \in CallPriority :
                ChangeThreadPriority(i, p) \/ IChangeThreadPriority(i, p)
    BY <1>1, <1>6, PriorityCallsStay DEF LeavesUnmet
  <1>7. CASE \E i \in Target : \/ ReleaseWaitThread(i) \/ WakeupThread(i)
                               \/ CancelWakeupThread(i) \/ DelayExpired(i)
    BY <1>1, <1>7, WakersLeave DEF LeavesUnmet
  <1>8. CASE SleepThread \/ DelayThread \/ InterruptEnter \/ InterruptExit
    BY <1>8, BlockersStay DEF LeavesUnmet
  <1>9. CASE \E i \in Target : TerminateThread(i)
    BY <1>1, <1>9, TerminateLeaves DEF LeavesUnmet
  <1> QED BY <1>2, <1>3, <1>4, <1>5, <1>6, <1>7, <1>8, <1>9 DEF SchedNext

-----------------------------------------------------------------------------
(* Objects come and go: what their calls do to the list of object o.       *)
LEMMA QuietStays ==
  ASSUME NEW o \in Object, links' = links, answer' = answer
  PROVE  StaysPut(o)
  BY DEF StaysPut, Line

LEMMA LineStarts ==
  ASSUME Steady, NEW o \in Object
  PROVE  /\ Line(o) = <<>> <=> links.head[o] = None
         /\ Line(o) # <<>> => Line(o)[1] = links.head[o] /\ 1 \in 1 .. Len(Line(o))
         /\ Line(o) \in Seq(Thread) /\ Len(Line(o)) \in Nat
  <1>1. Listed(links, o, Line(o))  BY LineTells
  <1>2. Line(o) \in Seq(Thread) /\ Len(Line(o)) \in Nat
    BY <1>1, LenProperties DEF Listed
  <1>3. Line(o) # <<>> => 1 \in 1 .. Len(Line(o))
    BY <1>2, EmptySeq
  <1>4. Line(o) # <<>> => Line(o)[1] \in Thread
    BY <1>2, <1>3, ElementOfSeq
  <1> QED BY <1>1, <1>2, <1>3, <1>4, NoneIsNoThread DEF Listed

(* A list whose first thread leaves is its tail.                           *)
LEMMA FirstLeaves ==
  ASSUME Steady, NEW o \in Object, Line(o) # <<>>, NEW i, i = Head(Line(o)),
         Leaves(o, i)
  PROVE  /\ Line(o)' = Tail(Line(o))
         /\ \A t \in Met(Line(o)) \ {i} : answer'[t] = answer[t]
  <1> DEFINE s == Line(o)
  <1>1. /\ s \in Seq(Thread) /\ Len(s) \in Nat /\ 1 \in 1 .. Len(s)
        /\ \A n, m \in 1 .. Len(s) : s[n] = s[m] => n = m
    BY LineStarts, LineTells
  <1>2. PICK n \in 1 .. Len(s) :
          /\ s[n] = i /\ Line(o)' = TakenOut(s, n)
          /\ \A t \in Met(s) \ {i} : answer'[t] = answer[t]
    BY DEF Leaves
  <1>3. Head(s) = s[1]
    <2>1. s \in Seq(Thread) /\ s # <<>>  BY <1>1
    <2> HIDE DEF s
    <2> QED BY <2>1, HeadIs
  <1>4. n = 1  BY <1>1, <1>2, <1>3
  <1>5. TakenOut(s, 1) = Tail(s)
    <2>1. /\ TakenOut(s, 1) \in Seq(Thread) /\ Len(TakenOut(s, 1)) = Len(s) - 1
          /\ \A j \in 1 .. Len(s) - 1 : TakenOut(s, 1)[j] = s[j + 1]
      <3>1. ASSUME NEW m \in 1 .. Len(s)
            PROVE  /\ TakenOut(s, m) \in Seq(Thread) /\ Len(TakenOut(s, m)) = Len(s) - 1
                   /\ \A j \in 1 .. Len(s) - 1 :
                        TakenOut(s, m)[j] = IF j < m THEN s[j] ELSE s[j + 1]
        BY <1>1, TakenOutIs
      <3>2. /\ TakenOut(s, 1) \in Seq(Thread) /\ Len(TakenOut(s, 1)) = Len(s) - 1
            /\ \A j \in 1 .. Len(s) - 1 :
                 TakenOut(s, 1)[j] = IF j < 1 THEN s[j] ELSE s[j + 1]
        BY <1>1, <3>1
      <3> QED BY <1>1, <3>2
    <2>2. /\ Tail(s) \in Seq(Thread) /\ Len(Tail(s)) = Len(s) - 1
          /\ \A j \in 1 .. Len(s) - 1 : Tail(s)[j] = s[j + 1]
      <3>1. s # <<>>  BY <1>1, EmptySeq
      <3> HIDE DEF s
      <3> QED BY <1>1, <3>1, HeadTailProperties
    <2> HIDE DEF s
    <2> QED BY <1>1, <2>1, <2>2, SeqEqual
  <1> QED BY <1>2, <1>4, <1>5

(* One step of a delete call wakes the first thread of the list, or finds  *)
(* the list empty and frees the slot.                                      *)
LEMMA DeleteStepLines ==
  ASSUME Serving, Serving', DeleteStep, NEW o \in Object
  PROVE  \/ StaysPut(o) /\ (o \in inUse' <=> o \in inUse)
         \/ /\ o \in inUse /\ Line(o) # <<>> /\ inUse' = inUse
            /\ Leaves(o, Head(Line(o))) /\ answer'[Head(Line(o))] = "WaitDelete"
         \/ /\ o \in inUse /\ Line(o) = <<>> /\ Line(o)' = <<>> /\ o \notin inUse'
  <1>1. PICK x \in closing :
          Becomes(IF links.head[x] # None
                  THEN Wake(Kernel, links.head[x], "WaitDelete", TRUE)
                  ELSE [Kernel EXCEPT !.inUse = @ \ {x}, !.closing = {}])
    BY DEF DeleteStep
  <1>2. /\ Steady /\ Steady' /\ x \in inUse /\ x \in Object
        /\ Kernel \in KernelType /\ Kernel.pending \in Thread
    BY KernelFields DEF Serving, Steady, Sound, Queues, Runs, KernelType, Deleting
  <1>3. CASE links.head[x] # None
    <2> DEFINE i == links.head[x]
               d == delayed
    <2>1. i \in Thread /\ wait[i] = x /\ state[i] = "Wait"
      BY <1>2, <1>3, WaitersListed
    <2>2. d \in SUBSET Thread /\ TRUE \in BOOLEAN /\ "WaitDelete" \in Answer
      BY <1>2, KernelFields, StateNames DEF KernelType
    <2>3. [Kernel EXCEPT !.delayed = d] = Kernel  BY DEF Kernel
    <2>4. Becomes(Wake([Kernel EXCEPT !.delayed = d], i, "WaitDelete", TRUE))
      BY <1>1, <1>3, <2>3
    <2>5. inUse' = inUse
      <3>1. JoinsNone(Kernel, Wake(Kernel, i, "WaitDelete", TRUE))
        BY <1>2, <2>1, <2>2, WakeJoinsNone
      <3> QED BY <1>1, <1>3, <3>1, JoinNoneStep DEF JoinNone
    <2> HIDE DEF i, d
    <2>6. IF wait[i] = o THEN Leaves(o, i) /\ answer'[i] = "WaitDelete" ELSE StaysPut(o)
      BY <1>2, <2>1, <2>2, <2>4, WakeLines
    <2>7. ASSUME x = o PROVE Line(o) # <<>> /\ Head(Line(o)) = i
      <3>1. Line(o) # <<>> /\ Line(o)[1] = i /\ Line(o) \in Seq(Thread)
        BY <1>2, <1>3, <2>7, LineStarts DEF i
      <3> QED BY <3>1, HeadIs
    <2> QED BY <1>2, <2>1, <2>5, <2>6, <2>7
  <1>4. CASE links.head[x] = None
    <2>1. Becomes([Kernel EXCEPT !.inUse = @ \ {x}, !.closing = {}])
      BY <1>1, <1>4
    <2>2. links' = links /\ answer' = answer /\ inUse' = inUse \ {x}
      BY <2>1 DEF Becomes, Kernel
    <2>3. StaysPut(o)  BY <2>2, QuietStays
    <2>4. o = x => Line(o) = <<>>  BY <1>2, <1>4, LineStarts
    <2> QED BY <1>2, <2>2, <2>3, <2>4 DEF StaysPut
  <1> QED BY <1>3, <1>4

(* The caller joins the list of o, and no other.                           *)
Joins(o, n) ==
    /\ Line(o)' = PutIn(Line(o), n, current)
    /\ current \in Thread \ Met(Line(o))
    /\ \A t \in Met(Line(o)) : answer'[t] = answer[t]

LEMMA JoinLines ==
  ASSUME Serving, Serving', InThread, NEW o \in inUse, NEW first \in BOOLEAN,
         NEW l, l = IF first THEN Enqueue(links, o, current)
                    ELSE EnqueueByPriority(links, priority, o, current),
         Becomes(BlockCurrent([Kernel EXCEPT !.links = l, !.waiters[o] = @ + 1], o))
  PROVE  /\ \E n \in 0 .. Len(Line(o)) : Joins(o, n) /\ (first => n = Len(Line(o)))
         /\ \A x \in Object \ {o} : StaysPut(x)
  <1> DEFINE k == Kernel
             c == k.current
             w == PlaceOf(Kernel)
             v == [w EXCEPT ![c] = o]
             s == Line(o)
             M == WaitersOf(o) \cup {c}
             b == k.waiters[o] + 1
             j == [k EXCEPT !.links = l, !.waiters[o] = b]
             r == BlockCurrent(j, o)
  <1>1. /\ Steady /\ Steady' /\ k \in KernelType /\ c \in Thread /\ c = current
        /\ k.links = links /\ o \in Object /\ o \in WaitReason
        /\ k.priority = priority /\ priority \in [Thread -> Priority]
    BY KernelTyped, KernelFields, QueueKinds DEF Serving, KernelType, WaitReason
  <1>2. /\ o \in Queue /\ links \in Links /\ w \in Places /\ LinkedAs(links, w)
        /\ Ranked(links) /\ Listed(links, o, s) /\ Met(s) = WaitersOf(o)
        /\ WaitersOf(o) = InQueue(w, o)
    BY <1>1, LineTells
  <1>3. c \in Thread \ WaitersOf(o)  BY <1>1, Bystanders
  <1>4. w[c] = Nowhere
    <2>1. Sound(k) /\ k.pending = c  BY <1>1, CallerRuns
    <2> QED BY <1>1, <2>1 DEF PlaceOf, Sound, Runs
  <1>5. s \in Seq(Thread) /\ Len(s) \in Nat  BY <1>1, LineStarts
  <1>6. /\ l \in Links /\ LinkedAs(l, v) /\ v \in Places
        /\ \E n \in 0 .. Len(s) :
              Listed(l, o, PutIn(s, n, c)) /\ (first => n = Len(s))
    <2>0. v \in Places  BY <1>1, <1>2 DEF Places
    <2> HIDE DEF w, s
    <2>1. CASE first
      <3>1. l = Enqueue(links, o, c)  BY <1>1, <2>1
      <3>2. l \in Links /\ LinkedAs(l, v)
        BY <1>1, <1>2, <1>4, <3>1, EnqueueType, EnqueueLinked
      <3>3. Listed(l, o, PutIn(s, Len(s), c))
        BY <1>1, <1>2, <1>4, <3>1, EnqueueListed
      <3> QED BY <1>5, <2>0, <3>2, <3>3
    <2>2. CASE ~first
      <3>1. l = EnqueueByPriority(links, priority, o, c)  BY <1>1, <2>2
      <3>2. l \in Links /\ LinkedAs(l, v)
        BY <1>1, <1>2, <1>4, <3>1, EnqueueByPriorityType, EnqueueByPriorityLinked
      <3>3. \E n \in 0 .. Len(s) : Listed(l, o, PutIn(s, n, c))
        BY <1>1, <1>2, <1>4, <3>1, EnqueueByPriorityListed
      <3> QED BY <2>0, <2>2, <3>2, <3>3
    <2> QED BY <2>1, <2>2
  <1>7. PICK n \in 0 .. Len(s) :
          Listed(l, o, PutIn(s, n, c)) /\ (first => n = Len(s))
    BY <1>6
  <1>8. /\ j \in KernelType /\ j.links = l /\ j.answer = answer /\ j.current = c
    <2>1. [k.waiters EXCEPT ![o] = b] \in [Object -> Int]
      BY <1>1 DEF KernelType
    <2>2. k.answer = answer  BY DEF Kernel
    <2> QED BY <1>1, <1>6, <2>1, <2>2 DEF KernelType
  <1>9. Becomes(r)
    <2>1. j = [Kernel EXCEPT !.links = l, !.waiters[o] = @ + 1]  OBVIOUS
    <2> HIDE DEF j
    <2> QED BY <2>1
  <1> HIDE DEF j
  <1>10. links' = r.links /\ answer' = r.answer
    BY <1>9 DEF Becomes
  <1>11. Secluded(l, o, M)
    <2>1. InQueue(v, o) = M  BY <1>1, <1>2 DEF InQueue, Places
    <2> HIDE DEF v
    <2> QED BY <1>2, <1>6, <2>1, LinkedSecluded
  <1>12. Listed(links', o, PutIn(s, n, c))
    <2>1. KeepsList(l, links', o, M)
      BY <1>1, <1>8, <1>10, <1>11, BlockSpares DEF Spares
    <2>2. Met(PutIn(s, n, c)) \subseteq M
      BY <1>1, <1>2, <1>5, <1>7, PutInMeets
    <2> HIDE DEF s
    <2> QED BY <1>7, <2>1, <2>2, KeptListed
  <1>13. Line(o)' = PutIn(s, n, c)  BY <1>1, <1>12, LineAfter
  <1>14. \A t \in Thread \ {c} : answer'[t] = answer[t]
    BY <1>1, <1>8, <1>10, BlockAnswers
  <1>15. Joins(o, n)
    <2>1. Line(o)' = PutIn(Line(o), n, current)  BY <1>1, <1>13
    <2>2. current \in Thread \ Met(Line(o))  BY <1>1, <1>2, <1>3
    <2>3. \A t \in Met(Line(o)) : answer'[t] = answer[t]
      BY <1>2, <1>3, <1>14 DEF WaitersOf
    <2> HIDE DEF s
    <2> QED BY <2>1, <2>2, <2>3, Zenon DEF Joins
  <1>16. ASSUME NEW x \in Object \ {o}
         PROVE  StaysPut(x)
    <2> DEFINE W == WaitersOf(x)
    <2>1. /\ x \in Queue /\ o \in Queue \ {x} /\ Secluded(links, x, W)
          /\ W = InQueue(w, x) /\ c \in Thread \ W /\ W \subseteq Thread
      BY <1>1, <1>2, LineTells, Bystanders DEF WaitersOf
    <2>2. KeepsList(links, l, x, W)
      <3>1. KeepsList(links, Enqueue(links, o, c), x, W)
        BY <2>1, OthersKeepList
      <3> DEFINE at == FirstWorse(links, priority, o, c)
      <3>2. at \in Thread => w[at] = o
        BY <1>1, <1>2, FirstWorseThere
      <3>3. at \in Thread => at \in Thread \ W
        BY <2>1, <3>2 DEF InQueue
      <3> HIDE DEF at
      <3>4. at \in Thread => KeepsList(links, InsertBefore(links, o, at, c), x, W)
        BY <2>1, <3>3, OthersKeepList
      <3>5. l \in {Enqueue(links, o, c),
                   IF at \in Thread THEN InsertBefore(links, o, at, c)
                   ELSE Enqueue(links, o, c)}
        BY <1>1 DEF EnqueueByPriority, at
      <3> QED BY <3>1, <3>4, <3>5
    <2>3. Partway(k, j, x, W)
      <3>1. k.answer = answer  BY DEF Kernel
      <3> QED BY <1>1, <1>8, <2>1, <2>2, <3>1 DEF Partway, Spared, Spares
    <2>4. Spared(k, r, x, W)  BY <1>1, <2>3, EndSpared
    <2> QED BY <1>1, <1>9, <2>4, SparedStays
  <1> QED BY <1>7, <1>15, <1>16
=============================================================================
