--------------------------- MODULE SemaphoreProofs ---------------------------
(***************************************************************************)
(* Theorems about THREADMAN's semaphores.                                  *)
(***************************************************************************)
EXTENDS MCSemaphore, SchedulerProofs

(* The inductive invariant: the scheduler's, for objects that come and go, *)
(* and no wait while there is a count.                                     *)
SemaInv ==
    /\ Serving
    /\ count \in [Object -> Nat] /\ limit \in [Object -> Nat]
    /\ NoWaitWithCount

LEMMA SemaKept ==
  ASSUME SemaInv, Serving', count' \in [Object -> Nat], limit' = limit,
         inUse' \subseteq inUse,
         \A t \in Thread : wait'[t] \in Object => wait'[t] = wait[t],
         \A s \in inUse : count'[s] > 0 => count[s] > 0 \/ links.head[s] = None
  PROVE  SemaInv'
  <1> SUFFICES ASSUME NEW s \in inUse', count'[s] > 0, NEW t \in Thread, wait'[t] = s
               PROVE  FALSE
    BY DEF SemaInv, NoWaitWithCount
  <1>1. s \in inUse /\ s \in Object /\ wait[t] = s
    BY KernelTyped, KernelFields DEF SemaInv, Serving, KernelType
  <1>2. ~(count[s] > 0)  BY <1>1 DEF SemaInv, NoWaitWithCount
  <1>3. links.head[s] = None  BY <1>1, <1>2
  <1> QED BY <1>1, <1>3, WaitersListed DEF SemaInv, Serving

LEMMA CreateSemaKeeps ==
  ASSUME SemaInv, NEW s \in Object, NEW start \in 0 .. MaxCount,
         NEW max \in 0 .. MaxCount, NEW thpri \in BOOLEAN,
         CreateSema(s, start, max, thpri)
  PROVE  SemaInv'
  <1>1. /\ Serving' /\ inUse' = inUse \cup {s} /\ wait' = wait
        /\ \A t \in Thread : wait[t] # s
    BY CreatedServes DEF CreateSema, SemaInv
  <1>2. start \in Nat /\ max \in Nat  BY SemaphoreAssumption
  <1>3. count' = [count EXCEPT ![s] = start] /\ limit' = [limit EXCEPT ![s] = max]
    BY DEF CreateSema
  <1> QED BY <1>1, <1>2, <1>3 DEF SemaInv, NoWaitWithCount

LEMMA SignalSemaKeeps ==
  ASSUME SemaInv, NEW s \in Object, SignalSema(s)
  PROVE  SemaInv'
  <1>1. CASE links.head[s] # None
    <2>1. links.head[s] \in Thread /\ state[links.head[s]] = "Wait"
      BY <1>1, WaitersListed DEF SemaInv, Serving
    <2>2. /\ InEither /\ mode' = mode /\ count' = count /\ limit' = limit
          /\ Becomes(Wake(Kernel, links.head[s], "Ok", InInterrupt))
      BY <1>1 DEF SignalSema
    <2>3. Serving' /\ JoinNone
      BY <2>1, <2>2, StateNames, WakeServes DEF SemaInv
    <2> QED BY <2>2, <2>3, SemaKept DEF SemaInv, JoinNone
  <1>2. CASE links.head[s] = None
    <2>1. /\ mode' = mode /\ Becomes(Kernel) /\ limit' = limit
          /\ count' = [count EXCEPT ![s] = count[s] + 1]
      BY <1>2 DEF SignalSema
    <2>2. Serving' /\ JoinNone  BY <2>1, NothingServes DEF SemaInv
    <2>3. count' \in [Object -> Nat]  BY <2>1 DEF SemaInv
    <2>4. \A x \in inUse : count'[x] > 0 => count[x] > 0 \/ links.head[x] = None
      BY <1>2, <2>1 DEF SemaInv
    <2> QED BY <2>1, <2>2, <2>3, <2>4, SemaKept DEF JoinNone
  <1> QED BY <1>1, <1>2

(* The count goes down.                                                    *)
LEMMA TakeKeeps ==
  ASSUME SemaInv, NEW s \in Object, count[s] > 0,
         count' = [count EXCEPT ![s] = @ - 1], Becomes(Kernel), mode' = mode,
         limit' = limit
  PROVE  SemaInv'
  <1>1. Serving' /\ JoinNone  BY NothingServes DEF SemaInv
  <1>2. count' \in [Object -> Nat]  BY DEF SemaInv
  <1>3. \A x \in Object : count'[x] > 0 => count[x] > 0
    BY DEF SemaInv
  <1>4. inUse \subseteq Object
    BY KernelTyped, KernelFields DEF SemaInv, Serving, KernelType
  <1> QED BY <1>1, <1>2, <1>3, <1>4, SemaKept DEF JoinNone

LEMMA WaitSemaKeeps ==
  ASSUME SemaInv, NEW s \in Object, WaitSema(s)
  PROVE  SemaInv'
  <1>1. InThread /\ s \in inUse /\ mode' = mode  BY DEF WaitSema
  <1>2. CASE count[s] > 0
    BY <1>1, <1>2, TakeKeeps DEF WaitSema
  <1>3. CASE ~(count[s] > 0)
    <2> DEFINE joined == IF s \in byPriority
                         THEN EnqueueByPriority(links, priority, s, current)
                         ELSE Enqueue(links, s, current)
    <2>1. Becomes(BlockCurrent([Kernel EXCEPT !.links = joined,
                                              !.waiters[s] = @ + 1], s))
          /\ count' = count /\ limit' = limit
      BY <1>3 DEF WaitSema
    <2>2. joined \in {Enqueue(links, s, current),
                      EnqueueByPriority(links, priority, s, current)}
      OBVIOUS
    <2> HIDE DEF joined
    <2>3. Serving' /\ inUse' = inUse /\ wait' = [wait EXCEPT ![current] = s]
      BY <1>1, <2>1, <2>2, JoinQueueServes DEF SemaInv
    <2>4. wait \in [Thread -> WaitReason]
      BY KernelTyped, KernelFields DEF SemaInv, Serving, KernelType
    <2> QED BY <1>3, <2>1, <2>3, <2>4 DEF SemaInv, NoWaitWithCount
  <1> QED BY <1>2, <1>3

LEMMA SemaInitInv == Init => SemaInv
  <1> SUFFICES ASSUME Init PROVE SemaInv  OBVIOUS
  <1>1. Steady  BY SchedInitSteady DEF Init
  <1>2. closing = {}  BY DEF Init, SchedInit, MakeReady, Readied
  <1>3. /\ count \in [Object -> Nat] /\ \A s \in Object : count[s] = 0
        /\ limit \in [Object -> Nat]
    BY DEF Init
  <1>4. inUse \subseteq Object  BY <1>1, KernelTyped, KernelFields DEF KernelType
  <1> QED BY <1>1, <1>2, <1>3, <1>4 DEF SemaInv, Serving, Deleting, NoWaitWithCount

LEMMA SemaNextInv ==
  ASSUME Unsafe = {}, SemaInv, [Next]_vars
  PROVE  SemaInv'
  <1>1. CASE SchedNext /\ UNCHANGED semaVars
    <2>1. Serving' /\ JoinNone  BY <1>1, SchedNextServes DEF SemaInv
    <2> QED BY <1>1, <2>1, SemaKept DEF SemaInv, semaVars, JoinNone
  <1>2. CASE DeleteStep /\ UNCHANGED semaVars
    <2>1. /\ Serving' /\ inUse' \subseteq inUse
          /\ \A t \in Thread : wait'[t] \in Object => wait'[t] = wait[t]
      BY <1>2, DeleteStepServes DEF SemaInv
    <2> QED BY <1>2, <2>1, SemaKept DEF SemaInv, semaVars
  <1>3. CASE \E s \in Object : DeleteSema(s)
    <2>1. PICK s \in Object : BeginDelete(s) /\ UNCHANGED semaVars
      BY <1>3 DEF DeleteSema
    <2>2. Serving' /\ inUse' = inUse /\ wait' = wait
      BY <2>1, BeginDeleteServes DEF SemaInv
    <2> QED BY <2>1, <2>2, SemaKept DEF SemaInv, semaVars
  <1>4. CASE \E s \in Object : SignalSema(s)
    BY <1>4, SignalSemaKeeps
  <1>5. CASE \E s \in Object : WaitSema(s)
    BY <1>5, WaitSemaKeeps
  <1>6. CASE \E s \in Object : PollSema(s)
    BY <1>6, TakeKeeps DEF PollSema
  <1>7. CASE \E s \in Object, start, max \in 0 .. MaxCount, thpri \in BOOLEAN :
               CreateSema(s, start, max, thpri)
    BY <1>7, CreateSemaKeeps
  <1>8. CASE UNCHANGED vars
    <2>1. Becomes(Kernel) /\ mode' = mode /\ count' = count /\ limit' = limit
      BY <1>8 DEF vars, schedVars, semaVars, Becomes, Kernel
    <2>2. Serving' /\ wait' = wait /\ inUse' = inUse
      BY <2>1, NothingServes DEF SemaInv
    <2> QED BY <2>1, <2>2, SemaKept DEF SemaInv
  <1> QED BY <1>1, <1>2, <1>3, <1>4, <1>5, <1>6, <1>7, <1>8 DEF Next

(* No thread waits on a semaphore that has something to give, for any      *)
(* number of threads and semaphores and any order of calls, deletes and    *)
(* interrupts: signalSema gives to a waiter before it counts, waitSema     *)
(* waits only at zero, and a slot used again has nobody left in its list.  *)
THEOREM SemaNoWaitWithCount ==
  ASSUME Unsafe = {}
  PROVE  Spec => []NoWaitWithCount
  <1>1. Init => SemaInv  BY SemaInitInv
  <1>2. SemaInv /\ [Next]_vars => SemaInv'  BY SemaNextInv
  <1>3. SemaInv => NoWaitWithCount  BY DEF SemaInv
  <1> QED BY <1>1, <1>2, <1>3, PTL DEF Spec

(* The wait lists and ready queues stay doubly linked lists that agree     *)
(* with the threads' states while semaphores are created, waited on,       *)
(* signalled and deleted.                                                  *)
THEOREM SemaLinked ==
  ASSUME Unsafe = {}
  PROVE  Spec => []Linked
  <1>1. Init => SemaInv  BY SemaInitInv
  <1>2. SemaInv /\ [Next]_vars => SemaInv'  BY SemaNextInv
  <1>3. SemaInv => Linked  BY SteadyTells DEF SemaInv, Serving
  <1> QED BY <1>1, <1>2, <1>3, PTL DEF Spec

-----------------------------------------------------------------------------
(* The refinement of SemaphoreAbs by semaphore s1.                         *)
LEMMA LineIs ==
  ASSUME SemaInv, s1 \in Object
  PROVE  /\ Line(s1) \in Seq(Thread) /\ DOMAIN Line(s1) = 1 .. Len(Line(s1))
         /\ Line(s1) = Contents(links, s1) /\ Line(s1)' = Contents(links', s1)
         /\ Abstract!InLine = Met(Line(s1))
  <1>1. Line(s1) \in Seq(Thread)  BY LineStarts DEF SemaInv, Serving
  <1>2. DOMAIN Line(s1) = 1 .. Len(Line(s1))  BY <1>1, LenProperties
  <1>3. Line(s1) = Contents(links, s1) /\ Line(s1)' = Contents(links', s1)
    BY DEF Line
  <1> QED BY <1>1, <1>2, <1>3 DEF Abstract!InLine, Met

(* What semaphore s1 is does not change.                                   *)
KindStays ==
    /\ s1 \in inUse' <=> s1 \in inUse
    /\ limit'[s1] = limit[s1]
    /\ s1 \in byPriority' <=> s1 \in byPriority

LEMMA KindIs ==
  ASSUME KindStays
  PROVE  UNCHANGED Abstract!kind
  BY DEF KindStays, Abstract!kind

LEMMA ElsewhereBy ==
  ASSUME SemaInv, s1 \in Object, KindStays, count'[s1] = count[s1], StaysPut(s1)
  PROVE  Abstract!Elsewhere
  <1>1. UNCHANGED Abstract!kind  BY KindIs
  <1>2. \A t \in Abstract!InLine : answer'[t] = answer[t]
    BY LineIs DEF StaysPut
  <1>3. Contents(links', s1) = Contents(links, s1)
    BY LineIs DEF StaysPut
  <1> QED BY <1>1, <1>2, <1>3 DEF Abstract!Elsewhere, Abstract!AnswersChange

LEMMA LeaveBy ==
  ASSUME SemaInv, s1 \in Object, KindStays, count'[s1] = count[s1],
         NEW i \in Thread, Leaves(s1, i),
         answer'[i] = "ReleaseWait" \/ state'[i] = "Dormant"
  PROVE  Abstract!Leave
  <1>1. UNCHANGED Abstract!kind  BY KindIs
  <1>2. PICK n \in 1 .. Len(Line(s1)) :
          /\ Line(s1)[n] = i /\ Line(s1)' = TakenOut(Line(s1), n)
          /\ \A t \in Met(Line(s1)) \ {i} : answer'[t] = answer[t]
    BY DEF Leaves
  <1>3. \A t \in Abstract!InLine \ {i} : answer'[t] = answer[t]
    BY <1>2, LineIs
  <1>4. n \in DOMAIN Contents(links, s1) /\ Contents(links, s1)[n] = i
    BY <1>2, LineIs
  <1>5. Contents(links', s1) = SubSeq(Contents(links, s1), 1, n - 1)
                               \o SubSeq(Contents(links, s1), n + 1, Len(Contents(links, s1)))
    BY <1>2, LineIs DEF TakenOut
  <1> QED BY <1>1, <1>3, <1>4, <1>5 DEF Abstract!Leave, Abstract!AnswersChange

LEMMA FirstBy ==
  ASSUME SemaInv, s1 \in inUse, s1 \in Object, KindStays, count'[s1] = count[s1],
         Line(s1) # <<>>, Leaves(s1, Head(Line(s1))),
         answer'[Head(Line(s1))] \in {"Ok", "WaitDelete"}
  PROVE  Abstract!Give \/ Abstract!Refuse
  <1>1. UNCHANGED Abstract!kind  BY KindIs
  <1>2. /\ Line(s1)' = Tail(Line(s1))
        /\ \A t \in Met(Line(s1)) \ {Head(Line(s1))} : answer'[t] = answer[t]
    BY FirstLeaves DEF SemaInv, Serving
  <1>3. \A t \in Abstract!InLine \ {Head(Contents(links, s1))} : answer'[t] = answer[t]
    BY <1>2, LineIs
  <1>4. /\ Contents(links, s1) # <<>>
        /\ Contents(links', s1) = Tail(Contents(links, s1))
        /\ answer'[Head(Contents(links, s1))] \in {"Ok", "WaitDelete"}
    BY <1>2, LineIs
  <1> QED BY <1>1, <1>3, <1>4
      DEF Abstract!Give, Abstract!Refuse, Abstract!AnswersChange

LEMMA SchedMeets ==
  ASSUME SemaInv, SemaInv', s1 \in Object, Unsafe = {}, SchedNext, UNCHANGED semaVars
  PROVE  Abstract!Next
  <1>1. JoinNone  BY SchedNextServes DEF SemaInv
  <1>2. KindStays /\ count'[s1] = count[s1]
    BY <1>1 DEF KindStays, JoinNone, semaVars
  <1>3. LeavesUnmet(s1)  BY SchedNextLeaves DEF SemaInv, Serving
  <1> QED BY <1>2, <1>3, ElsewhereBy, LeaveBy DEF LeavesUnmet, Abstract!Next

LEMMA DeleteStepMeets ==
  ASSUME SemaInv, SemaInv', s1 \in Object, DeleteStep, UNCHANGED semaVars
  PROVE  Abstract!Next
  <1>1. limit' = limit /\ byPriority' = byPriority /\ count' = count
    BY DEF semaVars
  <1>2. CASE StaysPut(s1) /\ (s1 \in inUse' <=> s1 \in inUse)
    BY <1>1, <1>2, ElsewhereBy DEF KindStays, Abstract!Next
  <1>3. CASE /\ s1 \in inUse /\ Line(s1) # <<>> /\ inUse' = inUse
             /\ Leaves(s1, Head(Line(s1))) /\ answer'[Head(Line(s1))] = "WaitDelete"
    BY <1>1, <1>3, FirstBy DEF KindStays, Abstract!Next
  <1>4. CASE s1 \in inUse /\ Line(s1) = <<>> /\ Line(s1)' = <<>> /\ s1 \notin inUse'
    <2>1. Abstract!Remove
      BY <1>1, <1>4, LineIs DEF Abstract!Remove
    <2> QED BY <2>1 DEF Abstract!Next
  <1> QED BY <1>2, <1>3, <1>4, DeleteStepLines DEF SemaInv

(* A call on another semaphore.                                            *)
LEMMA OtherMeets ==
  ASSUME SemaInv, s1 \in Object, StaysPut(s1),
         inUse' = inUse, limit' = limit, byPriority' = byPriority,
         NEW s \in Object \ {s1},
         \A x \in Object \ {s} : count'[x] = count[x]
  PROVE  Abstract!Next
  BY ElsewhereBy DEF KindStays, Abstract!Next

(* The count of s1 changes, and nothing else.                              *)
LEMMA CountMeets ==
  ASSUME SemaInv, s1 \in inUse, s1 \in Object, Becomes(Kernel),
         limit' = limit, byPriority' = byPriority,
         \/ count[s1] > 0 /\ count'[s1] = count[s1] - 1
         \/ /\ count[s1] < limit[s1] /\ count'[s1] = count[s1] + 1
            /\ Line(s1) = <<>>
  PROVE  Abstract!Next
  <1>1. links' = links /\ answer' = answer /\ inUse' = inUse
    BY DEF Becomes, Kernel
  <1>2. KindStays  BY <1>1 DEF KindStays
  <1>3. UNCHANGED Abstract!kind  BY <1>2, KindIs
  <1>4. \A t \in Abstract!InLine : answer'[t] = answer[t]  BY <1>1
  <1>5. Contents(links', s1) = Contents(links, s1)  BY <1>1
  <1>6. CASE count[s1] > 0 /\ count'[s1] = count[s1] - 1
    <2>1. Abstract!Take
      BY <1>3, <1>4, <1>5, <1>6 DEF Abstract!Take, Abstract!AnswersChange
    <2> QED BY <2>1 DEF Abstract!Next
  <1>7. CASE /\ count[s1] < limit[s1] /\ count'[s1] = count[s1] + 1
             /\ Line(s1) = <<>>
    <2>1. Contents(links, s1) = <<>>  BY <1>7, LineIs
    <2>2. Abstract!Count
      BY <1>3, <1>5, <1>7, <2>1 DEF Abstract!Count
    <2> QED BY <2>2 DEF Abstract!Next
  <1> QED BY <1>6, <1>7

LEMMA SignalMeets ==
  ASSUME SemaInv, SemaInv', s1 \in Object, NEW s \in Object, SignalSema(s)
  PROVE  Abstract!Next
  <1>1. /\ Steady /\ Steady' /\ s \in inUse /\ mode' = mode
        /\ limit' = limit /\ byPriority' = byPriority
    BY DEF SignalSema, SemaInv, Serving
  <1>2. CASE links.head[s] # None
    <2> DEFINE i == links.head[s]
               b == InInterrupt
               d == delayed
    <2>1. i \in Thread /\ wait[i] = s /\ state[i] = "Wait"
      BY <1>1, <1>2, WaitersListed
    <2>2. Becomes(Wake(Kernel, i, "Ok", b)) /\ count' = count /\ InEither
      BY <1>2 DEF SignalSema
    <2>3. [Kernel EXCEPT !.delayed = d] = Kernel  BY DEF Kernel
    <2>4. Becomes(Wake([Kernel EXCEPT !.delayed = d], i, "Ok", b))
      BY <2>2, <2>3
    <2>5. JoinNone
      BY <1>1, <2>1, <2>2, StateNames, WakeServes DEF SemaInv
    <2>6. b \in BOOLEAN /\ d \in SUBSET Thread /\ "Ok" \in Answer
      BY <1>1, KernelTyped, KernelFields, StateNames DEF KernelType, InInterrupt
    <2> HIDE DEF b, d, i
    <2>7. IF wait[i] = s1 THEN Leaves(s1, i) /\ answer'[i] = "Ok" ELSE StaysPut(s1)
      BY <1>1, <2>1, <2>4, <2>6, WakeLines
    <2>8. KindStays /\ count'[s1] = count[s1]
      BY <1>1, <2>2, <2>5 DEF KindStays, JoinNone
    <2>9. CASE s = s1
      <3>1. /\ Line(s1) # <<>> /\ Line(s1)[1] = i /\ Line(s1) \in Seq(Thread)
        BY <1>1, <1>2, <2>9, LineStarts DEF i
      <3>2. Head(Line(s1)) = i  BY <3>1, HeadIs
      <3> QED BY <1>1, <2>1, <2>7, <2>8, <2>9, <3>1, <3>2, FirstBy DEF Abstract!Next
    <2>10. CASE s # s1
      BY <2>1, <2>7, <2>8, <2>10, ElsewhereBy DEF Abstract!Next
    <2> QED BY <2>9, <2>10
  <1>3. CASE links.head[s] = None
    <2>1. /\ count[s] < limit[s] /\ count' = [count EXCEPT ![s] = @ + 1]
          /\ Becomes(Kernel)
      BY <1>3 DEF SignalSema
    <2>2. links' = links /\ answer' = answer /\ inUse' = inUse
      BY <2>1 DEF Becomes, Kernel
    <2>3. StaysPut(s1)  BY <2>2, QuietStays
    <2>4. CASE s = s1
      <3>1. Line(s1) = <<>>  BY <1>1, <1>3, <2>4, LineStarts
      <3>2. count'[s1] = count[s1] + 1  BY <2>1, <2>4 DEF SemaInv
      <3> QED BY <1>1, <2>1, <2>4, <3>1, <3>2, CountMeets
    <2>5. CASE s # s1
      <3>1. \A x \in Object \ {s} : count'[x] = count[x]  BY <2>1 DEF SemaInv
      <3> QED BY <1>1, <2>2, <2>3, <2>5, <3>1, OtherMeets
    <2> QED BY <2>4, <2>5
  <1> QED BY <1>2, <1>3

LEMMA TakeMeets ==
  ASSUME SemaInv, s1 \in Object, NEW s \in inUse, s \in Object, count[s] > 0,
         count' = [count EXCEPT ![s] = @ - 1], Becomes(Kernel),
         limit' = limit, byPriority' = byPriority
  PROVE  Abstract!Next
  <1>1. links' = links /\ answer' = answer /\ inUse' = inUse
    BY DEF Becomes, Kernel
  <1>2. StaysPut(s1)  BY <1>1, QuietStays
  <1>3. CASE s = s1
    <2>1. count'[s1] = count[s1] - 1  BY <1>3 DEF SemaInv
    <2> QED BY <1>3, <2>1, CountMeets
  <1>4. CASE s # s1
    <2>1. \A x \in Object \ {s} : count'[x] = count[x]  BY DEF SemaInv
    <2> QED BY <1>1, <1>2, <1>4, <2>1, OtherMeets
  <1> QED BY <1>3, <1>4

LEMMA WaitMeets ==
  ASSUME SemaInv, SemaInv', s1 \in Object, NEW s \in Object, WaitSema(s)
  PROVE  Abstract!Next
  <1>1. /\ InThread /\ s \in inUse /\ mode' = mode
        /\ limit' = limit /\ byPriority' = byPriority
    BY DEF WaitSema
  <1>2. CASE count[s] > 0
    BY <1>1, <1>2, TakeMeets DEF WaitSema
  <1>3. CASE ~(count[s] > 0)
    <2> DEFINE first == s \notin byPriority
               l == IF first THEN Enqueue(links, s, current)
                    ELSE EnqueueByPriority(links, priority, s, current)
    <2>1. /\ Becomes(BlockCurrent([Kernel EXCEPT !.links = l,
                                                 !.waiters[s] = @ + 1], s))
          /\ count' = count
      <3>1. l = IF s \in byPriority THEN EnqueueByPriority(links, priority, s, current)
                ELSE Enqueue(links, s, current)
        OBVIOUS
      <3> HIDE DEF l
      <3> QED BY <1>3, <3>1 DEF WaitSema
    <2>2. inUse' = inUse
      <3>1. l \in {Enqueue(links, s, current),
                   EnqueueByPriority(links, priority, s, current)}
        OBVIOUS
      <3> HIDE DEF l
      <3> QED BY <1>1, <2>1, <3>1, JoinQueueServes DEF SemaInv
    <2>3. /\ \E n \in 0 .. Len(Line(s)) : Joins(s, n) /\ (first => n = Len(Line(s)))
          /\ \A x \in Object \ {s} : StaysPut(x)
      <3>1. first \in BOOLEAN  OBVIOUS
      <3> HIDE DEF first
      <3>2. l = IF first THEN Enqueue(links, s, current)
                ELSE EnqueueByPriority(links, priority, s, current)
        OBVIOUS
      <3> HIDE DEF l
      <3> QED BY <1>1, <2>1, <3>1, <3>2, JoinLines DEF SemaInv
    <2> HIDE DEF l
    <2>4. CASE s # s1
      BY <1>1, <2>1, <2>2, <2>3, <2>4, OtherMeets
    <2>5. CASE s = s1
      <3>1. PICK n \in 0 .. Len(Line(s1)) :
              Joins(s1, n) /\ (s1 \notin byPriority => n = Len(Line(s1)))
        BY <2>3, <2>5
      <3>2. UNCHANGED Abstract!kind
        BY <1>1, <2>2, KindIs DEF KindStays
      <3>3. \A t \in Abstract!InLine : answer'[t] = answer[t]
        BY <3>1, LineIs DEF Joins
      <3>4. count[s1] = 0 /\ count'[s1] = count[s1]
        BY <1>3, <2>1, <2>5 DEF SemaInv
      <3>5. current \in Thread \ Abstract!InLine  BY <3>1, LineIs DEF Joins
      <3>6. /\ n \in 0 .. Len(Contents(links, s1))
            /\ s1 \notin byPriority => n = Len(Contents(links, s1))
            /\ Contents(links', s1)
                 = SubSeq(Contents(links, s1), 1, n) \o <<current>>
                   \o SubSeq(Contents(links, s1), n + 1, Len(Contents(links, s1)))
        BY <3>1, LineIs DEF Joins, PutIn
      <3>7. Abstract!Join
        BY <1>1, <2>5, <3>2, <3>3, <3>4, <3>5, <3>6
        DEF Abstract!Join, Abstract!AnswersChange
      <3> QED BY <3>7 DEF Abstract!Next
    <2> QED BY <2>4, <2>5
  <1> QED BY <1>2, <1>3

LEMMA CreateMeets ==
  ASSUME SemaInv, SemaInv', s1 \in Object, NEW s \in Object,
         NEW start \in 0 .. MaxCount, NEW max \in 0 .. MaxCount, NEW thpri \in BOOLEAN,
         CreateSema(s, start, max, thpri)
  PROVE  Abstract!Next
  <1>1. /\ s \notin inUse /\ inUse' = inUse \cup {s} /\ links' = links
        /\ answer' = answer /\ \A t \in Thread : wait[t] # s
    BY CreatedServes DEF CreateSema, SemaInv
  <1>2. /\ count' = [count EXCEPT ![s] = start] /\ limit' = [limit EXCEPT ![s] = max]
        /\ byPriority' = IF thpri THEN byPriority \cup {s} ELSE byPriority \ {s}
    BY DEF CreateSema
  <1>3. StaysPut(s1)  BY <1>1, QuietStays
  <1>4. CASE s # s1
    <2>1. KindStays /\ count'[s1] = count[s1]
      BY <1>1, <1>2, <1>4 DEF KindStays, SemaInv
    <2> QED BY <1>3, <2>1, ElsewhereBy DEF Abstract!Next
  <1>5. CASE s = s1
    <2>1. Line(s1) = <<>> /\ Contents(links', s1) = Contents(links, s1)
      <3>1. links.head[s1] = None
        BY <1>1, <1>5, WaitersListed DEF SemaInv, Serving
      <3> QED BY <1>1, <3>1, LineStarts DEF SemaInv, Serving
    <2>2. count'[s1] \in Nat /\ limit'[s1] \in Nat  BY DEF SemaInv
    <2>3. (s1 \notin byPriority)' \in BOOLEAN  OBVIOUS
    <2>4. Contents(links, s1) = <<>>  BY <2>1, LineIs
    <2>5. Abstract!Create
      BY <1>1, <1>5, <2>1, <2>2, <2>3, <2>4 DEF Abstract!Create
    <2> QED BY <2>5 DEF Abstract!Next
  <1> QED BY <1>4, <1>5

LEMMA SemaStepMeets ==
  ASSUME Unsafe = {}, s1 \in Object, SemaInv, SemaInv', [Next]_vars
  PROVE  Abstract!Next
  <1>1. CASE SchedNext /\ UNCHANGED semaVars
    BY <1>1, SchedMeets
  <1>2. CASE DeleteStep /\ UNCHANGED semaVars
    BY <1>2, DeleteStepMeets
  <1>3. ASSUME links' = links, answer' = answer, inUse' = inUse, UNCHANGED semaVars
        PROVE  Abstract!Next
    <2>1. StaysPut(s1)  BY <1>3, QuietStays
    <2>2. KindStays /\ count'[s1] = count[s1]  BY <1>3 DEF KindStays, semaVars
    <2> QED BY <2>1, <2>2, ElsewhereBy DEF Abstract!Next
  <1>4. CASE \E s \in Object : DeleteSema(s)
    <2>1. PICK s \in Object : BeginDelete(s) /\ UNCHANGED semaVars
      BY <1>4 DEF DeleteSema
    <2>2. links' = links /\ answer' = answer /\ inUse' = inUse
      BY <2>1 DEF BeginDelete, Becomes, Kernel
    <2> QED BY <1>3, <2>1, <2>2
  <1>5. CASE \E s \in Object : SignalSema(s)
    BY <1>5, SignalMeets
  <1>6. CASE \E s \in Object : WaitSema(s)
    BY <1>6, WaitMeets
  <1>7. CASE \E s \in Object : PollSema(s)
    BY <1>7, TakeMeets DEF PollSema
  <1>8. CASE \E s \in Object, start, max \in 0 .. MaxCount, thpri \in BOOLEAN :
               CreateSema(s, start, max, thpri)
    BY <1>8, CreateMeets
  <1>9. CASE UNCHANGED vars
    BY <1>3, <1>9 DEF vars, schedVars
  <1> QED BY <1>1, <1>2, <1>4, <1>5, <1>6, <1>7, <1>8, <1>9 DEF Next

(* Every semaphore is one of SemaphoreAbs: for any number of threads and   *)
(* any order of calls, deletes and interrupts, a signal goes to the first  *)
(* in line or is counted, a thread that comes to a first-come semaphore    *)
(* goes behind the others and to a better-first one somewhere among them,  *)
(* nobody's place is lost when another leaves from the middle of the list, *)
(* and a wait answers Ok for a signal only, and says how else it ended.    *)
THEOREM SemaImplements ==
  ASSUME Unsafe = {}, s1 \in Object
  PROVE  Spec => ImplementsSemaphore
  <1>1. Init => SemaInv  BY SemaInitInv
  <1>2. SemaInv /\ [Next]_vars => SemaInv'  BY SemaNextInv
  <1>3. Init => Abstract!Init
    <2> SUFFICES ASSUME Init PROVE Abstract!Init  OBVIOUS
    <2>1. SemaInv  BY SemaInitInv
    <2>2. s1 \notin inUse
      BY DEF Init, SchedInit, MakeReady, Readied
    <2>3. links.head[s1] = None
      BY <2>1, <2>2, WaitersListed DEF SemaInv, Serving
    <2>4. Contents(links, s1) = <<>>
      BY <2>1, <2>3, LineStarts, LineIs DEF SemaInv, Serving
    <2> QED BY <2>2, <2>4 DEF Abstract!Init
  <1>4. SemaInv /\ SemaInv' /\ [Next]_vars => [Abstract!Next]_(Abstract!vars)
    BY SemaStepMeets
  <1> QED BY <1>1, <1>2, <1>3, <1>4, PTL DEF Spec, ImplementsSemaphore, Abstract!Spec
-----------------------------------------------------------------------------
(* Whose turn it is when an interrupt returns.                             *)

(* A thread that is preempted, but not switched out yet, is first of its   *)
(* peers.                                                                  *)
Turn(k) ==
    k.pending # k.current => k.links.head[k.priority[k.current]] = k.current

(* Who joins a ready queue that has a head, or leaves it from behind the   *)
(* head, leaves the head as it is.                                         *)
LEMMA ReadyKeepsHead ==
  ASSUME NEW k, NEW w, Queues(k, w), NEW i \in Thread, NEW p \in Priority,
         k.links.head[p] # None
  PROVE  MakeReady(k, i).links.head[p] = k.links.head[p]
  <1>1. k \in KernelType /\ k.links \in Links /\ LinkedAs(k.links, w) /\ p \in Queue
    BY QueueKinds DEF Queues, KernelType
  <1>2. k.links.tail[p] # None  BY <1>1 DEF LinkedAs
  <1>3. Enqueue(k.links, k.priority[i], i).head[p] = k.links.head[p]
    BY <1>1, <1>2 DEF Enqueue, Links
  <1>4. MakeReady(k, i).links = Enqueue(k.links, k.priority[i], i)
    <2>1. \A l : Readied(k, i, l).links = l  BY <1>1 DEF Readied, KernelType
    <2> QED BY <2>1 DEF MakeReady
  <1> QED BY <1>3, <1>4

LEMMA FirstBecomesHead ==
  ASSUME NEW k \in KernelType, NEW i \in Thread
  PROVE  MakeReadyFirst(k, i).links.head[k.priority[i]] = i
  <1>1. k.links \in Links /\ k.priority[i] \in Queue
    BY QueueKinds DEF KernelType
  <1>2. \A l : Readied(k, i, l).links = l  BY DEF Readied, KernelType
  <1>3. EnqueueFirst(k.links, k.priority[i], i).head[k.priority[i]] = i
    BY <1>1 DEF EnqueueFirst, Links
  <1> QED BY <1>2, <1>3 DEF MakeReadyFirst

LEMMA TakeOffKeepsHead ==
  ASSUME NEW k, NEW w, Queues(k, w), NEW i \in Thread, w[i] = k.priority[i],
         NEW p \in Priority, k.links.head[p] # i
  PROVE  TakeOffReady(k, i).links.head[p] = k.links.head[p]
  <1>1. /\ k \in KernelType /\ k.links \in Links /\ LinkedAs(k.links, w)
        /\ p \in Queue /\ k.priority[i] \in Priority
    BY QueueKinds DEF Queues, KernelType
  <1>2. p = k.priority[i] => k.links.prev[i] # None
    BY <1>1, ObjectsApart DEF LinkedAs
  <1>3. Unlink(k.links, k.priority[i], i).head[p] = k.links.head[p]
    BY <1>1, <1>2 DEF Unlink, Links
  <1>4. TakeOffReady(k, i).links = Unlink(k.links, k.priority[i], i)
    BY <1>1 DEF TakeOffReady, Dequeued, KernelType
  <1> QED BY <1>3, <1>4

LEMMA LeaveWaitKeepsHeads ==
  ASSUME NEW k \in KernelType, NEW i \in Thread, NEW p \in Priority
  PROVE  LeaveWait(k, i).links.head[p] = k.links.head[p]
  <1>1. CASE k.wait[i] \in k.inUse
    <2>1. k.wait[i] \in Object /\ k.wait[i] # p /\ k.links \in Links /\ p \in Queue
      BY <1>1, ObjectsApart, QueueKinds DEF KernelType
    <2>2. Unlink(k.links, k.wait[i], i).head[p] = k.links.head[p]
      BY <2>1 DEF Unlink, Links
    <2>3. LeaveWait(k, i).links = Unlink(k.links, k.wait[i], i)
      BY <1>1 DEF LeaveWait, KernelType
    <2> QED BY <2>2, <2>3
  <1>2. CASE k.wait[i] \notin k.inUse
    BY <1>2 DEF LeaveWait, KernelType
  <1> QED BY <1>1, <1>2

(* The first to be staged sends the running thread to the head of its      *)
(* queue; the next sends the one staged before to a tail.                  *)
LEMMA StageTurn ==
  ASSUME NEW k, Queues(k, PlaceOf(k)), Runs(k), Threads(k), Turn(k),
         NEW i \in Thread, k.state[i] = "Ready", i # k.current, i # k.pending
  PROVE  Turn(StageIfBetter(k, i))
  <1> DEFINE c == k.current
             h == k.pending
             w == PlaceOf(k)
             r == StageIfBetter(k, i)
             better == /\ k.priority[i] < k.priority[c]
                       /\ h \in {None, c} \/ k.priority[i] < k.priority[h]
             d == IF h = c THEN MakeReadyFirst(k, c) ELSE MakeReady(k, h)
             v == [w EXCEPT ![h] = k.priority[h]]
             x == TakeOffReady(d, i)
             m == [x EXCEPT !.pending = i]
  <1>1. /\ k \in KernelType /\ c \in Thread /\ h \in Thread /\ h # None /\ c # None
        /\ k.priority[c] \in Priority
    BY NoneIsNoThread DEF Queues, Runs, KernelType
  <1>2. CASE ~better
    <2>1. r = k  BY <1>2 DEF StageIfBetter
    <2> QED BY <2>1
  <1>3. CASE better
    <2>1. w[h] = Nowhere /\ w[i] = k.priority[i]
      BY <1>1 DEF PlaceOf, Runs, Threads
    <2>2. Queues(d, v) /\ Quiet(k, d) /\ d.current = c /\ d.pending = h
      <3>1. Readies(k, w, h, MakeReady(k, h)) /\ Readies(k, w, h, MakeReadyFirst(k, h))
        BY <1>1, <2>1, MakeReadyQueues
      <3>2. Readies(k, w, h, d)  BY <3>1
      <3> HIDE DEF d, w
      <3> QED BY <3>2 DEF Readies
    <2>3. d.links.head[k.priority[c]] = c
      <3>1. CASE h = c
        <4>1. d = MakeReadyFirst(k, c)  BY <3>1
        <4> QED BY <1>1, <4>1, FirstBecomesHead
      <3>2. CASE h # c
        <4>1. k.links.head[k.priority[c]] = c  BY <3>2 DEF Turn
        <4>2. d = MakeReady(k, h)  BY <3>2
        <4> QED BY <1>1, <4>1, <4>2, ReadyKeepsHead
      <3> QED BY <3>1, <3>2
    <2>4. v[i] = d.priority[i]
      <3> HIDE DEF d
      <3> QED BY <1>1, <2>1, <2>2, PlaceTells DEF Quiet, Places
    <2> HIDE DEF d, v
    <2>5. x.links.head[k.priority[c]] = c
      BY <1>1, <2>2, <2>3, <2>4, TakeOffKeepsHead
    <2>6. Queues(x, [v EXCEPT ![i] = Nowhere]) /\ Still(d, x) /\ x.pending = d.pending
      BY <2>2, <2>4, TakeOffReadyQueues
    <2> HIDE DEF x
    <2>7. m.links = x.links /\ m.priority = k.priority /\ m.current = c
      BY <2>2, <2>6 DEF Queues, KernelType, Still, Quiet
    <2>8. r = m
      BY <1>1, <1>3 DEF StageIfBetter, m, x, d
    <2> HIDE DEF m, r
    <2> QED BY <2>5, <2>7, <2>8 DEF Turn, r
  <1> QED BY <1>2, <1>3
(* wake in an interrupt keeps the turn of the thread it preempts.          *)
LEMMA WakeTurn ==
  ASSUME NEW k, Queues(k, PlaceOf(k)), Threads(k), Runs(k), BestBut(k, None),
         NEW i \in Thread, DelaysBut(k, i), k.state[i] = "Wait",
         NEW a \in Answer, Turn(k)
  PROVE  Turn(Wake(k, i, a, TRUE))
  <1> DEFINE e == LeaveWait(k, i)
             f == [e EXCEPT !.answer[i] = a]
             g == Woken(k, i, a)
             v == [PlaceOf(k) EXCEPT ![i] = Nowhere]
             c == k.current
  <1>1. /\ Queues(g, PlaceOf(g)) /\ Threads(g) /\ Delays(g) /\ Runs(g)
        /\ BestBut(g, i) /\ g.state[i] = "Ready" /\ Quiet(k, g)
        /\ g.wait = [k.wait EXCEPT ![i] = "NotWaiting"]
        /\ g.current = c /\ g.pending = k.pending
        /\ i # k.pending /\ i # c
    BY WokenSound
  <1>2. g = MakeReady(f, i) /\ Wake(k, i, a, TRUE) = StageIfBetter(g, i)
    BY DEF Woken, Wake
  <1>3. k \in KernelType /\ c \in Thread /\ k.priority[c] \in Priority
    BY DEF Queues, KernelType
  <1>4. Queues(e, v)
    <2>1. PlaceOf(k)[i] = IF k.wait[i] \in k.inUse THEN k.wait[i] ELSE Nowhere
      BY <1>3 DEF PlaceOf, Threads, KernelType
    <2> QED BY <2>1, LeaveWaitQueues
  <1>5. e.links.head[k.priority[c]] = k.links.head[k.priority[c]]
    BY <1>3, LeaveWaitKeepsHeads
  <1> HIDE DEF e, v
  <1>6. f.links = e.links /\ Queues(f, v)
    <2>1. e \in KernelType  BY <1>4 DEF Queues
    <2>2. [e.answer EXCEPT ![i] = a] \in [Thread -> Answer]
      BY <2>1 DEF KernelType
    <2>3. /\ f \in KernelType /\ f.links = e.links /\ f.readyBits = e.readyBits
      BY <2>1, <2>2 DEF KernelType
    <2> QED BY <1>4, <2>3 DEF Queues
  <1> HIDE DEF f
  <1> HIDE DEF g
  <1>7. Turn(g)
    <2> SUFFICES ASSUME k.pending # c  PROVE  g.links.head[k.priority[c]] = c
      BY <1>1 DEF Turn, Quiet
    <2>1. f.links.head[k.priority[c]] = c  BY <1>5, <1>6 DEF Turn
    <2>2. f.links.head[k.priority[c]] # None  BY <1>3, <2>1, NoneIsNoThread
    <2>3. \A p \in Priority : f.links.head[p] # None
             => MakeReady(f, i).links.head[p] = f.links.head[p]
      BY ONLY <1>6, i \in Thread, ReadyKeepsHead
    <2> QED BY <1>2, <1>3, <2>1, <2>2, <2>3
  <1>8. Turn(StageIfBetter(g, i))
    <2>1. i # g.current /\ i # g.pending  BY <1>1
    <2> QED BY <1>1, <1>7, <2>1, StageTurn
  <1> QED BY <1>2, <1>8

(* What a call stores, read in its record.                                 *)
LEMMA TurnKept ==
  ASSUME NEW r, Becomes(r), Turn(r)
  PROVE  Turn(Kernel)'
  BY DEF Becomes, Turn, Kernel

(* What does not touch the ready queues, nor who is current and staged.    *)
LEMMA TurnUntouched ==
  ASSUME Turn(Kernel), NEW r, Becomes(r), r.pending = pending, r.current = current,
         r.priority[current] = priority[current],
         r.links.head[priority[current]] = links.head[priority[current]]
  PROVE  Turn(Kernel)'
  BY DEF Becomes, Turn, Kernel

(* The calls of an interrupt handler.                                      *)
LEMMA WakersKeepTurn ==
  ASSUME Steady, mode = "intr", Turn(Kernel), NEW i \in Thread, state[i] = "Wait",
         NEW a \in Answer, Becomes(Wake(Kernel, i, a, InInterrupt))
  PROVE  Turn(Kernel)'
  <1>1. /\ Queues(Kernel, PlaceOf(Kernel)) /\ Threads(Kernel) /\ Runs(Kernel)
        /\ BestBut(Kernel, None) /\ DelaysBut(Kernel, i) /\ Kernel.state[i] = "Wait"
    BY KernelFields DEF Steady, Sound, Delays, DelaysBut
  <1>2. Turn(Wake(Kernel, i, a, TRUE))  BY <1>1, WakeTurn
  <1>3. InInterrupt = TRUE  BY DEF InInterrupt
  <1>4. Becomes(Wake(Kernel, i, a, TRUE))  BY <1>3
  <1> QED BY <1>2, <1>4, TurnKept

LEMMA ExpiredTurn ==
  ASSUME Steady, mode = "intr", Turn(Kernel), NEW i \in Thread, DelayExpired(i)
  PROVE  Turn(Kernel)'
  <1> DEFINE k == Kernel
             m == [Kernel EXCEPT !.delayed = @ \ {i}]
  <1>1. i \in k.delayed  BY KernelFields DEF DelayExpired
  <1>2. k \in KernelType /\ Queues(k, PlaceOf(k)) /\ Sound(k)
    BY DEF Steady, Sound, Queues
  <1>3. k.wait[i] = "Delay" /\ k.state[i] = "Wait"
    BY <1>1, <1>2 DEF Sound, Delays, Threads
  <1>4. Becomes(Wake(m, i, "Ok", TRUE))  BY <1>3, KernelFields, Zenon DEF DelayExpired
  <1> HIDE DEF k
  <1>5. /\ m \in KernelType /\ m.links = k.links /\ m.readyBits = k.readyBits
        /\ m.state = k.state /\ m.wait = k.wait /\ m.priority = k.priority
        /\ m.wakeups = k.wakeups /\ m.inUse = k.inUse
        /\ m.delayed = k.delayed \ {i} /\ m.closing = k.closing
        /\ m.current = k.current /\ m.pending = k.pending
    BY <1>2 DEF KernelType, k
  <1> HIDE DEF m
  <1>6. PlaceOf(m) = PlaceOf(k)  BY <1>5 DEF PlaceOf
  <1>7. Queues(m, PlaceOf(m))  BY <1>2, <1>5, <1>6 DEF Queues
  <1>8. Threads(m) /\ Runs(m) /\ BestBut(m, None) /\ DelaysBut(m, i)
    BY <1>2, <1>5 DEF Sound, Threads, Runs, BestBut, Delays, DelaysBut
  <1>9. Turn(k)  BY DEF k
  <1>10. Turn(m)  BY <1>5, <1>9 DEF Turn
  <1>11. Turn(Wake(m, i, "Ok", TRUE))
    BY <1>3, <1>5, <1>7, <1>8, <1>10, StateNames, WakeTurn
  <1> QED BY <1>4, <1>11, TurnKept

LEMMA TerminateTurn ==
  ASSUME Steady, Unsafe = {}, mode = "intr", Turn(Kernel), NEW i \in Target,
         TerminateThread(i)
  PROVE  Turn(Kernel)'
  <1> DEFINE k == Kernel
             out == IF k.state[i] = "Ready" THEN TakeOffReady(k, i)
                    ELSE IF k.state[i] = "Wait" THEN LeaveWait(k, i) ELSE k
             r == [out EXCEPT !.pending = IF @ = i THEN Kernel.current ELSE @,
                              !.state[i] = "Dormant"]
  <1>1. i \in Thread /\ i # k.current /\ i # k.pending
    BY KernelFields DEF TerminateThread, Target
  <1>2. Becomes(r)  BY KernelFields, Zenon DEF TerminateThread
  <1>3. k \in KernelType /\ Queues(k, PlaceOf(k)) /\ Threads(k)
    BY DEF Steady, Sound, Queues
  <1>4. k.current \in Thread /\ k.priority[k.current] \in Priority /\ Turn(k)
    BY <1>3 DEF KernelType
  <1> HIDE DEF k
  <1>5. /\ out \in KernelType /\ out.priority = k.priority
        /\ out.current = k.current /\ out.pending = k.pending
        /\ k.pending # k.current => out.links.head[k.priority[k.current]] = k.current
    <2>1. CASE k.state[i] = "Ready"
      <3>1. PlaceOf(k)[i] = k.priority[i] /\ out = TakeOffReady(k, i)
        BY <1>1, <2>1 DEF PlaceOf
      <3>2. /\ Queues(TakeOffReady(k, i), [PlaceOf(k) EXCEPT ![i] = Nowhere])
            /\ Still(k, TakeOffReady(k, i)) /\ TakeOffReady(k, i).pending = k.pending
        BY <1>1, <1>3, <3>1, TakeOffReadyQueues
      <3>3. k.pending # k.current =>
              TakeOffReady(k, i).links.head[k.priority[k.current]] = k.current
        BY <1>1, <1>3, <1>4, <3>1, TakeOffKeepsHead DEF Turn
      <3> QED BY <3>1, <3>2, <3>3 DEF Queues, Still, Quiet
    <2>2. CASE k.state[i] = "Wait"
      <3>1. PlaceOf(k)[i] = (IF k.wait[i] \in k.inUse THEN k.wait[i] ELSE Nowhere)
        BY <1>1, <1>3, <2>2 DEF PlaceOf, Threads, KernelType
      <3>2. out = LeaveWait(k, i)  BY <2>2
      <3> DEFINE w == PlaceOf(k)
      <3> HIDE DEF out, w
      <3>3. /\ Queues(out, [w EXCEPT ![i] = Nowhere])
            /\ Quiet(k, out) /\ out.state = k.state
            /\ out.wait = [k.wait EXCEPT ![i] = "NotWaiting"]
            /\ out.delayed = IF k.wait[i] = "Delay" THEN k.delayed \ {i} ELSE k.delayed
            /\ out.current = k.current /\ out.pending = k.pending
        <4>1. w[i] = IF k.wait[i] \in k.inUse THEN k.wait[i] ELSE Nowhere
          BY <3>1 DEF w
        <4>2. Queues(k, w)  BY <1>3 DEF w
        <4> QED BY <1>1, <3>2, <4>1, <4>2, LeaveWaitQueues
      <3>4. k.pending # k.current =>
              LeaveWait(k, i).links.head[k.priority[k.current]] = k.current
        BY <1>1, <1>3, <1>4, LeaveWaitKeepsHeads DEF Turn
      <3> QED BY <1>3, <3>2, <3>3, <3>4 DEF Queues, Quiet
    <2>3. CASE k.state[i] \notin {"Ready", "Wait"}
      BY <1>3, <1>4, <2>3 DEF Turn
    <2> QED BY <2>1, <2>2, <2>3
  <1> HIDE DEF out
  <1>6. /\ r.priority = out.priority /\ r.current = out.current
        /\ r.pending = out.pending /\ r.links = out.links
    BY <1>1, <1>5 DEF KernelType
  <1> HIDE DEF r
  <1>7. Turn(r)  BY <1>5, <1>6 DEF Turn
  <1> QED BY <1>2, <1>7, TurnKept

LEMMA PriorityTurn ==
  ASSUME Steady, Unsafe = {}, mode = "intr", Turn(Kernel), NEW i \in Thread,
         NEW p \in Priority, IChangeThreadPriority(i, p)
  PROVE  Turn(Kernel)'
  <1> DEFINE k == Kernel
             changed == [k EXCEPT !.priority[i] = p]
             e == TakeOffReady(k, i)
             m == [e EXCEPT !.priority[i] = p]
             requeued == MakeReady(m, i)
  <1>1. k.state[i] = "Wait" \/ i \notin {k.current, k.pending}
    BY KernelFields DEF IChangeThreadPriority
  <1>2. Becomes(IF k.state[i] = "Ready" THEN requeued ELSE changed)
    BY KernelFields, Zenon DEF IChangeThreadPriority
  <1>3. k \in KernelType /\ Queues(k, PlaceOf(k)) /\ Sound(k) /\ Runs(k)
    BY DEF Steady, Sound, Queues
  <1>4. k.current \in Thread /\ k.priority[k.current] \in Priority /\ Turn(k)
    BY <1>3 DEF KernelType
  <1> HIDE DEF k
  <1>5. i # k.current
    BY <1>1, <1>3 DEF Runs
  <1>6. CASE k.state[i] = "Ready"
    <2>1. i \notin {k.current, k.pending}  BY <1>1, <1>6
    <2>2. PlaceOf(k)[i] = k.priority[i]  BY <1>6, <2>1 DEF PlaceOf
    <2>3. k.pending # k.current => e.links.head[k.priority[k.current]] = k.current
      BY <1>3, <1>4, <1>5, <2>2, TakeOffKeepsHead DEF Turn
    <2>4. /\ Queues(m, [PlaceOf(m) EXCEPT ![i] = Nowhere])
          /\ m.priority = [k.priority EXCEPT ![i] = p]
          /\ m.current = k.current /\ m.pending = k.pending
      BY <1>3, <1>6, <2>1, TakenOffSetPriority
    <2>5. Queues(e, [PlaceOf(k) EXCEPT ![i] = Nowhere])
      BY <1>3, <2>2, TakeOffReadyQueues
    <2> HIDE DEF e
    <2>6. m.links = e.links  BY <2>5 DEF Queues, KernelType
    <2> HIDE DEF m
    <2>7. m.priority[k.current] = k.priority[k.current]
      BY <1>3, <1>4, <1>5, <2>4 DEF KernelType
    <2>8. [PlaceOf(m) EXCEPT ![i] = Nowhere][i] = Nowhere  BY DEF PlaceOf
    <2>9. /\ requeued.priority = m.priority /\ requeued.current = m.current
          /\ requeued.pending = m.pending
      <3> DEFINE v == [PlaceOf(m) EXCEPT ![i] = Nowhere]
      <3>1. Queues(m, v) /\ v[i] = Nowhere  BY <2>4, <2>8
      <3> HIDE DEF v
      <3>2. Readies(m, v, i, requeued)  BY <3>1, MakeReadyQueues
      <3> QED BY <3>2 DEF Readies, Quiet
    <2>10. k.pending # k.current =>
             requeued.links.head[k.priority[k.current]] = k.current
      BY <1>4, <2>3, <2>4, <2>6, NoneIsNoThread, ReadyKeepsHead
    <2> HIDE DEF requeued
    <2>11. Turn(requeued)  BY <2>4, <2>7, <2>9, <2>10 DEF Turn
    <2> QED BY <1>2, <1>6, <2>11, TurnKept
  <1>7. CASE k.state[i] # "Ready"
    <2>1. /\ changed.links = k.links /\ changed.current = k.current
          /\ changed.pending = k.pending
          /\ changed.priority[k.current] = k.priority[k.current]
      BY <1>3, <1>4, <1>5 DEF KernelType
    <2> HIDE DEF changed
    <2>2. Turn(changed)  BY <1>4, <2>1 DEF Turn
    <2> QED BY <1>2, <1>7, <2>2, TurnKept
  <1> QED BY <1>6, <1>7
LEMMA SchedTurn ==
  ASSUME Steady, Unsafe = {}, "Rotate" \notin Calls, mode = "intr", mode' = "intr",
         Turn(Kernel), SchedNext
  PROVE  Turn(Kernel)'
  <1>1. ~InThread /\ InInterrupt  BY DEF InThread, InInterrupt
  <1>2. CASE \E i \in Target : TerminateThread(i)
    BY <1>2, TerminateTurn
  <1>3. CASE \E i \in Target, p \in CallPriority : IChangeThreadPriority(i, p)
    BY <1>3, PriorityTurn, SchedulerAssumption DEF Target
  <1>4. CASE \E i \in Target : ReleaseWaitThread(i)
    BY <1>4, WakersKeepTurn, StateNames DEF ReleaseWaitThread, Target
  <1>5. CASE \E i \in Target : WakeupThread(i)
    <2>1. PICK i \in Thread : WakeupThread(i)  BY <1>5 DEF Target
    <2>2. CASE state[i] = "Wait" /\ wait[i] = "Sleep"
      BY <2>1, <2>2, WakersKeepTurn, StateNames DEF WakeupThread
    <2>3. CASE ~(state[i] = "Wait" /\ wait[i] = "Sleep")
      <3>1. Becomes([Kernel EXCEPT !.wakeups[i] = @ + 1])
        BY <2>1, <2>3 DEF WakeupThread
      <3> QED BY <3>1, TurnUntouched DEF Kernel
    <2> QED BY <2>2, <2>3
  <1>6. CASE \E i \in Target : CancelWakeupThread(i)
    <2>1. PICK i \in Thread : Becomes([Kernel EXCEPT !.wakeups[i] = 0])
      BY <1>6 DEF CancelWakeupThread, Target
    <2> QED BY <2>1, TurnUntouched DEF Kernel
  <1>7. CASE \E i \in Target : DelayExpired(i)
    BY <1>7, ExpiredTurn DEF Target
  <1>8. ~InterruptEnter /\ ~InterruptExit
    BY DEF InterruptEnter, InterruptExit
  <1> QED
    BY <1>1, <1>2, <1>3, <1>4, <1>5, <1>6, <1>7, <1>8
    DEF SchedNext, CreateThread, DeleteThread, StartThread, ExitThread,
        ChangeThreadPriority, SleepThread, DelayThread

(* A preempted thread is first of its peers for as long as its turn lasts. *)
TurnInv == SemaInv /\ Turn(Kernel)

LEMMA TurnStep ==
  ASSUME Unsafe = {}, "Rotate" \notin Calls, TurnInv, [Next]_vars
  PROVE  TurnInv'
  <1>1. SemaInv'  BY SemaNextInv DEF TurnInv
  <1>2. Steady /\ Steady' /\ Turn(Kernel)
    BY <1>1 DEF TurnInv, SemaInv, Serving
  <1>3. CASE mode' # "intr"
    <2>1. pending' = current'  BY <1>2, <1>3 DEF Steady
    <2> QED BY <1>1, <2>1 DEF TurnInv, Turn, Kernel
  <1>4. CASE mode # "intr" /\ mode' = "intr"
    <2>1. CASE SchedNext
      <3>1. InterruptEnter
        BY <1>4, <2>1
        DEF SchedNext, CreateThread, DeleteThread, StartThread, ExitThread,
            TerminateThread, ChangeThreadPriority, IChangeThreadPriority,
            RotateThreadReadyQueue, IRotateThreadReadyQueue, ReleaseWaitThread,
            SleepThread, WakeupThread, CancelWakeupThread, DelayThread,
            DelayExpired, InterruptExit
      <3>2. Becomes(Kernel)  BY <3>1 DEF InterruptEnter
      <3> QED BY <1>1, <1>2, <3>2, TurnKept DEF TurnInv
    <2>2. CASE ~SchedNext
      BY <1>4, <2>2 DEF Next, DeleteStep, DeleteSema, BeginDelete, SignalSema,
         WaitSema, PollSema, CreateSema, vars, schedVars
    <2> QED BY <2>1, <2>2
  <1>5. CASE mode = "intr" /\ mode' = "intr"
    <2>1. CASE SchedNext
      BY <1>1, <1>2, <1>5, <2>1, SchedTurn DEF TurnInv
    <2>2. CASE DeleteStep
      <3>1. closing = {}
        BY <1>5 DEF TurnInv, SemaInv, Serving, Deleting
      <3> QED BY <2>2, <3>1 DEF DeleteStep
    <2>3. CASE \E s \in Object : SignalSema(s)
      <3>1. PICK s \in Object : SignalSema(s)  BY <2>3
      <3>2. CASE links.head[s] # None
        <4>1. links.head[s] \in Thread /\ state[links.head[s]] = "Wait"
          BY <1>2, <3>2, WaitersListed
        <4>2. Becomes(Wake(Kernel, links.head[s], "Ok", InInterrupt))
          BY <3>1, <3>2 DEF SignalSema
        <4>3. Turn(Kernel)'
          BY <1>2, <1>5, <4>1, <4>2, StateNames, WakersKeepTurn
        <4> QED BY <1>1, <4>3 DEF TurnInv
      <3>3. CASE links.head[s] = None
        BY <1>1, <1>2, <3>1, <3>3, TurnKept DEF SignalSema, TurnInv
      <3> QED BY <3>2, <3>3
    <2>4. CASE \E s \in Object : PollSema(s)
      BY <1>1, <1>2, <2>4, TurnKept DEF PollSema, TurnInv
    <2>5. CASE UNCHANGED vars
      <3>1. Becomes(Kernel)  BY <2>5 DEF vars, schedVars, Becomes, Kernel
      <3> QED BY <1>1, <1>2, <3>1, TurnKept DEF TurnInv
    <2>6. ~InThread  BY <1>5 DEF InThread
    <2> QED BY <2>1, <2>2, <2>3, <2>4, <2>5, <2>6
            DEF Next, DeleteSema, BeginDelete, WaitSema, CreateSema
  <1> QED BY <1>3, <1>4, <1>5

(* A thread that an interrupt preempts is the first of its peers when the  *)
(* interrupt returns, for any number of threads and priorities and         *)
(* whatever the handlers signal, release, terminate and reprioritise, if   *)
(* nobody rotates the queues: makeReadyFirst puts it at the head when the  *)
(* first thread is staged, later stagings go behind, and nobody takes a    *)
(* head but to run it.                                                     *)
THEOREM SemaPreemptedKeepsTurn ==
  ASSUME Unsafe = {}, "Rotate" \notin Calls
  PROVE  Spec => PreemptedKeepsTurn
  <1>1. Init => TurnInv
    <2> SUFFICES ASSUME Init  PROVE TurnInv  OBVIOUS
    <2>1. SemaInv  BY SemaInitInv
    <2>2. pending = current  BY DEF Init, SchedInit, MakeReady, Readied
    <2> QED BY <2>1, <2>2 DEF TurnInv, Turn, Kernel
  <1>2. TurnInv /\ [Next]_vars => TurnInv'  BY TurnStep
  <1>3. ASSUME TurnInv, [Next]_vars, mode = "intr", mode' = "thread",
               current' # current
        PROVE  links'.head[priority[current]] = current
    <2>1. Steady /\ Turn(Kernel)  BY <1>3 DEF TurnInv, SemaInv, Serving
    <2>2. InterruptExit
      BY <1>3
      DEF Next, SchedNext, CreateThread, DeleteThread, StartThread, ExitThread,
          TerminateThread, ChangeThreadPriority, IChangeThreadPriority,
          RotateThreadReadyQueue, IRotateThreadReadyQueue, ReleaseWaitThread,
          SleepThread, WakeupThread, CancelWakeupThread, DelayThread,
          DelayExpired, InterruptEnter, DeleteStep, DeleteSema, BeginDelete,
          SignalSema, WaitSema, PollSema, CreateSema, vars, schedVars
    <2>3. Becomes(Reschedule(Kernel))  BY <2>2 DEF InterruptExit
    <2>4. pending # current  BY <1>3, <2>3 DEF Reschedule, Becomes, Kernel
    <2>5. pending \in Thread /\ pending # None
      BY <2>1, NoneIsNoThread DEF Steady, Sound, Runs, Kernel
    <2>6. Reschedule(Kernel).links = links
      BY <2>4, <2>5 DEF Reschedule, NewContext, Kernel
    <2> QED BY <2>1, <2>3, <2>4, <2>6 DEF Becomes, Turn, Kernel
  <1>4. TurnInv /\ [Next]_vars =>
          [mode = "intr" /\ mode' = "thread" /\ current' # current
             => links'.head[priority[current]] = current]_vars
    BY <1>3
  <1> QED BY <1>1, <1>2, <1>4, PTL DEF Spec, PreemptedKeepsTurn
=============================================================================
