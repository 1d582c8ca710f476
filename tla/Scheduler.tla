------------------------------ MODULE Scheduler ------------------------------
(***************************************************************************)
(* THREADMAN's scheduler and its thbase calls (src/iop/threadman.cpp), and *)
(* the exits of INTRMAN it hangs on (src/iop/intrman.cpp).                 *)
(*                                                                         *)
(* One processor.  A call made by the running thread holds interrupts off  *)
(* from its first test to its return or to the trap that switches it out,  *)
(* so each call is one step.  An interrupt (mode "intr") runs handlers     *)
(* that make the i-forms of the calls; those never switch: they stage the  *)
(* thread to run next in `pending`, and the interrupt's exit switches.     *)
(*                                                                         *)
(* The state of the scheduler is gathered in a record k (operator Kernel)  *)
(* so that the code's helpers, which call one another, are operators from  *)
(* a record to a record; an action applies them in the code's order and    *)
(* stores the result (operator Becomes).                                   *)
(*                                                                         *)
(* The objects a thread can wait on are kept by the modules that extend    *)
(* this one; here an object is a wait list, a count of waiters and whether *)
(* the slot is in use.  Ids are resolved: a call with a refused id or in a *)
(* refused state changes nothing and is a stuttering step.                 *)
(***************************************************************************)
EXTENDS ThreadQueue, FiniteSetsExt

CONSTANTS
    BootPriority,   \* kBootPriority: what the boot thread runs at
    BootInitial,    \* kBootInitialPriority
    CallPriority,   \* the priorities that calls are made with
    MaxWakeups,     \* bound on wakeup_count
    Calls,          \* the thbase calls, of those in ThbaseCalls, that the
                    \* clients make
    Unsafe          \* the uses of the interface, of those listed in Uses,
                    \* that the clients make although the code mishandles them

Idle == 0
Boot == 1

ThbaseCalls == {"Create", "Delete", "Exit", "Terminate", "ChangePriority",
                "Rotate", "ReleaseWait", "Sleep", "Delay"}

(* Uses that leave the scheduler in a state it does not recover from; the  *)
(* module that has the call says what happens.                             *)
Uses == {"DeleteOverBetterWaiter", "InterruptTerminatesStaged",
         "InterruptReprioritises", "SetOverBetterWaiter"}

ASSUME SchedulerAssumption ==
    /\ BootPriority \in Priority \ {IdlePriority}
    /\ BootInitial \in Priority \ {IdlePriority}
    /\ CallPriority \subseteq Priority \ {IdlePriority}
    /\ MaxWakeups \in Nat
    /\ Calls \subseteq ThbaseCalls
    /\ Unsafe \subseteq Uses

VARIABLES
    links,      \* the queues: Thread::next, prev and every Queue
    readyBits,  \* ready_bits: the priorities whose bit is set
    state,      \* Thread::state
    wait,       \* Thread::wait_type and wait_id: the object, or the reason
    priority,   \* Thread::current_priority
    initial,    \* Thread::initial_priority
    wakeups,    \* Thread::wakeup_count
    answer,     \* what the frame's $v0 holds for the call that blocked
    inUse,      \* the objects whose in_use is set
    waiters,    \* waiter_count of each object
    delayed,    \* the threads with a delayExpired alarm in the alarm queue
    closing,    \* the object whose delete call is releasing its waiters
    current,    \* current
    pending,    \* pending
    mode        \* whether an interrupt is being served

schedVars == <<links, readyBits, state, wait, priority, initial, wakeups,
               answer, inUse, waiters, delayed, closing, current, pending, mode>>

State == {"Free", "Run", "Ready", "Wait", "Dormant"}
WaitReason == {"NotWaiting", "Sleep", "Delay"} \cup Object
Answer == {"Ok", "ReleaseWait", "WaitDelete"}

Kernel ==
    [links |-> links, readyBits |-> readyBits, state |-> state, wait |-> wait,
     priority |-> priority, initial |-> initial, wakeups |-> wakeups,
     answer |-> answer, inUse |-> inUse, waiters |-> waiters,
     delayed |-> delayed, closing |-> closing,
     current |-> current, pending |-> pending]

Becomes(k) ==
    /\ links' = k.links        /\ readyBits' = k.readyBits
    /\ state' = k.state        /\ wait' = k.wait      /\ priority' = k.priority
    /\ initial' = k.initial    /\ wakeups' = k.wakeups /\ answer' = k.answer
    /\ inUse' = k.inUse        /\ waiters' = k.waiters
    /\ delayed' = k.delayed    /\ closing' = k.closing
    /\ current' = k.current    /\ pending' = k.pending

-----------------------------------------------------------------------------
(* makeReady, makeReadyFirst, takeOffReady: thread i and the ready queue   *)
(* of its priority, with the bit that says whether the queue holds any.    *)
Readied(k, i, l) ==
    [k EXCEPT !.state[i] = "Ready", !.wait[i] = "NotWaiting",
              !.links = l, !.readyBits = @ \cup {k.priority[i]}]

MakeReady(k, i) == Readied(k, i, Enqueue(k.links, k.priority[i], i))

MakeReadyFirst(k, i) == Readied(k, i, EnqueueFirst(k.links, k.priority[i], i))

(* Variant: the bit is never cleared.                                      *)
DequeuedKeepsBit(k, p, l) == [k EXCEPT !.links = l]

(* A ready queue's links become l; its bit goes with its last thread.      *)
Dequeued(k, p, l) ==
    [k EXCEPT !.links = l, !.readyBits = IF l.head[p] = None THEN @ \ {p} ELSE @]

TakeOffReady(k, i) ==
    Dequeued(k, k.priority[i], Unlink(k.links, k.priority[i], i))

(* pick: the head of the best non-empty queue, and the state without it.   *)
Best(k) == IF k.readyBits = {} THEN None ELSE k.links.head[Min(k.readyBits)]

Picked(k) ==
    IF k.readyBits = {} THEN k
    ELSE Dequeued(k, Min(k.readyBits), PopFront(k.links, Min(k.readyBits)))

PickPending(k) == [Picked(k) EXCEPT !.pending = Best(k)]

(* Variant: the alarm of a delay is forgotten.                            *)
LeaveWaitKeepsAlarm(k, i) ==
    LET o == k.wait[i]
        left == [k EXCEPT !.wait[i] = "NotWaiting"]
    IN  IF o \in k.inUse
        THEN [left EXCEPT !.links = Unlink(@, o, i), !.waiters[o] = @ - 1]
        ELSE left

(* leaveWait: the alarm of a delay is cancelled, a wait list is left and   *)
(* its count lowered if the object is still there.                         *)
LeaveWait(k, i) ==
    LET o == k.wait[i]
        left == [k EXCEPT !.wait[i] = "NotWaiting",
                          !.delayed = IF o = "Delay" THEN @ \ {i} ELSE @]
    IN  IF o \in k.inUse
        THEN [left EXCEPT !.links = Unlink(@, o, i), !.waiters[o] = @ - 1]
        ELSE left

(* Variant: the state of the thread switched to is not set.                *)
NewContextKeepsState(k) ==
    LET chosen == IF k.pending \in {None, k.current} THEN PickPending(k) ELSE k
        next == IF chosen.pending = None THEN chosen.current ELSE chosen.pending
    IN  [chosen EXCEPT !.pending = next, !.current = next]

(* newContext: the pending choice is resolved and becomes current.         *)
NewContext(k) ==
    LET chosen == IF k.pending \in {None, k.current} THEN PickPending(k) ELSE k
        next == IF chosen.pending = None THEN chosen.current ELSE chosen.pending
    IN  [chosen EXCEPT !.pending = next, !.current = next, !.state[next] = "Run"]

(* INTRMAN's reschedule, with shouldPreempt; both the reschedule syscall   *)
(* and an interrupt's exit end in it.                                      *)
Reschedule(k) == IF k.pending # k.current THEN NewContext(k) ELSE k

(* switchNow: the trap's own answer, $a0 = 0, is put in the frame, for the *)
(* waker to overwrite.                                                     *)
SwitchNow(k) == Reschedule([k EXCEPT !.answer[k.current] = "Ok"])

(* blockCurrent.                                                           *)
BlockCurrent(k, reason) ==
    SwitchNow(PickPending([k EXCEPT !.state[k.current] = "Wait",
                                    !.wait[k.current] = reason]))

(* handOffIfBetter: the running thread goes behind its peers and the ready *)
(* thread i runs at once.                                                  *)
HandOffIfBetter(k, i) ==
    LET c == k.current
        yielded == [k EXCEPT !.state[c] = "Ready",
                             !.links = Enqueue(@, k.priority[c], c),
                             !.readyBits = @ \cup {k.priority[c]}]
    IN  IF k.priority[i] >= k.priority[c] THEN k
        ELSE SwitchNow([TakeOffReady(yielded, i) EXCEPT !.pending = i])

(* Variants: the thread already staged is not compared with, and the       *)
(* interrupted thread goes behind its peers.                               *)
StageIfBetterThanCurrent(k, i) ==
    LET nothing == k.pending \in {None, k.current}
        displaced == IF nothing THEN MakeReadyFirst(k, k.current)
                                ELSE MakeReady(k, k.pending)
    IN  IF k.priority[i] < k.priority[k.current]
        THEN [TakeOffReady(displaced, i) EXCEPT !.pending = i]
        ELSE k

StageIfBetterYielding(k, i) ==
    LET nothing == k.pending \in {None, k.current}
        displaced == MakeReady(k, k.pending)
    IN  IF /\ k.priority[i] < k.priority[k.current]
           /\ nothing \/ k.priority[i] < k.priority[k.pending]
        THEN [TakeOffReady(displaced, i) EXCEPT !.pending = i]
        ELSE k

(* The tail of wake in an interrupt: i is staged if it is better than both *)
(* the interrupted thread and the one already staged, which goes back to   *)
(* the ready queue -- the interrupted thread ahead of its peers, a staged  *)
(* one behind them.                                                        *)
StageIfBetter(k, i) ==
    LET nothing == k.pending \in {None, k.current}
        displaced == IF nothing THEN MakeReadyFirst(k, k.current)
                                ELSE MakeReady(k, k.pending)
    IN  IF /\ k.priority[i] < k.priority[k.current]
           /\ nothing \/ k.priority[i] < k.priority[k.pending]
        THEN [TakeOffReady(displaced, i) EXCEPT !.pending = i]
        ELSE k

(* wake: off the wait list, answered, readied, then handed over to or, in  *)
(* an interrupt, staged.                                                   *)
Wake(k, i, a, interrupt) ==
    LET woken == MakeReady([LeaveWait(k, i) EXCEPT !.answer[i] = a], i)
    IN  IF interrupt THEN StageIfBetter(woken, i) ELSE HandOffIfBetter(woken, i)

-----------------------------------------------------------------------------
(* The caller of a call's plain form is the running thread; the i-forms    *)
(* are called by interrupt handlers.  The idle thread loops and calls      *)
(* nothing, and no client aims a call at it.  A delete call is several     *)
(* steps, within which nothing else happens.                               *)
InThread == mode = "thread" /\ current # Idle /\ closing = {}
InInterrupt == mode = "intr"
InEither == InThread \/ InInterrupt
Target == Thread \ {Idle}

CreateThread(p) ==
    /\ InThread
    /\ \E i \in Thread :
        /\ state[i] = "Free" /\ \A j \in Thread : state[j] = "Free" => i <= j
        /\ Becomes([Kernel EXCEPT
             !.state[i] = "Dormant", !.wait[i] = "NotWaiting",
             !.initial[i] = p, !.priority[i] = p, !.wakeups[i] = 0,
             !.links.next[i] = None, !.links.prev[i] = None])
    /\ UNCHANGED mode

DeleteThread(i) ==
    /\ InThread /\ state[i] = "Dormant"
    /\ Becomes([Kernel EXCEPT !.state[i] = "Free"])
    /\ UNCHANGED mode

StartThread(i) ==
    /\ InThread /\ state[i] = "Dormant"
    /\ LET primed == [Kernel EXCEPT !.priority[i] = initial[i], !.answer[i] = "Ok"]
       IN  Becomes(HandOffIfBetter(MakeReady(primed, i), i))
    /\ UNCHANGED mode

ExitThread ==
    /\ InThread
    /\ Becomes(SwitchNow(PickPending(
         [Kernel EXCEPT !.state[current] = "Dormant",
                        !.wait[current] = "NotWaiting"])))
    /\ UNCHANGED mode

(* Both forms: the same body.  An interrupt that terminates the thread it  *)
(* or an earlier handler staged takes it off a ready queue it is not in.   *)
TerminateThread(i) ==
    /\ InEither /\ i # current /\ state[i] \notin {"Free", "Dormant"}
    /\ i = pending => "InterruptTerminatesStaged" \in Unsafe
    /\ LET out == IF state[i] = "Ready" THEN TakeOffReady(Kernel, i)
                  ELSE IF state[i] = "Wait" THEN LeaveWait(Kernel, i)
                  ELSE Kernel
       IN  Becomes([out EXCEPT !.pending = IF @ = i THEN current ELSE @,
                               !.state[i] = "Dormant"])
    /\ UNCHANGED mode

ChangeThreadPriority(i, p) ==
    /\ InThread /\ state[i] \notin {"Free", "Dormant"}
    /\ LET changed == [Kernel EXCEPT !.priority[i] = p]
           requeued == MakeReady([TakeOffReady(Kernel, i)
                                    EXCEPT !.priority[i] = p], i)
           best == Best(changed)
           out == IF state[i] = "Ready" THEN HandOffIfBetter(requeued, i)
                  ELSE IF i # current \/ best = None THEN changed
                  ELSE IF changed.priority[best] < p
                       THEN SwitchNow([MakeReady(Picked(changed), i)
                                         EXCEPT !.pending = best])
                       ELSE MakeReady(Picked(changed), best)
       IN  Becomes(out)
    /\ UNCHANGED mode

(* The i-form requeues a ready thread and stages nothing.                  *)
IChangeThreadPriority(i, p) ==
    /\ InInterrupt /\ state[i] \notin {"Free", "Dormant"}
    /\ \/ "InterruptReprioritises" \in Unsafe
       \/ state[i] = "Wait"
       \/ i \notin {current, pending} /\ p >= priority[pending]
    /\ LET requeued == MakeReady([TakeOffReady(Kernel, i)
                                    EXCEPT !.priority[i] = p], i)
       IN  Becomes(IF state[i] = "Ready" THEN requeued
                   ELSE [Kernel EXCEPT !.priority[i] = p])
    /\ UNCHANGED mode

(* The tail of rotateThreadReadyQueue: the head of queue p goes behind.    *)
HeadToTail(k, p) ==
    LET head == k.links.head[p]
    IN  IF head = None THEN k
        ELSE [k EXCEPT !.links = Enqueue(PopFront(@, p), p, head)]

(* Priority 0, the caller's own, is resolved.                              *)
RotateThreadReadyQueue(p) ==
    /\ InThread
    /\ Becomes(IF priority[current] = p /\ links.head[p] # None
               THEN SwitchNow(PickPending(MakeReady(Kernel, current)))
               ELSE HeadToTail(Kernel, p))
    /\ UNCHANGED mode

IRotateThreadReadyQueue(p) ==
    /\ InInterrupt
    /\ Becomes(HeadToTail(Kernel, p))
    /\ UNCHANGED mode

(* Variant: the released wait is answered like one that was met.           *)
ReleaseWaitAnswersOk(i) ==
    /\ InEither /\ state[i] = "Wait"
    /\ Becomes(Wake(Kernel, i, "Ok", InInterrupt))
    /\ UNCHANGED mode

ReleaseWaitThread(i) ==
    /\ InEither /\ state[i] = "Wait"
    /\ Becomes(Wake(Kernel, i, "ReleaseWait", InInterrupt))
    /\ UNCHANGED mode

(* Variants: the count of wakeups is not looked at, or not well enough.    *)
SleepThreadBlocks ==
    /\ InThread
    /\ Becomes(BlockCurrent(Kernel, "Sleep"))
    /\ UNCHANGED mode

SleepThreadBelowZero ==
    /\ InThread
    /\ Becomes(IF wakeups[current] >= 0
               THEN [Kernel EXCEPT !.wakeups[current] = @ - 1]
               ELSE BlockCurrent(Kernel, "Sleep"))
    /\ UNCHANGED mode

SleepThread ==
    /\ InThread
    /\ Becomes(IF wakeups[current] > 0
               THEN [Kernel EXCEPT !.wakeups[current] = @ - 1]
               ELSE BlockCurrent(Kernel, "Sleep"))
    /\ UNCHANGED mode

WakeupThread(i) ==
    /\ InEither /\ state[i] \notin {"Free", "Dormant"}
    /\ IF state[i] = "Wait" /\ wait[i] = "Sleep"
       THEN Becomes(Wake(Kernel, i, "Ok", InInterrupt))
       ELSE /\ wakeups[i] < MaxWakeups
            /\ Becomes([Kernel EXCEPT !.wakeups[i] = @ + 1])
    /\ UNCHANGED mode

CancelWakeupThread(i) ==
    /\ InEither /\ state[i] # "Free"
    /\ Becomes([Kernel EXCEPT !.wakeups[i] = 0])
    /\ UNCHANGED mode

(* delayThread: the alarm of one thread is refused while it has one; with  *)
(* every alarm record in use the call is refused too, and does nothing.    *)
DelayThread ==
    /\ InThread /\ current \notin delayed
    /\ Becomes(BlockCurrent([Kernel EXCEPT !.delayed = @ \cup {current}], "Delay"))
    /\ UNCHANGED mode

(* timerHandler's step for a due delay: its record is unlinked before the  *)
(* callback, delayExpired, runs.                                           *)
DelayExpired(i) ==
    /\ InInterrupt /\ i \in delayed
    /\ LET unlinked == [Kernel EXCEPT !.delayed = @ \ {i}]
       IN  Becomes(IF state[i] = "Wait" /\ wait[i] = "Delay"
                   THEN Wake(unlinked, i, "Ok", TRUE) ELSE unlinked)
    /\ UNCHANGED mode

(* What the object modules share.  A created object has an empty wait      *)
(* list.  A delete call wakes the waiters one after another as an          *)
(* interrupt would (wake's last argument is true), so that with a waiter   *)
(* better than the caller it leaves a staged thread and the caller on a    *)
(* ready queue, and no exit follows that would act on them.                *)
Created(k, o) ==
    [k EXCEPT !.inUse = @ \cup {o}, !.waiters[o] = 0,
              !.links.head[o] = None, !.links.tail[o] = None]

BeginDelete(o) ==
    /\ InThread /\ o \in inUse
    /\ \/ "DeleteOverBetterWaiter" \in Unsafe
       \/ \A t \in Thread : wait[t] = o => priority[t] >= priority[current]
    /\ Becomes([Kernel EXCEPT !.closing = {o}])
    /\ UNCHANGED mode

DeleteStep ==
    /\ \E o \in closing :
        LET head == links.head[o]
        IN  Becomes(IF head # None THEN Wake(Kernel, head, "WaitDelete", TRUE)
                    ELSE [Kernel EXCEPT !.inUse = @ \ {o}, !.closing = {}])
    /\ UNCHANGED mode

(* _intrman_dispatch: the handlers run between the two.                    *)
InterruptEnter ==
    /\ mode = "thread" /\ closing = {} /\ mode' = "intr"
    /\ Becomes(Kernel)

InterruptExit ==
    /\ InInterrupt /\ mode' = "thread"
    /\ Becomes(Reschedule(Kernel))

-----------------------------------------------------------------------------
(* _module_start: the idle thread ready, the boot thread running.          *)
SchedInit ==
    LET blank == [links |-> NoLinks, readyBits |-> {},
                  state |-> [t \in Thread |-> IF t = Boot THEN "Run" ELSE "Free"],
                  wait |-> [t \in Thread |-> "NotWaiting"],
                  priority |-> [t \in Thread |-> IF t = Boot THEN BootPriority
                                                 ELSE IdlePriority],
                  initial |-> [t \in Thread |-> IF t = Boot THEN BootInitial
                                                ELSE IdlePriority],
                  wakeups |-> [t \in Thread |-> 0],
                  answer |-> [t \in Thread |-> "Ok"],
                  inUse |-> {}, waiters |-> [o \in Object |-> 0],
                  delayed |-> {}, closing |-> {}, current |-> Boot, pending |-> Boot]
        k == MakeReady(blank, Idle)
    IN  /\ links = k.links        /\ readyBits = k.readyBits
        /\ state = k.state        /\ wait = k.wait      /\ priority = k.priority
        /\ initial = k.initial    /\ wakeups = k.wakeups /\ answer = k.answer
        /\ inUse = k.inUse        /\ waiters = k.waiters
        /\ delayed = k.delayed    /\ closing = k.closing
        /\ current = k.current    /\ pending = k.pending
        /\ mode = "thread"

SchedNext ==
    \/ "Create" \in Calls /\ \E p \in CallPriority : CreateThread(p)
    \/ "Delete" \in Calls /\ \E i \in Target : DeleteThread(i)
    \/ \E i \in Target : StartThread(i)
    \/ "Exit" \in Calls /\ ExitThread
    \/ "Terminate" \in Calls /\ \E i \in Target : TerminateThread(i)
    \/ "ChangePriority" \in Calls /\ \E i \in Target, p \in CallPriority :
        ChangeThreadPriority(i, p) \/ IChangeThreadPriority(i, p)
    \/ "Rotate" \in Calls /\ \E p \in Priority :
        RotateThreadReadyQueue(p) \/ IRotateThreadReadyQueue(p)
    \/ "ReleaseWait" \in Calls /\ \E i \in Target : ReleaseWaitThread(i)
    \/ "Sleep" \in Calls /\ SleepThread
    \/ \E i \in Target : WakeupThread(i) \/ CancelWakeupThread(i)
    \/ "Delay" \in Calls /\ DelayThread
    \/ \E i \in Target : DelayExpired(i)
    \/ InterruptEnter \/ InterruptExit

SchedSpec == SchedInit /\ [][SchedNext]_schedVars

-----------------------------------------------------------------------------
(* The type invariant.                                                     *)
TypeOK ==
    /\ links \in Links
    /\ readyBits \subseteq Priority
    /\ state \in [Thread -> State]
    /\ wait \in [Thread -> WaitReason]
    /\ priority \in [Thread -> Priority]
    /\ initial \in [Thread -> Priority]
    /\ wakeups \in [Thread -> 0 .. MaxWakeups]
    /\ answer \in [Thread -> Answer]
    /\ inUse \subseteq Object
    /\ waiters \in [Object -> Int]
    /\ delayed \subseteq Thread
    /\ closing \subseteq inUse
    /\ current \in Thread
    /\ pending \in Thread
    /\ mode \in {"thread", "intr"}

(* The queue that a thread's own record says it is in: the ready queue of  *)
(* its priority, unless it is the staged thread, or the list it waits on.  *)
Place ==
    [t \in Thread |->
        IF state[t] = "Ready" /\ t # pending THEN priority[t]
        ELSE IF state[t] = "Wait" /\ wait[t] \in Object THEN wait[t]
        ELSE Nowhere]

(* Whatever the order of wake-ups, terminations, priority changes and      *)
(* interrupts, the index arrays that enqueue and unlink write are doubly   *)
(* linked lists that agree with the threads' states.                       *)
Linked == LinkedAs(links, Place)

(* Following next from a queue's head meets exactly the threads that are   *)
(* ready at that priority, or waiting on that object, each once -- none is *)
(* lost to the scheduler, none is in two queues -- and the bitmap that     *)
(* pick reads has a bit for exactly the ready queues that hold a thread.   *)
QueuesMatchStates ==
    /\ \A q \in Queue :
        LET walk == Contents(links, q)
            there == {t \in Thread : Place[t] = q}
        IN  {walk[n] : n \in DOMAIN walk} = there /\ Len(walk) = Cardinality(there)
    /\ readyBits = {p \in Priority : links.head[p] # None}

(* No ready thread is better than the one that runs, or that will run when *)
(* the interrupt being served returns: no call and no order of wake-ups    *)
(* leaves a preemption owed.                                               *)
RunningIsBest ==
    \A t \in Thread :
        state[t] = "Ready" /\ t # pending => priority[pending] <= priority[t]

(* Outside an interrupt exactly the current thread is in state Run, and    *)
(* nothing is staged; inside one the interrupted thread is in state Run    *)
(* unless a better one is staged, and then both are Ready.                 *)
OneRuns ==
    /\ \A t \in Thread : state[t] = "Run" <=> t = current /\ pending = current
    /\ mode = "thread" => pending = current
    /\ state[pending] \in {"Run", "Ready"} /\ state[current] \in {"Run", "Ready"}

(* A thread sleeps only while no wakeup is owed to it: a wakeup that comes *)
(* before the sleep is counted, one that comes after ends it.              *)
NoLostWakeup == \A t \in Thread : wait[t] = "Sleep" => wakeups[t] = 0

(* A delayed thread has an alarm that will end its delay, and no alarm     *)
(* outlives the delay it was set for, whatever ended it.                   *)
DelayHasAlarm == \A t \in Thread : wait[t] = "Delay" <=> t \in delayed
=============================================================================
