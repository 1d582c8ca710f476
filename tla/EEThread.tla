------------------------------ MODULE EEThread ------------------------------
(***************************************************************************)
(* The EE kernel's threads and semaphores (src/kernel/thread.cpp), and the *)
(* entry and the exit of its interrupts (src/kernel/interrupt.cpp).        *)
(*                                                                         *)
(* Unlike THREADMAN this scheduler keeps the running thread in its ready   *)
(* queue, at the head, and never takes a thread out to run it.  A syscall  *)
(* runs with interrupts closed and is one step.  The slots come in pairs:  *)
(* the form that switches, for the running thread, marks its caller ready  *)
(* and picks again; the direct form, for interrupt handlers, only changes  *)
(* the tables, and linkReady's request has the outermost interrupt's exit  *)
(* switch.  Handlers may open interrupts again, so interrupts nest.        *)
(*                                                                         *)
(* Two calls loop over other threads, and a turn of each loop is a step in *)
(* which nothing else runs: the deletion of a semaphore and the load of a  *)
(* new program.                                                            *)
(*                                                                         *)
(* The queues are doubly linked lists of thread indices written by the     *)
(* same code as THREADMAN's, in module ThreadQueue.  Its queue p is        *)
(* priority p's; kIdleQueue is IdlePriority, and an Object a semaphore.    *)
(***************************************************************************)
EXTENDS ThreadQueue, FiniteSetsExt

CONSTANTS
    CallPriority,   \* the priorities calls are made with, of 0 .. 127
    MaxWakeups,     \* bound on wakeup_count
    MaxCount,       \* bound on a semaphore's count, which the code has not
    MaxDepth,       \* how deep interrupts nest
    Slots,          \* the slots, of those in AllSlots, that programs use
    Unsafe          \* the uses, of those in Uses, that the code mishandles
                    \* and programs make all the same

BootPriority == IdlePriority - 1    \* kBootPriority: the first program's
Idle == 0                           \* the boot thread, once it has retreated
Program == 1

AllSlots == {"Create", "ExitDelete", "Terminate", "ChangePriority", "Rotate",
             "ReleaseWait", "Sleep", "Suspend", "Load", "DeleteSema"}

(* Waiting on a semaphore from a queue that others are ready in, or on     *)
(* which another waits; suspending the thread that runs; a handler's       *)
(* terminating the thread it interrupted, which is taken off its queue and *)
(* runs on; a handler's lowering that thread, for which linkReady asks no  *)
(* switch although others may now be better.                               *)
Uses == {"WaitSemaInCrowd", "SuspendRunning", "TerminateInterrupted",
         "LowerInterrupted"}

ASSUME EEThreadAssumption ==
    /\ IdlePriority >= 3
    /\ CallPriority \subseteq 1 .. BootPriority - 1
    /\ MaxWakeups \in Nat /\ MaxCount \in Nat /\ MaxDepth \in Nat \ {0}
    /\ Slots \subseteq AllSlots /\ Unsafe \subseteq Uses
    /\ Object \cap {"Sleeping", "Load", "NoLoop"} = {}

VARIABLES
    links,      \* ready_queue, the semaphores' lists, next and prev
    lowest,     \* lowest_ready: where the pick starts scanning
    state,      \* ThreadRecord::state
    wait,       \* wait_type, and wait_id while it is a semaphore
    priority,   \* current_priority
    initial,    \* initial_priority
    wakeups,    \* wakeup_count
    result,     \* what the parked frame's $v0 is: "Live" or an answer; a
                \* running thread's registers are live
    byInterrupt,\* parked_by_interrupt, which is read of a parked thread only
    requested,  \* reschedule_requested
    current,    \* current_thread
    depth,      \* _interrupt_depth
    loop,       \* the semaphore being deleted, "Load", or "NoLoop"
    count,      \* Semaphore::count, -1 while free
    waiters     \* Semaphore::wait_count

eeVars == <<links, lowest, state, wait, priority, initial, wakeups, result,
            byInterrupt, requested, current, depth, loop, count, waiters>>

State == {"Free", "Run", "Ready", "Wait", "Suspend", "WaitSuspend", "Dormant"}
WaitReason == {"NotWaiting", "Sleeping"} \cup Object
Result == {"Live", "Answer", "Refused"}

Kernel ==
    [links |-> links, lowest |-> lowest, state |-> state, wait |-> wait,
     priority |-> priority, initial |-> initial, wakeups |-> wakeups,
     result |-> result, byInterrupt |-> byInterrupt, requested |-> requested,
     current |-> current, count |-> count, waiters |-> waiters]

Becomes(k) ==
    /\ links' = k.links        /\ lowest' = k.lowest      /\ state' = k.state
    /\ wait' = k.wait          /\ priority' = k.priority  /\ initial' = k.initial
    /\ wakeups' = k.wakeups    /\ result' = k.result
    /\ byInterrupt' = k.byInterrupt /\ requested' = k.requested
    /\ current' = k.current    /\ count' = k.count        /\ waiters' = k.waiters

-----------------------------------------------------------------------------
(* queueOf: the boot thread's is below every priority's.                   *)
QueueOf(k, i) == IF i = Idle THEN IdlePriority ELSE k.priority[i]

(* Variant: the scan's start is not lowered.                               *)
LinkReadyKeepsLowest(k, i) ==
    LET q == QueueOf(k, i)
    IN  [k EXCEPT !.links = Enqueue(@, q, i),
                  !.requested = @ \/ q < QueueOf(k, k.current)]

(* linkReady and makeReady.                                                *)
LinkReady(k, i) ==
    LET q == QueueOf(k, i)
    IN  [k EXCEPT !.links = Enqueue(@, q, i),
                  !.lowest = IF q < @ THEN q ELSE @,
                  !.requested = @ \/ q < QueueOf(k, k.current)]

MakeReady(k, i) == LinkReady([k EXCEPT !.state[i] = "Ready"], i)

TakeOffReadyQueue(k, i) == [k EXCEPT !.links = Unlink(@, QueueOf(k, i), i)]

(* leaveWaitList: off the semaphore's list, if it is one it waits on.      *)
LeaveWaitList(k, i) ==
    LET s == k.wait[i]
        left == [k EXCEPT !.wait[i] = "NotWaiting"]
    IN  IF s \in Object
        THEN [left EXCEPT !.links = Unlink(@, s, i),
                          !.waiters[s] = IF @ > 0 THEN @ - 1 ELSE @]
        ELSE left

(* parkCurrent, with the value a resumed syscall answers set after it.     *)
Park(k, r, interrupted) ==
    [k EXCEPT !.result[k.current] = r, !.byInterrupt[k.current] = interrupted]

(* pickNext: the head of the first queue with one, from lowest_ready on.   *)
Filled(k) == {q \in Priority : q >= k.lowest /\ k.links.head[q] # None}

(* resume, with pickNext: the code stops for good when nothing is ready.   *)
ResumeNext(k) ==
    LET q == Min(Filled(k))
        next == k.links.head[q]
    IN  [k EXCEPT !.lowest = q, !.current = next, !.state[next] = "Run",
                  !.result[next] = "Live", !.byInterrupt[next] = FALSE]

(* yield and block: the caller stays in its queue, or leaves it.           *)
Yield(k) ==
    ResumeNext([Park(k, "Answer", FALSE) EXCEPT !.state[k.current] = "Ready"])

Block(k, reason) ==
    LET off == TakeOffReadyQueue(Park(k, "Answer", FALSE), k.current)
    IN  ResumeNext([off EXCEPT !.state[k.current] = "Wait",
                               !.wait[k.current] = reason])

(* resetToDormant, with the primed frame, and detach.                      *)
ResetToDormant(k, i) ==
    [k EXCEPT !.state[i] = "Dormant", !.priority[i] = k.initial[i],
              !.wait[i] = "NotWaiting", !.wakeups[i] = 0, !.result[i] = "Live"]

(* freeThread.  Creation sets every field of the record it takes, so what  *)
(* a free one last held is forgotten here.                                 *)
FreeThread(k, i) ==
    [k EXCEPT !.state[i] = "Free", !.priority[i] = BootPriority,
              !.initial[i] = BootPriority, !.wait[i] = "NotWaiting",
              !.wakeups[i] = 0, !.result[i] = "Live", !.byInterrupt[i] = FALSE]

Detach(k, i) ==
    IF k.state[i] \in {"Run", "Ready"} THEN TakeOffReadyQueue(k, i)
    ELSE IF k.state[i] \in {"Wait", "WaitSuspend"} THEN LeaveWaitList(k, i)
    ELSE k

(* wakeWaiter: a waiter that was suspended meanwhile is not readied.       *)
WakeWaiter(k, i) ==
    LET left == LeaveWaitList(k, i)
    IN  IF k.state[i] = "Wait" THEN MakeReady(left, i)
        ELSE [left EXCEPT !.state[i] = "Suspend"]

-----------------------------------------------------------------------------
(* Who calls: the running thread, outside interrupts, the forms that       *)
(* switch; handlers the direct forms.  The idle thread calls nothing.      *)
InThread == loop = "NoLoop" /\ depth = 0 /\ current # Idle
InHandler == loop = "NoLoop" /\ depth > 0
Target == Thread \ {Idle}
Other == Target \ {current}

(* What a call that succeeded does in each form: 0x2X yields, 0x2X+1 not.  *)
Answered(k) ==
    /\ InThread \/ InHandler
    /\ Becomes(IF InHandler THEN k ELSE Yield(k))
    /\ UNCHANGED <<depth, loop>>

(* The running thread's call returns to it, in one form only.              *)
Returned(k) == InThread /\ Becomes(k) /\ UNCHANGED <<depth, loop>>

(* Before the boot thread's launch of the first program it runs itself.    *)
StartProgramThread ==
    /\ depth = 0 /\ current = Idle /\ state[Idle] = "Ready"
    /\ LET boot == [Kernel EXCEPT
                      !.state[Idle] = "Ready", !.state[Program] = "Run",
                      !.initial[Program] = BootPriority,
                      !.priority[Program] = BootPriority,
                      !.wait[Program] = "NotWaiting", !.wakeups[Program] = 0]
       IN  Becomes([LinkReady(boot, Program) EXCEPT !.current = Program])
    /\ UNCHANGED <<depth, loop>>

(* The slots 0x04, 0x06, 0x07 and 0x7B replace the program: its thread     *)
(* goes on as the new program's, and every other one but the idle thread   *)
(* is taken out and freed, one at a turn.                                  *)
TerminateOtherThreads ==
    InThread /\ loop' = "Load" /\ Becomes(Kernel) /\ UNCHANGED depth

TerminateOther(i) ==
    /\ loop = "Load" /\ i \in Other /\ state[i] # "Free"
    /\ Becomes(FreeThread(Detach(Kernel, i), i))
    /\ UNCHANGED <<depth, loop>>

OthersTerminated ==
    /\ loop = "Load" /\ \A i \in Other : state[i] = "Free"
    /\ loop' = "NoLoop" /\ Becomes(Kernel) /\ UNCHANGED depth

(* Which free record the creation takes is left open: the list is LIFO.    *)
CreateThread(i, p) ==
    /\ state[i] = "Free"
    /\ Returned(ResetToDormant([Kernel EXCEPT
                    !.byInterrupt[i] = FALSE, !.initial[i] = p,
                    !.links = [@ EXCEPT !.next[i] = None, !.prev[i] = None]], i))

DeleteThread(i) ==
    /\ i \in Other /\ state[i] = "Dormant"
    /\ Returned(FreeThread(Kernel, i))

StartThread(i) ==
    /\ i \in Other /\ state[i] = "Dormant"
    /\ Returned(Yield(MakeReady(Kernel, i)))

ExitThread ==
    Returned(ResumeNext(ResetToDormant(TakeOffReadyQueue(Kernel, current), current)))

ExitDeleteThread ==
    Returned(ResumeNext(FreeThread(TakeOffReadyQueue(Kernel, current), current)))

(* A thread that terminates itself is not marked ready by a yield.         *)
TerminateThread(i) ==
    /\ state[i] \notin {"Free", "Dormant"}
    /\ InHandler /\ i = current => "TerminateInterrupted" \in Unsafe
    /\ LET out == ResetToDormant(Detach(Kernel, i), i)
       IN  IF InThread /\ i = current THEN Returned(ResumeNext(out))
           ELSE Answered(out)

(* Variant: the thread is unlinked from the queue it goes to.              *)
ChangeThreadPriorityFirst(i, p) ==
    /\ state[i] \notin {"Free", "Dormant"}
    /\ InHandler /\ i = current /\ p > priority[i]
        => "LowerInterrupted" \in Unsafe
    /\ LET set == [Kernel EXCEPT !.priority[i] = p]
       IN  Answered(IF state[i] \in {"Run", "Ready"}
                    THEN LinkReady(TakeOffReadyQueue(set, i), i) ELSE set)

(* linkReady's test is made with the new priority, the running thread's    *)
(* own included, so lowering that thread asks for nothing.                 *)
ChangeThreadPriority(i, p) ==
    /\ state[i] \notin {"Free", "Dormant"}
    /\ InHandler /\ i = current /\ p > priority[i]
        => "LowerInterrupted" \in Unsafe
    /\ LET off == TakeOffReadyQueue(Kernel, i)
       IN  Answered(IF state[i] \in {"Run", "Ready"}
                    THEN LinkReady([off EXCEPT !.priority[i] = p], i)
                    ELSE [Kernel EXCEPT !.priority[i] = p])

RotateThreadReadyQueue(p) ==
    LET head == links.head[p]
    IN  Answered(IF head = None THEN Kernel
                 ELSE [Kernel EXCEPT !.links = Enqueue(PopFront(@, p), p, head)])

(* Variant: whatever the thread does, its call is answered -1.             *)
ReleaseWaitThreadAnyState(i) ==
    /\ state[i] # "Free"
    /\ LET refused == [LeaveWaitList(Kernel, i) EXCEPT !.result[i] = "Refused"]
       IN  Answered(CASE state[i] = "Wait" -> MakeReady(refused, i)
                      [] state[i] = "WaitSuspend" ->
                            [refused EXCEPT !.state[i] = "Suspend"]
                      [] OTHER -> [Kernel EXCEPT !.result[i] = "Refused"])

ReleaseWaitThread(i) ==
    /\ state[i] # "Free"
    /\ LET refused == [LeaveWaitList(Kernel, i) EXCEPT !.result[i] = "Refused"]
       IN  Answered(CASE state[i] = "Wait" -> MakeReady(refused, i)
                      [] state[i] = "WaitSuspend" ->
                            [refused EXCEPT !.state[i] = "Suspend"]
                      [] OTHER -> Kernel)

SleepThread ==
    Returned(IF wakeups[current] > 0
             THEN [Kernel EXCEPT !.wakeups[current] = @ - 1]
             ELSE Block(Kernel, "Sleeping"))

(* A running, free or dormant thread is refused: its wakeup is not kept.   *)
WakeupThread(i) ==
    /\ state[i] \in {"Wait", "Ready", "Suspend", "WaitSuspend"}
    /\ LET woken == [Kernel EXCEPT !.wait[i] = "NotWaiting"]
       IN  IF wait[i] = "Sleeping"
           THEN Answered(IF state[i] = "Wait" THEN MakeReady(woken, i)
                         ELSE [woken EXCEPT !.state[i] = "Suspend"])
           ELSE /\ wakeups[i] < MaxWakeups
                /\ Answered([Kernel EXCEPT !.wakeups[i] = @ + 1])

(* Both slots are the same code and do not switch, as SuspendThread's.     *)
CancelWakeupThread(i) ==
    /\ InThread \/ InHandler
    /\ Becomes([Kernel EXCEPT !.wakeups[i] = 0]) /\ UNCHANGED <<depth, loop>>

SuspendThread(i) ==
    /\ InThread \/ InHandler
    /\ state[i] \in {"Run", "Ready", "Wait"}
    /\ state[i] = "Run" => "SuspendRunning" \in Unsafe
    /\ Becomes(IF state[i] = "Wait" THEN [Kernel EXCEPT !.state[i] = "WaitSuspend"]
               ELSE [TakeOffReadyQueue(Kernel, i) EXCEPT !.state[i] = "Suspend"])
    /\ UNCHANGED <<depth, loop>>

ResumeThread(i) ==
    /\ i \in Other /\ state[i] \in {"Suspend", "WaitSuspend"}
    /\ Answered(IF state[i] = "Suspend" THEN MakeReady(Kernel, i)
                ELSE [Kernel EXCEPT !.state[i] = "Wait"])

-----------------------------------------------------------------------------
(* The semaphores.  A count below zero marks a free record.                *)
CreateSema(s, start) ==
    /\ count[s] < 0
    /\ Returned([Kernel EXCEPT !.count[s] = start, !.waiters[s] = 0,
                    !.links = [@ EXCEPT !.head[s] = None, !.tail[s] = None]])

(* deleteSema's loop: the head is refused and woken until none is left,    *)
(* and only then is the record free.                                       *)
DeleteSema(s) ==
    /\ InThread \/ InHandler
    /\ count[s] >= 0
    /\ loop' = s /\ Becomes(Kernel) /\ UNCHANGED depth

RefuseWaiter(s) ==
    LET head == links.head[s]
    IN  /\ loop = s /\ head # None
        /\ Becomes(WakeWaiter([Kernel EXCEPT !.result[head] = "Refused"], head))
        /\ UNCHANGED <<depth, loop>>

SemaDeleted(s) ==
    /\ loop = s /\ links.head[s] = None
    /\ LET deleted == [Kernel EXCEPT !.count[s] = -1]
       IN  Becomes(IF depth > 0 THEN deleted ELSE Yield(deleted))
    /\ loop' = "NoLoop" /\ UNCHANGED depth

(* Variant: a waiter that was suspended meanwhile is passed over.          *)
SignalSemaPassesSuspended(s) ==
    LET head == links.head[s]
        passed == head = None \/ state[head] = "WaitSuspend"
    IN  /\ count[s] >= 0 /\ (passed => count[s] < MaxCount)
        /\ Answered(IF passed THEN [Kernel EXCEPT !.count[s] = @ + 1]
                    ELSE WakeWaiter([Kernel EXCEPT !.result[head] = "Answer"], head))

SignalSema(s) ==
    LET head == links.head[s]
    IN  /\ count[s] >= 0 /\ (head = None => count[s] < MaxCount)
        /\ Answered(IF head = None THEN [Kernel EXCEPT !.count[s] = @ + 1]
                    ELSE WakeWaiter([Kernel EXCEPT !.result[head] = "Answer"], head))

(* The caller joins the semaphore's list while it is still linked in its   *)
(* ready queue, and block then unlinks it from the one with the other's    *)
(* links: right only if it was the only thread of both.                    *)
WaitSema(s) ==
    LET joined == [Kernel EXCEPT !.links = Enqueue(@, s, current),
                                 !.waiters[s] = @ + 1]
        queue == priority[current]
        alone == /\ links.head[queue] = current /\ links.tail[queue] = current
                 /\ links.head[s] = None
    IN  /\ count[s] = 0 => alone \/ "WaitSemaInCrowd" \in Unsafe
        /\ count[s] >= 0
        /\ Returned(IF count[s] > 0 THEN [Kernel EXCEPT !.count[s] = @ - 1]
                    ELSE Block(joined, s))

PollSema(s) ==
    /\ InThread \/ InHandler
    /\ count[s] > 0
    /\ Becomes([Kernel EXCEPT !.count[s] = @ - 1]) /\ UNCHANGED <<depth, loop>>

-----------------------------------------------------------------------------
(* Variant: every entry starts a request afresh.                           *)
InterruptEntryClears ==
    /\ loop = "NoLoop" /\ depth < MaxDepth /\ depth' = depth + 1
    /\ UNCHANGED loop
    /\ Becomes([Kernel EXCEPT !.requested = FALSE])

(* _interrupt_entry and interruptDispatch's start: only the outermost      *)
(* entry clears the request.  A handler that opens interrupts nests.       *)
InterruptEntry ==
    /\ loop = "NoLoop" /\ depth < MaxDepth /\ depth' = depth + 1
    /\ UNCHANGED loop
    /\ Becomes([Kernel EXCEPT !.requested = @ /\ depth > 0])

(* interruptReschedule, at the outermost exit: the interrupted thread is   *)
(* parked whole and the frame rewritten with the picked thread's.          *)
InterruptExit ==
    /\ InHandler /\ depth' = depth - 1 /\ UNCHANGED loop
    /\ Becomes(IF depth > 1 \/ ~requested THEN Kernel
               ELSE ResumeNext([Park(Kernel, "Live", TRUE)
                                  EXCEPT !.requested = FALSE,
                                         !.state[current] = "Ready"]))

-----------------------------------------------------------------------------
(* prepareTables: the boot thread runs and is reported ready.              *)
EEInit ==
    /\ links = Enqueue(NoLinks, IdlePriority, Idle)
    /\ lowest = IdlePriority
    /\ state = [t \in Thread |-> IF t = Idle THEN "Ready" ELSE "Free"]
    /\ wait = [t \in Thread |-> "NotWaiting"]
    /\ priority = [t \in Thread |-> BootPriority]
    /\ initial = [t \in Thread |-> BootPriority]
    /\ wakeups = [t \in Thread |-> 0]
    /\ result = [t \in Thread |-> "Live"]
    /\ byInterrupt = [t \in Thread |-> FALSE]
    /\ requested = FALSE /\ current = Idle /\ depth = 0
    /\ loop = "NoLoop"
    /\ count = [s \in Object |-> -1] /\ waiters = [s \in Object |-> 0]

EENext ==
    \/ StartProgramThread \/ InterruptEntry \/ InterruptExit
    \/ "Load" \in Slots /\ TerminateOtherThreads
    \/ OthersTerminated
    \/ "Sleep" \in Slots /\ SleepThread
    \/ "ExitDelete" \in Slots /\ (ExitThread \/ ExitDeleteThread)
    \/ \E i \in Target :
        \/ "Create" \in Slots /\ \E p \in CallPriority : CreateThread(i, p)
        \/ "ExitDelete" \in Slots /\ DeleteThread(i)
        \/ StartThread(i) \/ TerminateOther(i)
        \/ "Terminate" \in Slots /\ TerminateThread(i)
        \/ "ChangePriority" \in Slots /\ \E p \in CallPriority :
            ChangeThreadPriority(i, p)
        \/ "ReleaseWait" \in Slots /\ ReleaseWaitThread(i)
        \/ "Sleep" \in Slots /\ (WakeupThread(i) \/ CancelWakeupThread(i))
        \/ "Suspend" \in Slots /\ (SuspendThread(i) \/ ResumeThread(i))
    \/ "Rotate" \in Slots /\ \E p \in CallPriority : RotateThreadReadyQueue(p)
    \/ \E s \in Object :
        \/ \E start \in 0 .. MaxCount : CreateSema(s, start)
        \/ "DeleteSema" \in Slots /\ DeleteSema(s)
        \/ RefuseWaiter(s) \/ SemaDeleted(s)
        \/ SignalSema(s) \/ WaitSema(s) \/ PollSema(s)

EESpec == EEInit /\ [][EENext]_eeVars

-----------------------------------------------------------------------------
(* Where a thread's own record says it is: in the ready queue it runs or   *)
(* is ready in, or on the list of the semaphore it waits on.               *)
Place ==
    [t \in Thread |->
        IF state[t] \in {"Run", "Ready"} THEN QueueOf(Kernel, t)
        ELSE IF wait[t] \in Object THEN wait[t] ELSE Nowhere]

(* Every queue, walked from its head, holds exactly the threads whose      *)
(* records say they are in it -- the running thread included, so that a    *)
(* pick can choose it again -- no thread is lost to the scheduler or in    *)
(* two queues, and wait_count counts the semaphore's list.                 *)
QueuesHoldThreads ==
    /\ \A q \in Queue :
        LET walk == Contents(links, q)
            there == {t \in Thread : Place[t] = q}
        IN  {walk[n] : n \in DOMAIN walk} = there /\ Len(walk) = Cardinality(there)
    /\ \A s \in Object : waiters[s] = Cardinality({t \in Thread : wait[t] = s})

(* lowest_ready, a cached value that the pick starts from, never hides a   *)
(* thread: no queue above it holds one.  And the boot thread stays ready   *)
(* below the priorities, so a pick always finds a thread.                  *)
PickMissesNone ==
    /\ \A q \in Priority : links.head[q] # None => lowest <= q
    /\ links.head[IdlePriority] = Idle

(* No ready thread is better than the running one, unless a deletion is in *)
(* its loop, after which its caller yields, or an interrupt is being       *)
(* served whose exit will switch: a wake-up by any handler, however deep   *)
(* it nests, is acted on at the outermost exit.                            *)
BetterThreadRuns ==
    \A t \in Thread :
        state[t] = "Ready" /\ QueueOf(Kernel, t) < QueueOf(Kernel, current)
            => requested /\ (depth > 0 \/ loop \in Object)

(* A frame that an interrupt saved holds live registers: until its thread  *)
(* runs again or starts afresh, no release, deletion or signal writes an   *)
(* answer into it; and a thread that waits was parked by its own call.     *)
LiveFramesKept ==
    /\ \A t \in Thread : state[t] \in {"Wait", "WaitSuspend"} => ~byInterrupt[t]
    /\ \A t \in Thread : t # current /\ byInterrupt[t] => result[t] = "Live"

(* A signal is for one thread: no thread waits on a semaphore that has a   *)
(* count left, suspended or not.                                           *)
NoWaitWithCount ==
    \A t \in Thread : wait[t] \in Object => count[wait[t]] = 0
=============================================================================
