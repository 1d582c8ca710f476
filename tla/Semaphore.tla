------------------------------ MODULE Semaphore ------------------------------
(***************************************************************************)
(* THREADMAN's semaphores, the thsemap calls (src/iop/threadman.cpp), on   *)
(* its scheduler.  Every Object is a semaphore slot; which of the free     *)
(* slots createSema takes is left open.                                    *)
(***************************************************************************)
EXTENDS Scheduler

CONSTANT MaxCount       \* bound on the initial and maximum counts

ASSUME SemaphoreAssumption == MaxCount \in Nat

VARIABLES
    count,          \* Semaphore::count
    limit,          \* Semaphore::max
    byPriority      \* the semaphores whose attr has SA_THPRI

semaVars == <<count, limit, byPriority>>
vars == <<schedVars, semaVars>>

-----------------------------------------------------------------------------
(* createSema does not compare the initial count with the maximum.         *)
CreateSema(s, start, max, thpri) ==
    /\ InThread /\ s \notin inUse
    /\ Becomes(Created(Kernel, s))
    /\ count' = [count EXCEPT ![s] = start]
    /\ limit' = [limit EXCEPT ![s] = max]
    /\ byPriority' = IF thpri THEN byPriority \cup {s} ELSE byPriority \ {s}
    /\ UNCHANGED mode

DeleteSema(s) == BeginDelete(s) /\ UNCHANGED semaVars

(* Variant: the count goes up first.                                       *)
SignalSemaCountsFirst(s) ==
    /\ InEither /\ s \in inUse
    /\ IF count[s] < limit[s]
       THEN count' = [count EXCEPT ![s] = @ + 1] /\ Becomes(Kernel)
       ELSE /\ links.head[s] # None /\ UNCHANGED count
            /\ Becomes(Wake(Kernel, links.head[s], "Ok", InInterrupt))
    /\ UNCHANGED <<mode, limit, byPriority>>

(* Both forms: a waiter takes the signal, or the count does up to its      *)
(* maximum.                                                                *)
SignalSema(s) ==
    /\ InEither /\ s \in inUse
    /\ IF links.head[s] # None
       THEN Becomes(Wake(Kernel, links.head[s], "Ok", InInterrupt)) /\ UNCHANGED count
       ELSE /\ count[s] < limit[s] /\ count' = [count EXCEPT ![s] = @ + 1]
            /\ Becomes(Kernel)
    /\ UNCHANGED <<mode, limit, byPriority>>

(* Variant: the caller that blocks joins at the head of the wait list.     *)
WaitSemaAtHead(s) ==
    /\ InThread /\ s \in inUse
    /\ IF count[s] > 0
       THEN count' = [count EXCEPT ![s] = @ - 1] /\ Becomes(Kernel)
       ELSE LET joined == IF s \in byPriority
                          THEN EnqueueByPriority(links, priority, s, current)
                          ELSE EnqueueFirst(links, s, current)
            IN  /\ Becomes(BlockCurrent([Kernel EXCEPT !.links = joined,
                                                       !.waiters[s] = @ + 1], s))
                /\ UNCHANGED count
    /\ UNCHANGED <<mode, limit, byPriority>>

WaitSema(s) ==
    /\ InThread /\ s \in inUse
    /\ IF count[s] > 0
       THEN count' = [count EXCEPT ![s] = @ - 1] /\ Becomes(Kernel)
       ELSE LET joined == IF s \in byPriority
                          THEN EnqueueByPriority(links, priority, s, current)
                          ELSE Enqueue(links, s, current)
            IN  /\ Becomes(BlockCurrent([Kernel EXCEPT !.links = joined,
                                                       !.waiters[s] = @ + 1], s))
                /\ UNCHANGED count
    /\ UNCHANGED <<mode, limit, byPriority>>

(* An empty semaphore answers kSemaZero and changes nothing.               *)
PollSema(s) ==
    /\ InEither /\ s \in inUse /\ count[s] > 0
    /\ count' = [count EXCEPT ![s] = @ - 1]
    /\ Becomes(Kernel)
    /\ UNCHANGED <<mode, limit, byPriority>>

-----------------------------------------------------------------------------
Init ==
    /\ SchedInit
    /\ count = [s \in Object |-> 0] /\ limit = [s \in Object |-> 0]
    /\ byPriority = {}

Next ==
    \/ SchedNext /\ UNCHANGED semaVars
    \/ DeleteStep /\ UNCHANGED semaVars
    \/ \E s \in Object :
        \/ DeleteSema(s) \/ SignalSema(s) \/ WaitSema(s) \/ PollSema(s)
        \/ \E start, max \in 0 .. MaxCount, thpri \in BOOLEAN :
            CreateSema(s, start, max, thpri)

Spec == Init /\ [][Next]_vars

(* The step of SignalSema(s) in an interrupt while threads wait on s, told *)
(* from every other step by what becomes of the first of them.             *)
Signalled(s) ==
    LET first == links.head[s]
    IN  /\ InInterrupt /\ first # None
        /\ wait' = [wait EXCEPT ![first] = "NotWaiting"]
        /\ answer' = [answer EXCEPT ![first] = "Ok"]
        /\ \E also \in {first, current} :
            state' = [state EXCEPT ![first] = "Ready", ![also] = "Ready"]

(* Handlers return, and interrupts keep coming that signal each semaphore, *)
(* as the completion interrupts of the drivers do.  An interrupt can enter *)
(* whenever no call is in progress, and a delete call goes on: with other  *)
(* steps shut out, one of the two is all that can happen.                  *)
Fairness ==
    /\ WF_mode(mode' = IF mode = "thread" THEN "intr" ELSE "thread")
    /\ WF_closing(closing # {} /\ closing' = {})
    /\ \A s \in Object : SF_<<wait, answer, state>>(Signalled(s))

FairSpec == Spec /\ Fairness

-----------------------------------------------------------------------------
(* No thread waits on a semaphore that has something to give: signalSema   *)
(* gives to a waiter first, and waitSema waits only on an empty one.       *)
NoWaitWithCount ==
    \A s \in inUse : count[s] > 0 => \A t \in Thread : wait[t] # s

(* A thread that an interrupt's wake-ups preempt is, when the interrupt    *)
(* returns, the first of its priority, however many threads the handlers   *)
(* woke and in whatever order (for clients that make no rotate call).      *)
PreemptedKeepsTurn ==
    [][mode = "intr" /\ mode' = "thread" /\ current' # current
        => links'.head[priority[current]] = current]_vars

(* A thread that waits on a first-come semaphore is not overtaken for      *)
(* ever: it stops waiting, under fairness, even if every thread that is    *)
(* served comes back to wait again.                                        *)
FirstComeIsServed ==
    \A s \in Object, t \in Thread :
        wait[t] = s /\ s \notin byPriority ~> wait[t] # s
=============================================================================
