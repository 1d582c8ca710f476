------------------------------ MODULE EventFlag ------------------------------
(***************************************************************************)
(* THREADMAN's event flags, the thevent calls (src/iop/threadman.cpp), on  *)
(* its scheduler.  Every Object is an event flag slot.                     *)
(*                                                                         *)
(* setEventFlag walks the flag's waiters and wakes those whose condition   *)
(* holds, and a wake in thread context may switch to the woken thread with *)
(* the walk unfinished: it goes on, from the thread it read as the next    *)
(* one, when its caller runs again.  So a walk is a step per waiter, and   *)
(* its place is kept for each thread that makes one, and for the interrupt *)
(* being served under the key None.                                        *)
(***************************************************************************)
EXTENDS Scheduler

CONSTANTS
    Bit,            \* the bits of a flag
    Needs           \* the conditions that threads wait for, of those in Need

(* waitEventFlag's bits and mode: all of the bits or, with WEF_OR, any of  *)
(* them; with WEF_CLEAR the wait that ends clears the whole flag.          *)
Need == [bits : (SUBSET Bit) \ {{}}, any : BOOLEAN, clear : BOOLEAN]

ASSUME EventFlagAssumption == Needs \subseteq Need /\ Needs # {}

VARIABLES
    flags,      \* Event::bits
    multi,      \* the flags whose attr has EA_MULTI
    need,       \* Thread::wait_bits and wait_mode
    walk        \* the set calls in progress: the flag and the next waiter

eventVars == <<flags, multi, need, walk>>
vars == <<schedVars, eventVars>>

NoWalk == [flag |-> None, at |-> None]
Walk == [flag : Object, at : Thread] \cup {NoWalk}

(* Who is executing: the key of walk for it.                               *)
Running == IF mode = "intr" THEN None ELSE current
Walking == walk[Running] # NoWalk

-----------------------------------------------------------------------------
(* eventSatisfied.                                                         *)
Satisfied(bits, n) ==
    IF n.any THEN bits \cap n.bits # {} ELSE n.bits \subseteq bits

CreateEventFlag(e, bits, shared) ==
    /\ InThread /\ e \notin inUse
    /\ Becomes(Created(Kernel, e))
    /\ flags' = [flags EXCEPT ![e] = bits]
    /\ multi' = IF shared THEN multi \cup {e} ELSE multi \ {e}
    /\ UNCHANGED <<mode, need, walk>>

DeleteEventFlag(e) == BeginDelete(e) /\ UNCHANGED eventVars

(* setEventFlag up to its loop: the bits are or-ed in and the walk is at   *)
(* the first waiter.  With a better thread woken ahead of the last waiter  *)
(* the caller is switched out in the middle of the walk.                   *)
SetEventFlag(e, bits) ==
    /\ InEither /\ e \in inUse
    /\ \/ InInterrupt \/ "SetOverBetterWaiter" \in Unsafe
       \/ \A t \in Thread : wait[t] = e /\ priority[t] < priority[current]
                            => links.next[t] = None
    /\ flags' = [flags EXCEPT ![e] = @ \cup bits]
    /\ walk' = [walk EXCEPT ![Running] = IF links.head[e] = None THEN NoWalk
                                         ELSE [flag |-> e, at |-> links.head[e]]]
    /\ UNCHANGED <<schedVars, multi, need>>

(* Variant of a turn of its loop: it does not go on past a thread that it  *)
(* woke.                                                                   *)
WalkStepStays ==
    LET e == walk[Running].flag
        t == walk[Running].at
        met == Satisfied(flags[e], need[t])
    IN  /\ Walking
        /\ walk' = [walk EXCEPT ![Running] =
             IF links.next[t] = None THEN NoWalk
             ELSE [@ EXCEPT !.at = IF met THEN t ELSE links.next[t]]]
        /\ IF met
           THEN /\ flags' = IF need[t].clear THEN [flags EXCEPT ![e] = {}] ELSE flags
                /\ Becomes(Wake(Kernel, t, "Ok", InInterrupt))
           ELSE UNCHANGED flags /\ Becomes(Kernel)
        /\ UNCHANGED <<mode, multi, need>>

(* One turn of its loop.  The next thread is read before the wake.         *)
WalkStep ==
    LET e == walk[Running].flag
        t == walk[Running].at
        following == links.next[t]
    IN  /\ Walking
        /\ walk' = [walk EXCEPT ![Running] = IF following = None THEN NoWalk
                                             ELSE [@ EXCEPT !.at = following]]
        /\ IF Satisfied(flags[e], need[t])
           THEN /\ flags' = IF need[t].clear THEN [flags EXCEPT ![e] = {}] ELSE flags
                /\ Becomes(Wake(Kernel, t, "Ok", InInterrupt))
           ELSE UNCHANGED flags /\ Becomes(Kernel)
        /\ UNCHANGED <<mode, multi, need>>

(* The argument is a keep-mask.                                            *)
ClearEventFlag(e, keep) ==
    /\ InEither /\ e \in inUse
    /\ flags' = [flags EXCEPT ![e] = @ \cap keep]
    /\ UNCHANGED <<schedVars, multi, need, walk>>

(* A flag without EA_MULTI refuses a second waiter.                        *)
Admits(e) == e \in multi \/ waiters[e] = 0

(* waitEventFlag with its condition met, blocking or polling.              *)
TakeEventFlag(e, n) ==
    /\ InThread /\ e \in inUse /\ Admits(e) /\ Satisfied(flags[e], n) /\ n.clear
    /\ flags' = [flags EXCEPT ![e] = {}]
    /\ UNCHANGED <<schedVars, multi, need, walk>>

(* Variants: the caller joins at the head, or blocks without the test.     *)
WaitEventFlagAtHead(e, n) ==
    /\ InThread /\ e \in inUse /\ Admits(e) /\ ~Satisfied(flags[e], n)
    /\ need' = [need EXCEPT ![current] = n]
    /\ Becomes(BlockCurrent([Kernel EXCEPT !.links = EnqueueFirst(@, e, current),
                                           !.waiters[e] = @ + 1], e))
    /\ UNCHANGED <<mode, flags, multi, walk>>

WaitEventFlagUntested(e, n) ==
    /\ InThread /\ e \in inUse /\ Admits(e)
    /\ need' = [need EXCEPT ![current] = n]
    /\ Becomes(BlockCurrent([Kernel EXCEPT !.links = Enqueue(@, e, current),
                                           !.waiters[e] = @ + 1], e))
    /\ UNCHANGED <<mode, flags, multi, walk>>

WaitEventFlag(e, n) ==
    /\ InThread /\ e \in inUse /\ Admits(e) /\ ~Satisfied(flags[e], n)
    /\ need' = [need EXCEPT ![current] = n]
    /\ Becomes(BlockCurrent([Kernel EXCEPT !.links = Enqueue(@, e, current),
                                           !.waiters[e] = @ + 1], e))
    /\ UNCHANGED <<mode, flags, multi, walk>>

-----------------------------------------------------------------------------
Init ==
    /\ SchedInit
    /\ flags = [e \in Object |-> {}] /\ multi = {}
    /\ need = [t \in Thread |-> CHOOSE n \in Needs : TRUE]
    /\ walk = [c \in Index |-> NoWalk]

(* A walk holds interrupts off to its end, or until it switches out.       *)
Next ==
    \/ WalkStep
    \/ /\ ~Walking
       /\ \/ SchedNext /\ UNCHANGED eventVars
          \/ DeleteStep /\ UNCHANGED eventVars
          \/ \E e \in Object :
              \/ DeleteEventFlag(e)
              \/ \E bits \in SUBSET Bit :
                  CreateEventFlag(e, bits, TRUE) \/ CreateEventFlag(e, bits, FALSE)
              \/ \E bits \in (SUBSET Bit) \ {{}} : SetEventFlag(e, bits)
              \/ \E keep \in SUBSET Bit : ClearEventFlag(e, keep)
              \/ \E n \in Needs : TakeEventFlag(e, n) \/ WaitEventFlag(e, n)

Spec == Init /\ [][Next]_vars

(* Calls and handlers return, and interrupts keep coming that set every    *)
(* bit of each flag.                                                       *)
Fairness ==
    /\ WF_mode(mode' = IF mode = "thread" THEN "intr" ELSE "thread")
    /\ WF_closing(closing # {} /\ closing' = {})
    /\ WF_walk(Walking /\ walk' = [walk EXCEPT ![Running] = NoWalk])
    /\ \A e \in Object : SF_<<flags, walk>>(
        /\ InInterrupt /\ ~Walking /\ links.head[e] # None
        /\ flags' = [flags EXCEPT ![e] = Bit]
        /\ walk' = [walk EXCEPT ![None] = [flag |-> e, at |-> links.head[e]]])

FairSpec == Spec /\ Fairness

-----------------------------------------------------------------------------
(* Between calls no thread waits for what its flag already holds: no set   *)
(* is missed, whether it came before the wait, after it, or together with  *)
(* others that an earlier waiter's clear took away.                        *)
NoSatisfiedWaiter ==
    (\A c \in Index : walk[c] = NoWalk) =>
        \A t \in Thread : wait[t] \in Object => ~Satisfied(flags[wait[t]], need[t])

(* A set call looks only at threads that wait on its flag, from the first  *)
(* of them to the last.                                                    *)
WalkMeetsWaiters ==
    \A c \in Index : walk[c] # NoWalk => wait[walk[c].at] = walk[c].flag

(* Under fairness a waiter is released: it is not passed over for ever,    *)
(* however the waiters ahead of it clear the flag and come back.           *)
WaiterIsReleased ==
    \A e \in Object, t \in Thread : wait[t] = e ~> wait[t] # e
=============================================================================
