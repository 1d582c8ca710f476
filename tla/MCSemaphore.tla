---------------------------- MODULE MCSemaphore ----------------------------
(* One semaphore; the boot thread and two others over the idle thread, so  *)
(* that two can wait while a third signals, deletes or terminates them.    *)
EXTENDS Semaphore

CONSTANT s1

(* Semaphore s1, with its wait list read off the links, as an abstract one. *)
Abstract == INSTANCE SemaphoreAbs WITH
    live <- s1 \in inUse, count <- count[s1], limit <- limit[s1],
    fifo <- s1 \notin byPriority, line <- Contents(links, s1),
    answer <- answer, dead <- {t \in Thread : state[t] = "Dormant"}

(* The semaphore implements the abstract one: signals are neither lost nor *)
(* taken twice, the wait list is served in order, and a wait answers Ok    *)
(* only for a signal, whatever deletes, releases, priority changes and     *)
(* terminations of waiting threads come between.                           *)
ImplementsSemaphore == Abstract!Spec
=============================================================================
