----------------------------- MODULE ThreadQueue -----------------------------
(***************************************************************************)
(* The thread queues of THREADMAN (src/iop/threadman.cpp).                 *)
(*                                                                         *)
(* Every thread record holds one pair of indices, next and prev, and every *)
(* queue -- one ready queue per priority, one wait list per semaphore,     *)
(* event flag and message box -- holds a head and a tail.  A thread is     *)
(* therefore in one queue at a time, and which queue that is can only be   *)
(* told from the thread's state: enqueue and unlink are handed the queue   *)
(* and trust their caller.  The operators below are those functions on a   *)
(* value l of the four pointer arrays, with what they do to a thread that  *)
(* is not where the caller says kept as it is in the code.                 *)
(***************************************************************************)
EXTENDS Integers, FiniteSets, Sequences

CONSTANTS
    NumThreads,     \* kThreads: thread slots, the idle thread's included
    IdlePriority,   \* kIdlePriority: the worst priority, the idle thread's
    Object          \* the waitable objects: semaphores, event flags or boxes

Thread == 0 .. NumThreads - 1
Priority == 1 .. IdlePriority
Queue == Priority \cup Object

None == -1          \* kNone: no thread
Nowhere == 0        \* the place of a thread that is in no queue

(* Slots 0 and 1 are the idle and the boot thread; objects are not         *)
(* confused with priorities or with the other reasons to wait.             *)
ASSUME QueueAssumption ==
    /\ NumThreads \in Nat /\ NumThreads >= 2
    /\ IdlePriority \in Nat /\ IdlePriority >= 2
    /\ Object \cap ({Nowhere} \cup Priority) = {}
    /\ Object \cap {"NotWaiting", "Sleep", "Delay"} = {}

Index == Thread \cup {None}

Links == [next : [Thread -> Index], prev : [Thread -> Index],
          head : [Queue -> Index], tail : [Queue -> Index]]

NoLinks == [next |-> [t \in Thread |-> None], prev |-> [t \in Thread |-> None],
            head |-> [q \in Queue |-> None], tail |-> [q \in Queue |-> None]]

-----------------------------------------------------------------------------
(* enqueue: i goes behind the tail of queue q.                             *)
Enqueue(l, q, i) ==
    LET last == l.tail[q]
    IN  [next |-> [t \in Thread |-> IF t = last THEN i
                                    ELSE IF t = i THEN None ELSE l.next[t]],
         prev |-> [l.prev EXCEPT ![i] = last],
         head |-> [l.head EXCEPT ![q] = IF last = None THEN i ELSE @],
         tail |-> [l.tail EXCEPT ![q] = i]]

(* The linking half of makeReadyFirst: i goes ahead of the head of q.      *)
EnqueueFirst(l, q, i) ==
    LET first == l.head[q]
    IN  [next |-> [l.next EXCEPT ![i] = first],
         prev |-> [t \in Thread |-> IF t = first THEN i
                                    ELSE IF t = i THEN None ELSE l.prev[t]],
         head |-> [l.head EXCEPT ![q] = i],
         tail |-> [l.tail EXCEPT ![q] = IF first = None THEN i ELSE @]]

(* i goes directly ahead of the thread at, which is in q.                  *)
InsertBefore(l, q, at, i) ==
    LET before == l.prev[at]
    IN  [next |-> [t \in Thread |-> IF t = before THEN i
                                    ELSE IF t = i THEN at ELSE l.next[t]],
         prev |-> [l.prev EXCEPT ![i] = before, ![at] = i],
         head |-> [l.head EXCEPT ![q] = IF before = None THEN i ELSE @],
         tail |-> l.tail]

(* The walk of enqueueByPriority: the first thread of q, from the head,    *)
(* whose priority is worse than i's, or None.                              *)
FirstWorse(l, priority, q, i) ==
    LET At[n \in 0 .. NumThreads] ==
            IF n = 0 THEN l.head[q]
            ELSE LET at == At[n - 1]
                 IN  IF at = None \/ priority[at] > priority[i]
                     THEN at ELSE l.next[at]
    IN  At[NumThreads]

(* enqueueByPriority: in front of the first waiter of a worse priority.    *)
EnqueueByPriority(l, priority, q, i) ==
    LET at == FirstWorse(l, priority, q, i)
    IN  IF at \in Thread THEN InsertBefore(l, q, at, i) ELSE Enqueue(l, q, i)

(* Variant: the tail of q is left where it was.                            *)
UnlinkKeepsTail(l, q, i) ==
    LET before == l.prev[i]
        after  == l.next[i]
    IN  [next |-> [t \in Thread |-> IF t = i THEN None
                                    ELSE IF t = before THEN after ELSE l.next[t]],
         prev |-> [t \in Thread |-> IF t = i THEN None
                                    ELSE IF t = after THEN before ELSE l.prev[t]],
         head |-> [l.head EXCEPT ![q] = IF before = None THEN after ELSE @],
         tail |-> l.tail]

(* unlink: the neighbours are joined; where a neighbour is missing it is   *)
(* the head or the tail of q that moves, whether or not i was in q.        *)
Unlink(l, q, i) ==
    LET before == l.prev[i]
        after  == l.next[i]
    IN  [next |-> [t \in Thread |-> IF t = i THEN None
                                    ELSE IF t = before THEN after ELSE l.next[t]],
         prev |-> [t \in Thread |-> IF t = i THEN None
                                    ELSE IF t = after THEN before ELSE l.prev[t]],
         head |-> [l.head EXCEPT ![q] = IF before = None THEN after ELSE @],
         tail |-> [l.tail EXCEPT ![q] = IF after = None THEN before ELSE @]]

(* popFront, without the index it returns.                                 *)
PopFront(l, q) == IF l.head[q] = None THEN l ELSE Unlink(l, q, l.head[q])

-----------------------------------------------------------------------------
(* The threads met by following next from the head of q, in order; a walk  *)
(* longer than the number of threads is a cycle and is cut.                *)
Contents(l, q) ==
    LET From[n \in 0 .. NumThreads + 1] ==
            [t \in Index |-> IF t = None \/ n = 0 THEN <<>>
                             ELSE <<t>> \o From[n - 1][l.next[t]]]
    IN  From[NumThreads + 1][l.head[q]]

(* The pointers are those of doubly linked lists in which each thread t is *)
(* in queue w[t], or in none: next and prev are each other's inverse and   *)
(* stay within the queue, and head and tail are its two ends.              *)
LinkedAs(l, w) ==
    /\ \A t \in Thread :
        /\ w[t] = Nowhere => l.next[t] = None /\ l.prev[t] = None
        /\ l.next[t] # None => w[l.next[t]] = w[t] /\ l.prev[l.next[t]] = t
        /\ l.prev[t] # None => w[l.prev[t]] = w[t] /\ l.next[l.prev[t]] = t
        /\ w[t] # Nowhere /\ l.prev[t] = None => l.head[w[t]] = t
        /\ w[t] # Nowhere /\ l.next[t] = None => l.tail[w[t]] = t
    /\ \A q \in Queue :
        /\ l.head[q] = None <=> l.tail[q] = None
        /\ l.head[q] # None => w[l.head[q]] = q /\ l.prev[l.head[q]] = None
        /\ l.tail[q] # None => w[l.tail[q]] = q /\ l.next[l.tail[q]] = None
=============================================================================
