-------------------------------- MODULE Alarm --------------------------------
(***************************************************************************)
(* THREADMAN's clock and alarms (src/iop/threadman.cpp) over the hardware  *)
(* timer it takes: a free-running counter of Period values that raises a   *)
(* flag, and an interrupt, when it equals the compare register and when it *)
(* wraps.  A clock value, a high and a low word in the code, is a number   *)
(* below Period * Epochs, and clock arithmetic is modulo that.             *)
(*                                                                         *)
(* The counter goes on while the software works: within the handler's      *)
(* walk, while an interrupt waits to be taken and, if LateWrite, between   *)
(* the reading that armTimer decides by and its write of the compare       *)
(* register.  The software's parts do not overlap: calls hold interrupts   *)
(* off, and the handler is not interrupted by itself.                      *)
(***************************************************************************)
EXTENDS Integers, Sequences, FiniteSets, FiniteSetsExt

CONSTANTS
    Alarm,          \* the records of the clients, one per callback and argument
    Permanent,      \* the record that is never freed
    Period,         \* the counter's period, 2^32 ticks
    Epochs,         \* the high word's range, 2^32
    Granularity,    \* ticks_granularity: the shortest alarm
    Seed,           \* kSeedUsec in ticks
    Deltas,         \* the delays that alarms are set with
    MaxLag,         \* the most ticks in a row in which a call, the handler or
                    \* a request for it is outstanding
    LateWrite,      \* whether the counter may pass the deadline that armTimer
                    \* compared it with before the compare register is written
    MaxTime         \* bound on the ticks since the counter was started

Coalesce == 2 * Granularity     \* ticks_coalesce

ASSUME AlarmAssumption ==
    /\ Permanent \notin Alarm
    /\ {Period, Epochs, Granularity, Seed, MaxTime} \subseteq Nat \ {0}
    /\ Deltas \subseteq Nat /\ MaxLag \in Nat /\ LateWrite \in BOOLEAN
    /\ MaxTime < Period * Epochs - Seed

VARIABLES
    now,            \* ticks since the counter was started (the hardware's)
    compare,        \* the compare register
    flags,          \* the status flags raised since the status was read
    seen,           \* clock_seen: the last reading and the wraps counted
    queue,          \* the alarms from alarm_head on
    deadline,       \* Alarm::deadline
    doing,          \* what the software does: see Doing
    arming,         \* the value armTimer is about to write
    lag             \* ticks since it was last idle, with no request pending

vars == <<now, compare, flags, seen, queue, deadline, doing, arming, lag>>

(* Nothing; the handler's walk; armTimer's write, after which the call or  *)
(* handler is over, or the handler's walk goes on.                         *)
Doing == {"nothing", "walk", "write", "writeInWalk"}

Records == Alarm \cup {Permanent}
Queued == {queue[n] : n \in DOMAIN queue}

(* clockAdd and clockSubtract.                                             *)
Plus(a, b) == (a + b) % (Period * Epochs)
Minus(a, b) == (a - b) % (Period * Epochs)

-----------------------------------------------------------------------------
(* readClock: a counter below the last one seen has wrapped once more.     *)
ReadClock ==
    LET low == now % Period
        wraps == seen \div Period + (IF low < seen % Period THEN 1 ELSE 0)
    IN  (wraps * Period + low) % (Period * Epochs)

(* Variant: at the end of the queue.                                       *)
InsertedLast(q, d, a) == Append(q, a)

(* insertAlarm: ascending by deadline d, after any equal one.              *)
Inserted(q, d, a) ==
    LET n == Cardinality({m \in DOMAIN q : d[q[m]] <= d[a]})
    IN  SubSeq(q, 1, n) \o <<a>> \o SubSeq(q, n + 1, Len(q))

(* removeAlarm's links.                                                    *)
Without(q, a) ==
    LET n == CHOOSE n \in DOMAIN q : q[n] = a
    IN  SubSeq(q, 1, n - 1) \o SubSeq(q, n + 1, Len(q))

(* Variant: an overdue alarm is armed for like any other.                  *)
ArmedForThePast(q, d) ==
    LET n == Min({m \in DOMAIN q :
                    m = Len(q) \/ Plus(d[q[m]], Coalesce) < d[q[m + 1]]})
    IN  d[q[n]] % Period

(* armTimer's choice: the last of the run of heads that follow one another *)
(* within the window, or, if that one's time has come, a window from now.  *)
Armed(q, d) ==
    LET n == Min({m \in DOMAIN q :
                    m = Len(q) \/ Plus(d[q[m]], Coalesce) < d[q[m + 1]]})
    IN  IF ReadClock < d[q[n]] THEN d[q[n]] % Period
        ELSE (now + Coalesce) % Period

-----------------------------------------------------------------------------
(* addAlarm, by setAlarm and delayThread in a thread or by iSetAlarm in a  *)
(* callback of the handler's walk.  A record already queued is refused.    *)
SetAlarm(a, delta) ==
    /\ doing \in {"nothing", "walk"} /\ a \notin Queued
    /\ LET d == [deadline EXCEPT
                   ![a] = Plus(ReadClock, IF delta < Granularity THEN Granularity
                                          ELSE delta)]
           q == Inserted(queue, d, a)
       IN  queue' = q /\ deadline' = d /\ arming' = Armed(q, d)
    /\ seen' = ReadClock
    /\ doing' = IF doing = "walk" THEN "writeInWalk" ELSE "write"
    /\ UNCHANGED <<now, compare, flags, lag>>

(* removeAlarm, by cancelAlarm, cancelDelay and iCancelAlarm: the timer is *)
(* left as it is.                                                          *)
CancelAlarm(a) ==
    /\ doing \in {"nothing", "walk"} /\ a \in Queued
    /\ queue' = Without(queue, a)
    /\ UNCHANGED <<now, compare, flags, seen, deadline, doing, arming, lag>>

(* armTimer's last statement.                                              *)
WriteCompare ==
    /\ doing \in {"write", "writeInWalk"}
    /\ compare' = arming
    /\ doing' = IF doing = "write" THEN "nothing" ELSE "walk"
    /\ lag' = IF doing = "write" /\ flags = {} THEN 0 ELSE lag
    /\ UNCHANGED <<now, flags, seen, queue, deadline, arming>>

(* Variant: only the target interrupt reads the clock.                     *)
EnterHandlerUnread ==
    /\ doing = "nothing" /\ flags # {}
    /\ flags' = {} /\ seen' = IF "target" \in flags THEN ReadClock ELSE seen
    /\ doing' = IF "target" \in flags THEN "walk" ELSE "nothing"
    /\ lag' = IF "target" \in flags THEN lag ELSE 0
    /\ UNCHANGED <<now, compare, queue, deadline, arming>>

(* timerHandler: reading the status clears it; without the target flag the *)
(* reading of the clock is all there is to do.                             *)
EnterHandler ==
    /\ doing = "nothing" /\ flags # {}
    /\ flags' = {} /\ seen' = ReadClock
    /\ doing' = IF "target" \in flags THEN "walk" ELSE "nothing"
    /\ lag' = IF "target" \in flags THEN lag ELSE 0
    /\ UNCHANGED <<now, compare, queue, deadline, arming>>

Due == queue # <<>> /\ deadline[Head(queue)] <= ReadClock

(* One turn of its loop, with the callback's answer `again`.               *)
FireAlarm(again) ==
    LET a == Head(queue)
        more == IF a = Permanent THEN Period
                ELSE IF again < Coalesce THEN again ELSE Coalesce
        d == [deadline EXCEPT ![a] = Plus(@, more)]
    IN  /\ doing = "walk" /\ Due /\ seen' = ReadClock
        /\ IF more = 0 THEN queue' = Tail(queue) /\ UNCHANGED deadline
           ELSE queue' = Inserted(Tail(queue), d, a) /\ deadline' = d
        /\ UNCHANGED <<now, compare, flags, doing, arming, lag>>

(* The loop's end: the timer is armed for what is left.                    *)
LeaveHandler ==
    /\ doing = "walk" /\ ~Due /\ seen' = ReadClock
    /\ IF queue = <<>>
       THEN doing' = "nothing" /\ lag' = (IF flags = {} THEN 0 ELSE lag) /\ UNCHANGED arming
       ELSE doing' = "write" /\ arming' = Armed(queue, deadline) /\ UNCHANGED lag
    /\ UNCHANGED <<now, compare, flags, queue, deadline>>

(* The counter's tick, as the code relies on it: the target flag when it   *)
(* comes to equal the compare register, the overflow flag when it wraps.   *)
Tick ==
    /\ now < MaxTime /\ (doing \in {"write", "writeInWalk"} => LateWrite)
    /\ now' = now + 1
    /\ LET count == now' % Period
       IN  flags' = flags \cup (IF count = compare THEN {"target"} ELSE {})
                          \cup (IF count = 0 THEN {"overflow"} ELSE {})
    /\ IF doing = "nothing" /\ flags = {} THEN UNCHANGED lag
       ELSE lag < MaxLag /\ lag' = lag + 1
    /\ UNCHANGED <<compare, seen, queue, deadline, doing, arming>>

-----------------------------------------------------------------------------
(* startClock.                                                             *)
Init ==
    /\ now = 0 /\ compare = Granularity % Period /\ flags = {} /\ seen = 0
    /\ deadline = [a \in Records |-> IF a = Permanent THEN Minus(0, Seed) ELSE 0]
    /\ queue = <<Permanent>>
    /\ doing = "nothing" /\ arming = 0 /\ lag = 0

Next ==
    \/ \E a \in Alarm : CancelAlarm(a) \/ \E delta \in Deltas : SetAlarm(a, delta)
    \/ \E again \in {0, 1, Coalesce + 1} : FireAlarm(again)
    \/ EnterHandler \/ LeaveHandler \/ WriteCompare \/ Tick

Spec == Init /\ [][Next]_vars

-----------------------------------------------------------------------------
(* The next reading of the clock is right: no wrap of the counter has gone *)
(* unseen, whenever the two interrupts of a period are served.             *)
ClockIsTrue == ReadClock = now

(* The queue is in the order of its deadlines, holds no record twice, and  *)
(* has always the permanent one.                                           *)
QueueSorted ==
    /\ \A m, n \in DOMAIN queue : m < n =>
        deadline[queue[m]] <= deadline[queue[n]] /\ queue[m] # queue[n]
    /\ Permanent \in Queued

(* The ticks from now to the next time the counter equals compare.         *)
ToTarget == 1 + ((compare - now - 1) % Period)

(* With an alarm queued, the timer always has an interrupt coming: the     *)
(* target flag is up, or the counter will meet the compare register, and   *)
(* not much later than the first alarm is due -- by the windows that the   *)
(* alarms sharing an interrupt may be apart -- or than now if it is        *)
(* overdue.  No alarm is left to the counter's next time round by an order *)
(* of setting, cancelling and firing.                                      *)
AlarmWillRing ==
    doing = "nothing" /\ "target" \notin flags =>
        LET due == deadline[Head(queue)]
        IN  now + ToTarget <= (IF due > now THEN due ELSE now)
                              + Cardinality(Alarm) * Coalesce
=============================================================================
