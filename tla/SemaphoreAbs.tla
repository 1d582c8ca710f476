---------------------------- MODULE SemaphoreAbs ----------------------------
(***************************************************************************)
(* What one semaphore of thsemap promises, with no scheduler, no ready     *)
(* queues and no links: a count and an ordered line of waiters.  A signal  *)
(* either goes to the first in line, who is answered Ok, or is counted up  *)
(* to the limit; only a signal answers Ok, and it is used once.            *)
(***************************************************************************)
EXTENDS Integers, Sequences

CONSTANT Thread

VARIABLES
    live,       \* the semaphore exists
    count,      \* signals not yet taken
    limit,      \* the most that are kept
    fifo,       \* waiters are served in the order they came
    line,       \* the waiters
    answer,     \* per thread, what its wait answers
    dead        \* the threads that no longer run

vars == <<live, count, limit, fifo, line, answer, dead>>
kind == <<live, limit, fifo>>

InLine == {line[n] : n \in DOMAIN line}

(* Only the threads in S may have their answers changed.                   *)
AnswersChange(S) == \A t \in InLine \ S : answer'[t] = answer[t]

Init == ~live /\ line = <<>>

Create ==
    /\ ~live /\ live' /\ count' \in Nat /\ limit' \in Nat /\ fifo' \in BOOLEAN
    /\ line = <<>> /\ line' = <<>>

(* The first in line takes the signal.                                     *)
Give ==
    /\ live /\ line # <<>> /\ line' = Tail(line)
    /\ answer'[Head(line)] = "Ok" /\ AnswersChange({Head(line)})
    /\ UNCHANGED <<kind, count>>

Count ==
    /\ live /\ line = <<>> /\ count < limit /\ count' = count + 1
    /\ UNCHANGED <<kind, line>>

Take ==
    /\ live /\ count > 0 /\ count' = count - 1 /\ AnswersChange({})
    /\ UNCHANGED <<kind, line>>

(* A thread goes behind the others, or among them where the semaphore      *)
(* serves better threads first.                                            *)
Join ==
    /\ live /\ count = 0 /\ AnswersChange({})
    /\ \E t \in Thread \ InLine, n \in 0 .. Len(line) :
        /\ fifo => n = Len(line)
        /\ line' = SubSeq(line, 1, n) \o <<t>> \o SubSeq(line, n + 1, Len(line))
    /\ UNCHANGED <<kind, count>>

(* A thread leaves without a signal: released, or it ends.                 *)
Leave ==
    /\ \E n \in DOMAIN line :
        /\ line' = SubSeq(line, 1, n - 1) \o SubSeq(line, n + 1, Len(line))
        /\ answer'[line[n]] = "ReleaseWait" \/ line[n] \in dead'
        /\ AnswersChange({line[n]})
    /\ UNCHANGED <<kind, count>>

(* The semaphore is deleted: each waiter is told so, then it is gone.      *)
Refuse ==
    /\ live /\ line # <<>> /\ line' = Tail(line)
    /\ answer'[Head(line)] = "WaitDelete" /\ AnswersChange({Head(line)})
    /\ UNCHANGED <<kind, count>>

Remove ==
    /\ live /\ line = <<>> /\ ~live' /\ line' = <<>>
    /\ UNCHANGED <<count, limit, fifo>>

(* Anything that does not touch the semaphore or those in line.            *)
Elsewhere == AnswersChange({}) /\ UNCHANGED <<kind, count, line>>

Next == \/ Create \/ Give \/ Count \/ Take \/ Join \/ Leave \/ Refuse \/ Remove
        \/ Elsewhere

Spec == Init /\ [][Next]_vars
=============================================================================
