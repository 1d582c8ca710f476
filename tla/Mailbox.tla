------------------------------- MODULE Mailbox -------------------------------
(***************************************************************************)
(* THREADMAN's message boxes, the thmsgbx calls (src/iop/threadman.cpp),   *)
(* on its scheduler.  Every Object is a box slot.                          *)
(*                                                                         *)
(* A message is the sender's memory and is never copied: a box threads a   *)
(* circular list through the messages' own first words and keeps only the  *)
(* last of them.  A sender does not send a message that is still queued.   *)
(***************************************************************************)
EXTENDS Scheduler

CONSTANTS
    Message,        \* the messages of the clients
    Urgency         \* Message::priority, a byte: the lower the more urgent

ASSUME MailboxAssumption == Urgency \in [Message -> 0 .. 255] /\ None \notin Message

VARIABLES
    after,          \* Message::next
    last,           \* Mailbox::tail: the last queued message
    queued,         \* Mailbox::message_count
    byPriority,     \* the boxes with MBA_THPRI
    byUrgency       \* the boxes with MBA_MSPRI

boxVars == <<after, last, queued, byPriority, byUrgency>>
vars == <<schedVars, boxVars>>

-----------------------------------------------------------------------------
(* The message n hops after the last one of box b; the first is one hop.   *)
Hop(b, n) ==
    LET At[h \in 0 .. n] == IF h = 0 THEN last[b] ELSE after[At[h - 1]]
    IN  At[n]

(* The messages of box b, first to last.                                   *)
Messages(b) == [n \in 1 .. queued[b] |-> Hop(b, n)]

CreateMbx(b, thpri, mspri) ==
    /\ InThread /\ b \notin inUse
    /\ Becomes(Created(Kernel, b))
    /\ last' = [last EXCEPT ![b] = None]
    /\ queued' = [queued EXCEPT ![b] = 0]
    /\ byPriority' = IF thpri THEN byPriority \cup {b} ELSE byPriority \ {b}
    /\ byUrgency' = IF mspri THEN byUrgency \cup {b} ELSE byUrgency \ {b}
    /\ UNCHANGED <<mode, after>>

(* What is queued is abandoned.                                            *)
DeleteMbx(b) == BeginDelete(b) /\ UNCHANGED boxVars

(* Variant: a message goes ahead of those that are as urgent.              *)
QueueMessageAheadOfTies(b, m) ==
    LET position ==
            IF b \notin byUrgency THEN queued[b]
            ELSE Min({n \in 0 .. queued[b] :
                        n = queued[b] \/ Urgency[Hop(b, n + 1)] >= Urgency[m]})
        previous == Hop(b, position)
    IN  IF last[b] = None
        THEN /\ after' = [after EXCEPT ![m] = m]
             /\ last' = [last EXCEPT ![b] = m]
        ELSE /\ after' = [after EXCEPT ![m] = after[previous], ![previous] = m]
             /\ last' = IF position = queued[b] THEN [last EXCEPT ![b] = m] ELSE last

(* queueMessage: behind the last, or ahead of the first message of less    *)
(* urgency; a full lap ends behind the last, which m then becomes.         *)
QueueMessage(b, m) ==
    LET position ==
            IF b \notin byUrgency THEN queued[b]
            ELSE Min({n \in 0 .. queued[b] :
                        n = queued[b] \/ Urgency[Hop(b, n + 1)] > Urgency[m]})
        previous == Hop(b, position)
    IN  IF last[b] = None
        THEN /\ after' = [after EXCEPT ![m] = m]
             /\ last' = [last EXCEPT ![b] = m]
        ELSE /\ after' = [after EXCEPT ![m] = after[previous], ![previous] = m]
             /\ last' = IF position = queued[b] THEN [last EXCEPT ![b] = m] ELSE last

(* Variant: the box takes the message, whoever waits.                      *)
SendMbxQueues(b, m) ==
    /\ InEither /\ b \in inUse
    /\ \A c \in inUse : \A n \in 1 .. queued[c] : Hop(c, n) # m
    /\ QueueMessage(b, m)
    /\ queued' = [queued EXCEPT ![b] = @ + 1]
    /\ Becomes(Kernel)
    /\ UNCHANGED <<mode, byPriority, byUrgency>>

(* Both forms: a waiter takes the message, or the box does.                *)
SendMbx(b, m) ==
    /\ InEither /\ b \in inUse
    /\ \A c \in inUse : \A n \in 1 .. queued[c] : Hop(c, n) # m
    /\ IF links.head[b] # None
       THEN /\ Becomes(Wake(Kernel, links.head[b], "Ok", InInterrupt))
            /\ UNCHANGED <<after, last, queued>>
       ELSE /\ QueueMessage(b, m)
            /\ queued' = [queued EXCEPT ![b] = @ + 1]
            /\ Becomes(Kernel)
    /\ UNCHANGED <<mode, byPriority, byUrgency>>

(* Variant: the box does not forget its last message.                      *)
DequeueMessageKeepsLast(b) ==
    /\ queued' = [queued EXCEPT ![b] = @ - 1]
    /\ after' = [after EXCEPT ![last[b]] = after[after[last[b]]]]
    /\ UNCHANGED last

(* dequeueMessage, the message returned aside.                             *)
DequeueMessage(b) ==
    LET first == after[last[b]]
    IN  /\ queued' = [queued EXCEPT ![b] = @ - 1]
        /\ IF first = last[b]
           THEN last' = [last EXCEPT ![b] = None] /\ UNCHANGED after
           ELSE after' = [after EXCEPT ![last[b]] = after[first]] /\ UNCHANGED last

ReceiveMbx(b) ==
    /\ InThread /\ b \in inUse
    /\ IF queued[b] > 0
       THEN DequeueMessage(b) /\ Becomes(Kernel)
       ELSE LET joined == IF b \in byPriority
                          THEN EnqueueByPriority(links, priority, b, current)
                          ELSE Enqueue(links, b, current)
            IN  /\ Becomes(BlockCurrent([Kernel EXCEPT !.links = joined,
                                                       !.waiters[b] = @ + 1], b))
                /\ UNCHANGED <<after, last, queued>>
    /\ UNCHANGED <<mode, byPriority, byUrgency>>

(* pollMbx has no context gate; an empty box answers kMbxNoMsg.            *)
PollMbx(b) ==
    /\ InEither /\ b \in inUse /\ queued[b] > 0
    /\ DequeueMessage(b)
    /\ Becomes(Kernel)
    /\ UNCHANGED <<mode, byPriority, byUrgency>>

-----------------------------------------------------------------------------
Init ==
    /\ SchedInit
    /\ after = [m \in Message |-> m]
    /\ last = [b \in Object |-> None] /\ queued = [b \in Object |-> 0]
    /\ byPriority = {} /\ byUrgency = {}

Next ==
    \/ SchedNext /\ UNCHANGED boxVars
    \/ DeleteStep /\ UNCHANGED boxVars
    \/ \E b \in Object :
        \/ DeleteMbx(b) \/ ReceiveMbx(b) \/ PollMbx(b)
        \/ \E m \in Message : SendMbx(b, m)
        \/ \E thpri, mspri \in BOOLEAN : CreateMbx(b, thpri, mspri)

Spec == Init /\ [][Next]_vars

-----------------------------------------------------------------------------
(* A box has waiting threads or queued messages, never both.               *)
WaitersOrMessages ==
    \A b \in inUse : queued[b] > 0 => \A t \in Thread : wait[t] # b

(* The circle of every box closes: message_count hops from its last        *)
(* message pass as many different messages and end where they began.       *)
CircleCloses ==
    \A b \in inUse :
        /\ (last[b] = None) <=> (queued[b] = 0)
        /\ queued[b] > 0 => Hop(b, queued[b]) = last[b]
        /\ \A m, n \in DOMAIN Messages(b) : Messages(b)[m] = Messages(b)[n] => m = n
=============================================================================
