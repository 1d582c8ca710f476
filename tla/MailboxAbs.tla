----------------------------- MODULE MailboxAbs -----------------------------
(***************************************************************************)
(* What one message box of thmsgbx promises: a line of messages in the     *)
(* order they were sent or, for a box that orders them, by urgency with    *)
(* ties in the order they were sent, and a line of waiting threads; one of *)
(* the two is always empty.                                                *)
(***************************************************************************)
EXTENDS Integers, Sequences

CONSTANTS Thread, Message, Urgency

VARIABLES
    live,       \* the box exists
    sorted,     \* messages are ordered by urgency
    fifo,       \* waiters are served in the order they came
    messages,   \* the messages, first to last
    line        \* the waiters

vars == <<live, sorted, fifo, messages, line>>
kind == <<live, sorted, fifo>>

InsertAt(s, n, x) == SubSeq(s, 1, n) \o <<x>> \o SubSeq(s, n + 1, Len(s))
RemoveAt(s, n) == SubSeq(s, 1, n - 1) \o SubSeq(s, n + 1, Len(s))

InLine == {line[n] : n \in DOMAIN line}

Init == ~live /\ messages = <<>> /\ line = <<>>

Create ==
    /\ ~live /\ live' /\ sorted' \in BOOLEAN /\ fifo' \in BOOLEAN
    /\ UNCHANGED messages /\ line = <<>> /\ line' = <<>>

(* The place of m: after every message that is at least as urgent, or,     *)
(* unsorted, after every message.                                          *)
Send(m) ==
    /\ live
    /\ IF line # <<>> THEN line' = Tail(line) /\ UNCHANGED messages
       ELSE /\ \E n \in 0 .. Len(messages) :
                /\ messages' = InsertAt(messages, n, m)
                /\ \A k \in DOMAIN messages :
                    k <= n <=> ~sorted \/ Urgency[messages[k]] <= Urgency[m]
            /\ UNCHANGED line
    /\ UNCHANGED kind

Receive == live /\ messages # <<>> /\ messages' = Tail(messages)
           /\ UNCHANGED <<kind, line>>

Join ==
    /\ live /\ messages = <<>>
    /\ \E t \in Thread \ InLine, n \in 0 .. Len(line) :
        line' = InsertAt(line, n, t) /\ (fifo => n = Len(line))
    /\ UNCHANGED <<kind, messages>>

(* A thread is released, ends, or is told that the box is deleted.         *)
Leave ==
    /\ \E n \in DOMAIN line : line' = RemoveAt(line, n)
    /\ UNCHANGED <<kind, messages>>

(* Messages still queued are abandoned.                                    *)
Remove == live /\ line = <<>> /\ ~live' /\ messages' = <<>>
          /\ UNCHANGED <<sorted, fifo, line>>

Next == Create \/ (\E m \in Message : Send(m)) \/ Receive \/ Join \/ Leave \/ Remove

Spec == Init /\ [][Next]_vars
=============================================================================
