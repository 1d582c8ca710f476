----------------------------- MODULE MCMailbox -----------------------------
(* One box and three messages, two of them equally urgent; the boot thread *)
(* and one other over the idle thread.                                     *)
EXTENDS Mailbox

CONSTANTS box, m1, m2, m3

Boxes == {box}
ThreeMessages == {m1, m2, m3}
Urgencies == [m \in ThreeMessages |-> IF m = m3 THEN 1 ELSE 7]

(* The box's messages; a deleted box keeps a list it has no claim to.      *)
Held == IF box \in inUse THEN Messages(box) ELSE <<>>

(* The box, with its messages read off the circular list and its waiters   *)
(* off the links, as an abstract one.                                      *)
Abstract == INSTANCE MailboxAbs WITH
    live <- box \in inUse, sorted <- box \in byUrgency,
    fifo <- box \notin byPriority, messages <- Held,
    line <- Contents(links, box)

(* The box implements the abstract one: messages are received in the order *)
(* promised, none is lost and none is received twice, and a waiting thread *)
(* is served before any message is queued.                                 *)
ImplementsMailbox == Abstract!Spec
=============================================================================
