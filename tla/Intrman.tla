------------------------------- MODULE Intrman -------------------------------
(***************************************************************************)
(* INTRMAN's tables, masks and dispatch (iop/intrman.cpp): one interrupt   *)
(* per exception for the plain lines, and on the DMA line a walk over the  *)
(* two banks of channels.  A step of the dispatch is what happens between  *)
(* two points where a device can change the registers; the threads' calls  *)
(* run with interrupts off and are atomic.                                 *)
(*                                                                         *)
(* An irq is a plain line or a channel.  The registers are sets: stat and  *)
(* mask of lines, dicr's enables and flags of channels of either bank.     *)
(* The low configuration bits of DICR and DICR2, the handlers' arguments   *)
(* and the software lines are left out.                                    *)
(***************************************************************************)
EXTENDS Integers, FiniteSets, FiniteSetsExt

CONSTANTS PlainLine,    \* interrupt lines other than the DMA line
          Bank1,        \* the first bank's channels
          Bank2         \* the second's

DmaLine == 3
Line == PlainLine \cup {DmaLine}
Channel == Bank1 \cup Bank2
Irq == Line \cup Channel

ASSUME IntrmanAssumption ==
  /\ PlainLine \subseteq 0..31 \ {DmaLine}
  /\ Bank1 \subseteq 32..38
  /\ Bank2 \subseteq 40..45

VARIABLES stat,    \* I_STAT
          mask,    \* I_MASK
          heldBack,\* dispatch_mask and the clear bits of bank_dispatch_mask
          dicr,    \* DICR and DICR2: enables, flags, master and force
          handled, \* irqs with a handler in the table
          walk     \* the dispatcher: where it is and what it still serves

intrmanVars == <<stat, mask, heldBack, dicr, handled, walk>>

Thread == [at |-> "Thread", line |-> DmaLine, left |-> {}, called |-> FALSE]

(* _module_start: everything closed, the DMA line's handler registered. *)
IntrmanInit ==
  /\ stat = {}
  /\ mask = {}
  /\ heldBack = {}
  /\ dicr = [enable |-> {}, flag |-> {}, master |-> FALSE, force |-> FALSE]
  /\ handled = {DmaLine}
  /\ walk = Thread

-----------------------------------------------------------------------------
(* The controllers (external).  I_STAT's DMA bit is set when the banks'    *)
(* common request rises, and by nothing else.                              *)

Request(d) == d.force \/ (d.master /\ d.enable \cap d.flag # {})

WriteDicr(d) ==
  /\ dicr' = d
  /\ stat' = IF Request(d) /\ ~Request(dicr) THEN stat \cup {DmaLine} ELSE stat

Complete(c) ==
  /\ WriteDicr([dicr EXCEPT !.flag = @ \cup {c}])
  /\ UNCHANGED <<mask, heldBack, handled, walk>>

RaiseLine(l) ==
  /\ stat' = stat \cup {l}
  /\ UNCHANGED <<mask, heldBack, dicr, handled, walk>>

-----------------------------------------------------------------------------
(* The calls of threads and handlers *)

Calling == walk.at \in {"Thread", "Handler"} \/ walk.called

(* Software's own request, DICR's bit 15. *)
ForceRequest ==
  /\ Calling
  /\ WriteDicr([dicr EXCEPT !.force = TRUE])
  /\ UNCHANGED <<mask, heldBack, handled, walk>>

(* Registration is ignored in an interrupt. *)
RegisterIntrHandler(irq) ==
  /\ walk.at = "Thread"
  /\ irq \notin handled
  /\ handled' = handled \cup {irq}
  /\ UNCHANGED <<stat, mask, heldBack, dicr, walk>>

ReleaseIntrHandler(irq) ==
  /\ walk.at = "Thread"
  /\ irq \in handled
  /\ handled' = handled \ {irq}
  /\ UNCHANGED <<stat, mask, heldBack, dicr, walk>>

EnableIntr(irq) ==
  /\ Calling
  /\ IF irq \in Line
     THEN /\ mask' = mask \cup {irq}
          /\ UNCHANGED <<dicr, stat>>
     ELSE /\ WriteDicr([dicr EXCEPT !.enable = @ \cup {irq}, !.master = TRUE])
          /\ mask' = mask \cup {DmaLine}
  /\ UNCHANGED <<heldBack, handled, walk>>

DisableIntr(irq) ==
  /\ Calling
  /\ IF irq \in Line
     THEN /\ mask' = mask \ {irq}
          /\ UNCHANGED <<dicr, stat>>
     ELSE /\ WriteDicr([dicr EXCEPT !.enable = @ \ {irq}])
          /\ UNCHANGED mask
  /\ UNCHANGED <<heldBack, handled, walk>>

DisableDispatchIntr(irq) ==
  /\ Calling
  /\ heldBack' = heldBack \cup {irq}
  /\ UNCHANGED <<stat, mask, dicr, handled, walk>>

EnableDispatchIntr(irq) ==
  /\ Calling
  /\ heldBack' = heldBack \ {irq}
  /\ UNCHANGED <<stat, mask, dicr, handled, walk>>

-----------------------------------------------------------------------------
(* _intrman_dispatch *)

Pending == (stat \cap mask) \ heldBack

TakeInterrupt ==
  LET irq == Min(Pending)
  IN  /\ walk.at = "Thread"
      /\ Pending # {}
      /\ stat' = stat \ {irq}
      /\ mask' = mask \ {irq}
      /\ walk' = [walk EXCEPT !.line = irq,
                              !.at = CASE irq \notin handled -> "Return"
                                       [] irq \in handled \cap {DmaLine} -> "Scan"
                                       [] OTHER -> "Handler"]
      /\ UNCHANGED <<heldBack, dicr, handled>>

(* A plain line's handler answers whether the line opens again. *)
HandlerAnswers(keep) ==
  /\ walk.at = "Handler"
  /\ walk.line # DmaLine
  /\ walk' = IF keep THEN [walk EXCEPT !.at = "Return"] ELSE Thread
  /\ UNCHANGED <<stat, mask, heldBack, dicr, handled>>

ReturnFromInterrupt ==
  /\ walk.at = "Return"
  /\ mask' = mask \cup {walk.line}
  /\ walk' = Thread
  /\ UNCHANGED <<stat, heldBack, dicr, handled>>

-----------------------------------------------------------------------------
(* dmaDispatch *)

BankFlags(bank) == (dicr.flag \cap bank) \ heldBack

(* Variant of DmaScan: nothing found, the line is left without the pulse. *)
DmaScanWithoutPulse ==
  /\ walk.at = "Scan"
  /\ IF BankFlags(Channel) = {} /\ ~dicr.force
     THEN /\ walk' = [walk EXCEPT !.at = "Return"]
          /\ UNCHANGED <<dicr, stat>>
     ELSE /\ WriteDicr([dicr EXCEPT !.force = FALSE])
          /\ walk' = [walk EXCEPT !.at = "Bank1"]
  /\ UNCHANGED <<mask, heldBack, handled>>

(* The force condition is cleared first; its slot is never registered. *)
DmaScan ==
  /\ walk.at = "Scan"
  /\ IF BankFlags(Channel) = {} /\ ~dicr.force
     THEN /\ walk' = [walk EXCEPT !.at = "PulseLow"]
          /\ UNCHANGED <<dicr, stat>>
     ELSE /\ WriteDicr([dicr EXCEPT !.force = FALSE])
          /\ walk' = [walk EXCEPT !.at = "Bank1"]
  /\ UNCHANGED <<mask, heldBack, handled>>

(* serveBank reads the bank's flags once for its walk. *)
ReadBank(bank, at, serving) ==
  /\ walk.at = at
  /\ walk' = [walk EXCEPT !.at = serving, !.left = BankFlags(bank)]
  /\ UNCHANGED <<stat, mask, heldBack, dicr, handled>>

(* The flag is cleared before the handler is called. *)
ServeChannel(serving, next) ==
  /\ walk.at = serving
  /\ IF walk.left = {}
     THEN /\ walk' = [walk EXCEPT !.at = next, !.called = FALSE]
          /\ UNCHANGED <<dicr, stat>>
     ELSE /\ WriteDicr([dicr EXCEPT !.flag = @ \ {Min(walk.left)}])
          /\ walk' = [walk EXCEPT !.left = @ \ {Min(@)},
                                  !.called = Min(walk.left) \in handled]
  /\ UNCHANGED <<mask, heldBack, handled>>

PulseLow ==
  /\ walk.at = "PulseLow"
  /\ WriteDicr([dicr EXCEPT !.master = FALSE])
  /\ walk' = [walk EXCEPT !.at = "PulseHigh"]
  /\ UNCHANGED <<mask, heldBack, handled>>

PulseHigh ==
  /\ walk.at = "PulseHigh"
  /\ WriteDicr([dicr EXCEPT !.master = TRUE])
  /\ walk' = [walk EXCEPT !.at = "Return"]
  /\ UNCHANGED <<mask, heldBack, handled>>

IntrmanNext ==
  \/ \E c \in Channel : Complete(c)
  \/ ForceRequest
  \/ \E l \in PlainLine : RaiseLine(l)
  \/ \E i \in Irq \ {DmaLine} : RegisterIntrHandler(i) \/ ReleaseIntrHandler(i)
  \/ \E i \in Irq : EnableIntr(i) \/ DisableIntr(i)
                    \/ DisableDispatchIntr(i) \/ EnableDispatchIntr(i)
  \/ TakeInterrupt
  \/ \E keep \in BOOLEAN : HandlerAnswers(keep)
  \/ ReturnFromInterrupt
  \/ DmaScan
  \/ ReadBank(Bank1, "Bank1", "Serve1")
  \/ ServeChannel("Serve1", "Bank2")
  \/ ReadBank(Bank2, "Bank2", "Serve2")
  \/ ServeChannel("Serve2", "Scan")
  \/ PulseLow
  \/ PulseHigh

IntrmanSpec == IntrmanInit /\ [][IntrmanNext]_intrmanVars

-----------------------------------------------------------------------------
(* Properties *)

(***************************************************************************)
(* A completed transfer is not stranded: outside the dispatch, a flagged   *)
(* channel that is enabled, whether or not the software gate holds it back *)
(* now, has the DMA line pending, although the line is set by an edge and  *)
(* its flag may have come up while another channel's kept the request high *)
(* (the master pulse, intrman.cpp:441-448).                                *)
(***************************************************************************)
NoTransferStranded ==
  walk.at = "Thread" /\ Request(dicr) => DmaLine \in stat
=============================================================================
