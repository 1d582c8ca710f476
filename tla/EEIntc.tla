------------------------------- MODULE EEIntc -------------------------------
(***************************************************************************)
(* The EE kernel's interrupt handler lists and dispatch                    *)
(* (kernel/interrupt.cpp).  A source is an INTC cause or a DMAC channel;   *)
(* its handlers form a list through a shared pool of records.  An          *)
(* interrupt reads the pending sources of each controller once, and for    *)
(* each acknowledges it and calls the list's handlers, which may add and   *)
(* remove handlers and, with interrupts enabled, be interrupted.           *)
(*                                                                         *)
(* A handler is in the pool as its installation's id.  callHandlers reads  *)
(* a record's link after its handler ran, so a record freed under a walk   *)
(* must not be used again before the walk leaves it: Disciplined states    *)
(* what the handlers have to refrain from.  The thread switch on the way   *)
(* out is in EEThread.                                                     *)
(***************************************************************************)
EXTENDS Integers, Sequences, FiniteSets, FiniteSetsExt

CONSTANTS IntcCause,   \* INTC sources
          DmacChannel, \* DMAC channels, numbered apart from them
          PoolRecord,  \* the records
          MaxId,       \* bound: installations
          MaxNest,     \* bound: interrupts inside one another
          Empty        \* kNone

Source == IntcCause \cup DmacChannel

ASSUME EEIntcAssumption ==
  /\ IntcCause \subseteq Nat /\ DmacChannel \subseteq Nat
  /\ IntcCause \cap DmacChannel = {}
  /\ PoolRecord \subseteq Nat /\ IsFiniteSet(PoolRecord)
  /\ Empty \notin PoolRecord
  /\ MaxId \in Nat /\ MaxNest \in Nat

VARIABLES pool,      \* record -> id (0 when free) and next
          heads,     \* source -> first record
          nextId,
          raised,    \* the controllers' status bits
          levels     \* the interrupts under way, innermost first

eeIntcVars == <<pool, heads, nextId, raised, levels>>

EEIntcInit ==
  /\ pool = [k \in PoolRecord |-> [id |-> 0, next |-> Empty]]
  /\ heads = [s \in Source |-> Empty]
  /\ nextId = 1
  /\ raised = {}
  /\ levels = <<>>

(* The records of a source's list. *)
ListOf(s) ==
  LET from[n \in 0..Cardinality(PoolRecord)] ==
        IF n = 0 THEN heads[s]
        ELSE IF from[n - 1] = Empty THEN Empty ELSE pool[from[n - 1]].next
  IN  {from[n] : n \in 0..Cardinality(PoolRecord)} \ {Empty}

-----------------------------------------------------------------------------
(* The calls, from a thread or from a handler *)

(* No walk stands at a record that its handler, or a handler nested in it, *)
(* has removed.                                                            *)
Disciplined ==
  \A n \in DOMAIN levels : levels[n].at # Empty => pool[levels[n].at].id # 0

(* install: the first free record, at the head of the source's list. *)
AddHandler(s) ==
  LET free == {k \in PoolRecord : pool[k].id = 0}
      k == Min(free)
  IN  /\ Disciplined
      /\ free # {}
      /\ nextId <= MaxId
      /\ pool' = [pool EXCEPT ![k] = [id |-> nextId, next |-> heads[s]]]
      /\ heads' = [heads EXCEPT ![s] = k]
      /\ nextId' = nextId + 1
      /\ UNCHANGED <<raised, levels>>

(* Variant of RemoveHandler: the freed record's link is cleared. *)
RemoveHandlerClearsLink(s, k) ==
  LET before == {x \in ListOf(s) \ {k} : pool[x].next = k}
  IN  /\ Disciplined
      /\ k \in ListOf(s)
      /\ heads' = IF heads[s] = k THEN [heads EXCEPT ![s] = pool[k].next]
                  ELSE heads
      /\ pool' = [x \in PoolRecord |->
                    CASE x = k -> [id |-> 0, next |-> Empty]
                      [] x \in before -> [pool[x] EXCEPT !.next = pool[k].next]
                      [] OTHER -> pool[x]]
      /\ levels' = [n \in DOMAIN levels |->
                      [levels[n] EXCEPT !.owed = @ \ {pool[k].id}]]
      /\ UNCHANGED <<nextId, raised>>

(* remove: the link to the record skips it; its own link is left.  The     *)
(* walks no longer owe it a call.                                          *)
RemoveHandler(s, k) ==
  LET before == {x \in ListOf(s) \ {k} : pool[x].next = k}
  IN  /\ Disciplined
      /\ k \in ListOf(s)
      /\ heads' = IF heads[s] = k THEN [heads EXCEPT ![s] = pool[k].next]
                  ELSE heads
      /\ pool' = [x \in PoolRecord |->
                    CASE x = k -> [pool[k] EXCEPT !.id = 0]
                      [] x \in before -> [pool[x] EXCEPT !.next = pool[k].next]
                      [] OTHER -> pool[x]]
      /\ levels' = [n \in DOMAIN levels |->
                      [levels[n] EXCEPT !.owed = @ \ {pool[k].id}]]
      /\ UNCHANGED <<nextId, raised>>

-----------------------------------------------------------------------------
(* The dispatch *)

Raise(s) ==
  /\ raised' = raised \cup {s}
  /\ UNCHANGED <<pool, heads, nextId, levels>>

InHandler == levels # <<>> /\ levels[1].at # Empty

(* Taken from a thread or from a handler that enabled interrupts. *)
EnterInterrupt ==
  /\ raised # {}
  /\ levels = <<>> \/ InHandler
  /\ Len(levels) < MaxNest
  /\ levels' = <<[left |-> raised \cap IntcCause, intc |-> TRUE,
                  at |-> Empty, owed |-> {}]>> \o levels
  /\ UNCHANGED <<pool, heads, nextId, raised>>

(* The next pending source, lowest first: acknowledged, then its list. *)
TakeSource ==
  LET s == Min(levels[1].left)
      first == heads[s]
      ids == {pool[k].id : k \in ListOf(s)}
  IN  /\ levels # <<>>
      /\ levels[1].at = Empty
      /\ levels[1].left # {}
      /\ raised' = raised \ {s}
      /\ levels' = [levels EXCEPT
           ![1].left = @ \ {s},
           ![1].at = first,
           ![1].owed = IF first = Empty THEN {} ELSE ids \ {pool[first].id}]
      /\ UNCHANGED <<pool, heads, nextId>>

(* callHandlers steps on once the handler has returned. *)
NextHandler ==
  LET after == pool[levels[1].at].next
  IN  /\ InHandler
      /\ levels' = [levels EXCEPT
           ![1].at = after,
           ![1].owed = IF after = Empty THEN @ ELSE @ \ {pool[after].id}]
      /\ UNCHANGED <<pool, heads, nextId, raised>>

TakeDmac ==
  /\ levels # <<>>
  /\ levels[1].at = Empty /\ levels[1].left = {} /\ levels[1].intc
  /\ levels' = [levels EXCEPT ![1].left = raised \cap DmacChannel,
                              ![1].intc = FALSE]
  /\ UNCHANGED <<pool, heads, nextId, raised>>

LeaveInterrupt ==
  /\ levels # <<>>
  /\ levels[1].at = Empty /\ levels[1].left = {} /\ ~levels[1].intc
  /\ levels' = Tail(levels)
  /\ UNCHANGED <<pool, heads, nextId, raised>>

EEIntcNext ==
  \/ \E s \in Source : AddHandler(s)
  \/ \E s \in Source, k \in PoolRecord : RemoveHandler(s, k)
  \/ \E s \in Source : Raise(s)
  \/ EnterInterrupt \/ TakeSource \/ NextHandler \/ TakeDmac \/ LeaveInterrupt

-----------------------------------------------------------------------------
(* Properties *)

(***************************************************************************)
(* Every handler on a source's list when the source was taken, and not     *)
(* removed before its turn, has been called when the walk ends, whatever   *)
(* was added or removed by it, by the others, or by an interrupt inside    *)
(* one of them; and the lists share no record (interrupt.cpp:67-94, 114).  *)
(***************************************************************************)
EveryHandlerCalled ==
  /\ \A n \in DOMAIN levels : levels[n].at = Empty => levels[n].owed = {}
  /\ \A s, t \in Source : s # t => ListOf(s) \cap ListOf(t) = {}
  /\ UNION {ListOf(s) : s \in Source} = {k \in PoolRecord : pool[k].id # 0}
=============================================================================
