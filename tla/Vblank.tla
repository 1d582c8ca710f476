------------------------------- MODULE Vblank -------------------------------
(***************************************************************************)
(* VBLANK (iop/vblank.cpp): a pool of records in three linked lists, one   *)
(* per edge of the vertical blank and the free ones, the walk that calls   *)
(* an edge's handlers, and the event flag two of the module's own handlers *)
(* move.  A handler's call is a step; no thread runs during a walk, and    *)
(* registering or releasing is refused there, so a handler changes the     *)
(* lists by its answer alone.  A handler's argument, and the bit of the    *)
(* system's flag that the first edge raises for nobody, are left out.      *)
(***************************************************************************)
EXTENDS Integers, Sequences, SequencesExt, FiniteSets, FiniteSetsExt

CONSTANTS NumRecords,      \* kHandlers: the pool's records
          Client,          \* the clients' handlers
          ClientPriority,  \* the priorities they register at
          Sleeper,         \* threads that wait for an edge
          NoRecord         \* kNone

Record == 0 .. NumRecords - 1
OwnPriority == 128
Edge == {"start", "end"}
Own == [start |-> "pulseStart", end |-> "pulseEnd"]

ASSUME VblankAssumption ==
  /\ NumRecords \in Nat /\ NumRecords >= 2
  /\ NoRecord \notin Record
  /\ ClientPriority \subseteq Int
  /\ \A e \in Edge : Own[e] \notin Client

VARIABLES links,     \* the records' next and previous, the lists' heads
          record,    \* record -> its handler and priority
          edgeWalk,  \* the walk: its edge and the record it is at
          edgeBits,  \* the event flag
          sleeping,  \* sleeper -> the bit it waits for, or "none"
          expected,  \* history: per edge, the handlers in calling order
          owed       \* history: the handlers this walk has still to call

vblankVars ==
  <<links, record, edgeWalk, edgeBits, sleeping, expected, owed>>

-----------------------------------------------------------------------------
(* The lists *)

Unlink(k, list, r) ==
  LET before == k.previous[r]
      after == k.next[r]
      next == IF before = NoRecord THEN k.next
              ELSE [k.next EXCEPT ![before] = after]
      previous == IF after = NoRecord THEN k.previous
                  ELSE [k.previous EXCEPT ![after] = before]
  IN  [next |-> [next EXCEPT ![r] = NoRecord],
       previous |-> [previous EXCEPT ![r] = NoRecord],
       head |-> IF before = NoRecord THEN [k.head EXCEPT ![list] = after]
                ELSE k.head]

(* The records met from a list's head on, in order. *)
Chain(k, list) ==
  LET from[n \in 0 .. NumRecords] ==
        IF n = 0 THEN k.head[list]
        ELSE IF from[n - 1] = NoRecord THEN NoRecord ELSE k.next[from[n - 1]]
      met == {n \in 1 .. NumRecords : from[n - 1] # NoRecord}
  IN  [n \in 1 .. Cardinality(met) |-> from[n - 1]]

InsertBefore(k, list, r, before) ==
  LET chain == Chain(k, list)
      prior == IF before # NoRecord THEN k.previous[before]
               ELSE IF chain = <<>> THEN NoRecord ELSE Last(chain)
      next == [k.next EXCEPT ![r] = before]
      previous == [k.previous EXCEPT ![r] = prior]
  IN  [next |-> IF prior = NoRecord THEN next
                ELSE [next EXCEPT ![prior] = r],
       previous |-> IF before = NoRecord THEN previous
                    ELSE [previous EXCEPT ![before] = r],
       head |-> IF prior = NoRecord THEN [k.head EXCEPT ![list] = r]
                ELSE k.head]

Freed(k, list, r) ==
  LET out == Unlink(k, list, r)
  IN  InsertBefore(out, "free", r, out.head["free"])

(* Ahead of the first entry of greater priority. *)
Place(k, rec, list, priority) ==
  LET chain == Chain(k, list)
      later == {n \in DOMAIN chain : rec[chain[n]].priority > priority}
  IN  IF later = {} THEN NoRecord ELSE chain[Min(later)]

Installed(k, rec, list, handler, priority) ==
  LET r == k.head["free"]
  IN  InsertBefore(Unlink(k, "free", r), list, r, Place(k, rec, list, priority))

-----------------------------------------------------------------------------

(* The whole pool free, then the module's own handlers through the ordinal. *)
VblankInit ==
  LET pool == [next |-> [r \in Record |-> IF r = NumRecords - 1 THEN NoRecord
                                          ELSE r + 1],
               previous |-> [r \in Record |-> IF r = 0 THEN NoRecord ELSE r - 1],
               head |-> [start |-> NoRecord, end |-> NoRecord, free |-> 0]]
      blank == [r \in Record |-> [handler |-> "none", priority |-> 0]]
      one == Installed(pool, blank, "start", Own.start, OwnPriority)
      two == Installed(one, blank, "end", Own.end, OwnPriority)
      mine(e) == [handler |-> Own[e], priority |-> OwnPriority]
  IN  /\ links = two
      /\ record = [blank EXCEPT ![0] = mine("start"),
                                ![1] = mine("end")]
      /\ edgeWalk = [edge |-> "none", at |-> NoRecord]
      /\ edgeBits = {}
      /\ sleeping = [s \in Sleeper |-> "none"]
      /\ expected = [e \in Edge |-> <<mine(e)>>]
      /\ owed = <<>>

Idle == edgeWalk.edge = "none"

RegisterHandler(e, priority, handler) ==
  LET r == links.head["free"]
      entry == [handler |-> handler, priority |-> priority]
      ahead == {n \in DOMAIN expected[e] : expected[e][n].priority <= priority}
  IN  /\ Idle
      /\ \A x \in ToSet(Chain(links, e)) : record[x].handler # handler
      /\ r # NoRecord
      /\ links' = Installed(links, record, e, handler, priority)
      /\ record' = [record EXCEPT ![r] = entry]
      /\ expected' = [expected EXCEPT ![e] =
           InsertAt(@, Cardinality(ahead) + 1, entry)]
      /\ UNCHANGED <<edgeWalk, edgeBits, sleeping, owed>>

Unexpected(e, handler) ==
  LET n == CHOOSE n \in DOMAIN expected[e] : expected[e][n].handler = handler
  IN  expected' = [expected EXCEPT ![e] = RemoveAt(@, n)]

ReleaseHandler(e, handler) ==
  /\ Idle
  /\ \E r \in ToSet(Chain(links, e)) :
       /\ record[r].handler = handler
       /\ links' = Freed(links, e, r)
  /\ Unexpected(e, handler)
  /\ UNCHANGED <<record, edgeWalk, edgeBits, sleeping, owed>>

WaitVblank(s, bit) ==
  /\ Idle
  /\ sleeping[s] = "none"
  /\ bit \notin edgeBits
  /\ sleeping' = [sleeping EXCEPT ![s] = bit]
  /\ UNCHANGED <<links, record, edgeWalk, edgeBits, expected, owed>>

-----------------------------------------------------------------------------
(* An edge *)

Interrupt(e) ==
  /\ Idle
  /\ edgeWalk' = [edge |-> e, at |-> links.head[e]]
  /\ owed' = expected[e]
  /\ UNCHANGED <<links, record, edgeBits, sleeping, expected>>

(* pulseStart and pulseEnd: set the edge's pulse and level, which releases *)
(* their waiters, then drop the pulse and the other edge's level.          *)
Level == [start |-> "inside", end |-> "outside"]

Pulse(e) ==
  /\ sleeping' = [s \in Sleeper |->
       IF sleeping[s] \in {e, Level[e]} THEN "none" ELSE sleeping[s]]
  /\ edgeBits' = (edgeBits \cup {Level[e]})
                    \ {Level[x] : x \in Edge \ {e}}

(* Variant of CallHandler: the successor is read after the handler ran. *)
CallHandlerFollowsLate(answer) ==
  LET e == edgeWalk.edge
      r == edgeWalk.at
      mine == record[r].handler = Own[e]
  IN  /\ ~Idle
      /\ r # NoRecord
      /\ mine => answer = 1
      /\ links' = IF answer = 0 THEN Freed(links, e, r) ELSE links
      /\ edgeWalk' = [edgeWalk EXCEPT !.at = links'.next[r]]
      /\ owed' = IF owed = <<>> THEN <<>> ELSE Tail(owed)
      /\ IF answer = 0 THEN Unexpected(e, record[r].handler)
                       ELSE UNCHANGED expected
      /\ IF mine THEN Pulse(e) ELSE UNCHANGED <<edgeBits, sleeping>>
      /\ UNCHANGED record

(* runList: the successor is taken before the handler runs, and an answer  *)
(* of 0 gives the record back.                                             *)
CallHandler(answer) ==
  LET e == edgeWalk.edge
      r == edgeWalk.at
      mine == record[r].handler = Own[e]
  IN  /\ ~Idle
      /\ r # NoRecord
      /\ mine => answer = 1
      /\ edgeWalk' = [edgeWalk EXCEPT !.at = links.next[r]]
      /\ owed' = IF owed = <<>> THEN <<>> ELSE Tail(owed)
      /\ links' = IF answer = 0 THEN Freed(links, e, r) ELSE links
      /\ IF answer = 0 THEN Unexpected(e, record[r].handler)
                       ELSE UNCHANGED expected
      /\ IF mine THEN Pulse(e) ELSE UNCHANGED <<edgeBits, sleeping>>
      /\ UNCHANGED record

EdgeDone ==
  /\ ~Idle
  /\ edgeWalk.at = NoRecord
  /\ edgeWalk' = [edge |-> "none", at |-> NoRecord]
  /\ UNCHANGED <<links, record, edgeBits, sleeping, expected, owed>>

VblankNext ==
  \/ \E e \in Edge, p \in ClientPriority, h \in Client : RegisterHandler(e, p, h)
  \/ \E e \in Edge, h \in Client : ReleaseHandler(e, h)
  \/ \E s \in Sleeper, b \in Edge \cup {"inside", "outside"} : WaitVblank(s, b)
  \/ \E e \in Edge : Interrupt(e)
  \/ \E a \in {0, 1} : CallHandler(a)
  \/ EdgeDone

VblankSpec == VblankInit /\ [][VblankNext]_vblankVars

-----------------------------------------------------------------------------
(* Properties *)

(***************************************************************************)
(* An edge reaches everybody, whoever unregisters itself on the way: when  *)
(* its walk ends every handler registered for it and not since withdrawn   *)
(* was called, lower priorities first and ties in order of registration;   *)
(* nobody still waits for that edge or its level; no pulse outlives the    *)
(* interrupt; and the pool's records are each in one list, whose links     *)
(* agree both ways (vblank.cpp:97-134, 197-239).                           *)
(***************************************************************************)
EdgeReachesAll ==
  /\ \A e \in Edge :
       [n \in DOMAIN Chain(links, e) |-> record[Chain(links, e)[n]]]
         = expected[e]
  /\ \A list \in Edge \cup {"free"} :
       LET c == Chain(links, list)
       IN  \A n \in DOMAIN c :
             /\ links.previous[c[n]] = IF n = 1 THEN NoRecord ELSE c[n - 1]
             /\ \A other \in (Edge \cup {"free"}) \ {list} :
                  c[n] \notin ToSet(Chain(links, other))
  /\ Len(Chain(links, "free")) + Len(expected.start) + Len(expected.end)
       = NumRecords
  /\ edgeWalk.edge # "none" /\ edgeWalk.at = NoRecord =>
       /\ owed = <<>>
       /\ \A s \in Sleeper :
            sleeping[s] \notin {edgeWalk.edge, Level[edgeWalk.edge]}
  /\ edgeWalk.at # NoRecord =>
       owed # <<>> /\ record[edgeWalk.at] = Head(owed)
  /\ Idle => edgeBits \in {{}, {"inside"}, {"outside"}}
=============================================================================
