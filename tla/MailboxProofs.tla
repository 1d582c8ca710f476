---------------------------- MODULE MailboxProofs ----------------------------
(***************************************************************************)
(* Theorems about THREADMAN's message boxes.                               *)
(***************************************************************************)
EXTENDS MCMailbox, SchedulerProofs

(* The inductive invariant: the scheduler's, for objects that come and go, *)
(* and no wait while there is a message.                                   *)
BoxInv ==
    /\ Serving
    /\ queued \in [Object -> Nat]
    /\ WaitersOrMessages

LEMMA BoxKept ==
  ASSUME BoxInv, Serving', queued' \in [Object -> Nat], inUse' \subseteq inUse,
         \A t \in Thread : wait'[t] \in Object => wait'[t] = wait[t],
         \A b \in inUse : queued'[b] > 0 => queued[b] > 0 \/ links.head[b] = None
  PROVE  BoxInv'
  <1> SUFFICES ASSUME NEW b \in inUse', queued'[b] > 0, NEW t \in Thread,
                      wait'[t] = b
               PROVE  FALSE
    BY DEF BoxInv, WaitersOrMessages
  <1>1. b \in inUse /\ b \in Object /\ wait[t] = b
    BY KernelTyped, KernelFields DEF BoxInv, Serving, KernelType
  <1>2. ~(queued[b] > 0)  BY <1>1 DEF BoxInv, WaitersOrMessages
  <1>3. links.head[b] = None  BY <1>1, <1>2
  <1> QED BY <1>1, <1>3, WaitersListed DEF BoxInv, Serving

LEMMA CreateMbxKeeps ==
  ASSUME BoxInv, NEW b \in Object, NEW thpri \in BOOLEAN, NEW mspri \in BOOLEAN,
         CreateMbx(b, thpri, mspri)
  PROVE  BoxInv'
  <1>1. Serving' /\ inUse' = inUse \cup {b} /\ wait' = wait
    BY CreatedServes DEF CreateMbx, BoxInv
  <1>2. queued' = [queued EXCEPT ![b] = 0]  BY DEF CreateMbx
  <1> QED BY <1>1, <1>2 DEF BoxInv, WaitersOrMessages

LEMMA SendMbxKeeps ==
  ASSUME BoxInv, NEW b \in Object, NEW m \in Message, SendMbx(b, m)
  PROVE  BoxInv'
  <1>1. CASE links.head[b] # None
    <2>1. links.head[b] \in Thread /\ state[links.head[b]] = "Wait"
      BY <1>1, WaitersListed DEF BoxInv, Serving
    <2>2. /\ InEither /\ mode' = mode /\ queued' = queued
          /\ Becomes(Wake(Kernel, links.head[b], "Ok", InInterrupt))
      BY <1>1 DEF SendMbx
    <2>3. Serving' /\ JoinNone
      BY <2>1, <2>2, StateNames, WakeServes DEF BoxInv
    <2> QED BY <2>2, <2>3, BoxKept DEF BoxInv, JoinNone
  <1>2. CASE links.head[b] = None
    <2>1. /\ mode' = mode /\ Becomes(Kernel)
          /\ queued' = [queued EXCEPT ![b] = queued[b] + 1]
      BY <1>2 DEF SendMbx
    <2>2. Serving' /\ JoinNone  BY <2>1, NothingServes DEF BoxInv
    <2>3. queued' \in [Object -> Nat]  BY <2>1 DEF BoxInv
    <2>4. \A x \in inUse : queued'[x] > 0 => queued[x] > 0 \/ links.head[x] = None
      BY <1>2, <2>1 DEF BoxInv
    <2> QED BY <2>2, <2>3, <2>4, BoxKept DEF JoinNone
  <1> QED BY <1>1, <1>2

(* A message leaves the box.                                               *)
LEMMA DequeueKeeps ==
  ASSUME BoxInv, NEW b \in Object, queued[b] > 0, DequeueMessage(b),
         Becomes(Kernel), mode' = mode
  PROVE  BoxInv'
  <1>1. Serving' /\ JoinNone  BY NothingServes DEF BoxInv
  <1>2. queued' = [queued EXCEPT ![b] = queued[b] - 1]  BY DEF DequeueMessage
  <1>3. queued' \in [Object -> Nat]  BY <1>2 DEF BoxInv
  <1>4. \A x \in Object : queued'[x] > 0 => queued[x] > 0
    BY <1>2 DEF BoxInv
  <1>5. inUse \subseteq Object
    BY KernelTyped, KernelFields DEF BoxInv, Serving, KernelType
  <1> QED BY <1>1, <1>3, <1>4, <1>5, BoxKept DEF JoinNone

LEMMA ReceiveMbxKeeps ==
  ASSUME BoxInv, NEW b \in Object, ReceiveMbx(b)
  PROVE  BoxInv'
  <1>1. InThread /\ b \in inUse /\ mode' = mode  BY DEF ReceiveMbx
  <1>2. CASE queued[b] > 0
    BY <1>1, <1>2, DequeueKeeps DEF ReceiveMbx
  <1>3. CASE ~(queued[b] > 0)
    <2> DEFINE joined == IF b \in byPriority
                         THEN EnqueueByPriority(links, priority, b, current)
                         ELSE Enqueue(links, b, current)
    <2>1. Becomes(BlockCurrent([Kernel EXCEPT !.links = joined,
                                              !.waiters[b] = @ + 1], b))
          /\ queued' = queued
      BY <1>3 DEF ReceiveMbx
    <2>2. joined \in {Enqueue(links, b, current),
                      EnqueueByPriority(links, priority, b, current)}
      OBVIOUS
    <2> HIDE DEF joined
    <2>3. Serving' /\ inUse' = inUse /\ wait' = [wait EXCEPT ![current] = b]
      BY <1>1, <2>1, <2>2, JoinQueueServes DEF BoxInv
    <2>4. wait \in [Thread -> WaitReason]
      BY KernelTyped, KernelFields DEF BoxInv, Serving, KernelType
    <2> QED BY <1>3, <2>1, <2>3, <2>4 DEF BoxInv, WaitersOrMessages
  <1> QED BY <1>2, <1>3

LEMMA BoxInitInv == Init => BoxInv
  <1> SUFFICES ASSUME Init PROVE BoxInv  OBVIOUS
  <1>1. Steady  BY SchedInitSteady DEF Init
  <1>2. closing = {}  BY DEF Init, SchedInit, MakeReady, Readied
  <1>3. queued \in [Object -> Nat] /\ \A b \in Object : queued[b] = 0
    BY DEF Init
  <1>4. inUse \subseteq Object  BY <1>1, KernelTyped, KernelFields DEF KernelType
  <1> QED BY <1>1, <1>2, <1>3, <1>4 DEF BoxInv, Serving, Deleting, WaitersOrMessages

LEMMA BoxNextInv ==
  ASSUME Unsafe = {}, BoxInv, [Next]_vars
  PROVE  BoxInv'
  <1>1. CASE SchedNext /\ UNCHANGED boxVars
    <2>1. Serving' /\ JoinNone  BY <1>1, SchedNextServes DEF BoxInv
    <2> QED BY <1>1, <2>1, BoxKept DEF BoxInv, boxVars, JoinNone
  <1>2. CASE DeleteStep /\ UNCHANGED boxVars
    <2>1. /\ Serving' /\ inUse' \subseteq inUse
          /\ \A t \in Thread : wait'[t] \in Object => wait'[t] = wait[t]
      BY <1>2, DeleteStepServes DEF BoxInv
    <2> QED BY <1>2, <2>1, BoxKept DEF BoxInv, boxVars
  <1>3. CASE \E b \in Object : DeleteMbx(b)
    <2>1. PICK b \in Object : BeginDelete(b) /\ UNCHANGED boxVars
      BY <1>3 DEF DeleteMbx
    <2>2. Serving' /\ inUse' = inUse /\ wait' = wait
      BY <2>1, BeginDeleteServes DEF BoxInv
    <2> QED BY <2>1, <2>2, BoxKept DEF BoxInv, boxVars
  <1>4. CASE \E b \in Object, m \in Message : SendMbx(b, m)
    BY <1>4, SendMbxKeeps
  <1>5. CASE \E b \in Object : ReceiveMbx(b)
    BY <1>5, ReceiveMbxKeeps
  <1>6. CASE \E b \in Object : PollMbx(b)
    BY <1>6, DequeueKeeps DEF PollMbx
  <1>7. CASE \E b \in Object, thpri, mspri \in BOOLEAN : CreateMbx(b, thpri, mspri)
    BY <1>7, CreateMbxKeeps
  <1>8. CASE UNCHANGED vars
    <2>1. Becomes(Kernel) /\ mode' = mode /\ queued' = queued
      BY <1>8 DEF vars, schedVars, boxVars, Becomes, Kernel
    <2>2. Serving' /\ wait' = wait /\ inUse' = inUse
      BY <2>1, NothingServes DEF BoxInv
    <2> QED BY <2>1, <2>2, BoxKept DEF BoxInv
  <1> QED BY <1>1, <1>2, <1>3, <1>4, <1>5, <1>6, <1>7, <1>8 DEF Next

(* A box has waiting threads or queued messages, never both, for any       *)
(* number of threads, boxes and messages and any order of calls, deletes   *)
(* and interrupts: sendMbx gives to a waiter before the box takes the      *)
(* message, and receiveMbx waits only on an empty box.                     *)
THEOREM MbxWaitersOrMessages ==
  ASSUME Unsafe = {}
  PROVE  Spec => []WaitersOrMessages
  <1>1. Init => BoxInv  BY BoxInitInv
  <1>2. BoxInv /\ [Next]_vars => BoxInv'  BY BoxNextInv
  <1>3. BoxInv => WaitersOrMessages  BY DEF BoxInv
  <1> QED BY <1>1, <1>2, <1>3, PTL DEF Spec

-----------------------------------------------------------------------------
(* The circle of box b, listed from its first message to its last by f.    *)
Ring(f, b) ==
    /\ f \in [1 .. queued[b] -> Message]
    /\ \A i, j \in 1 .. queued[b] : f[i] = f[j] => i = j
    /\ \A i \in 1 .. queued[b] : i < queued[b] => after[f[i]] = f[i + 1]
    /\ queued[b] = 0 => last[b] = None
    /\ queued[b] > 0 => last[b] = f[queued[b]] /\ after[last[b]] = f[1]

(* Every box in use has a circle, and no message is in two of them.        *)
Rings(F) ==
    /\ \A b \in inUse : Ring(F[b], b)
    /\ \A b, c \in inUse : b # c =>
         \A i \in 1 .. queued[b], j \in 1 .. queued[c] : F[b][i] # F[c][j]

RingInv ==
    /\ BoxInv
    /\ after \in [Message -> Message]
    /\ last \in [Object -> Message \cup {None}]
    /\ \E F : Rings(F)

(* Hop follows the circle.  What its recursion gives is shown by taking    *)
(* the least number of hops for which it fails.                            *)
LEMMA RingHops ==
  ASSUME NEW b, queued[b] \in Nat, NEW f, Ring(f, b), NEW n \in 0 .. queued[b]
  PROVE  Hop(b, n) = IF n = 0 THEN last[b] ELSE f[n]
  <1> DEFINE q == queued[b]
             Goes(g) == g = [h \in 0 .. n |-> IF h = 0 THEN last[b]
                                              ELSE after[g[h - 1]]]
             G == [h \in 0 .. n |-> IF h = 0 THEN last[b] ELSE f[h]]
             At == CHOOSE g : Goes(g)
  <1>1. Hop(b, n) = At[n]  BY DEF Hop
  <1>2. Goes(G)
    <2>1. ASSUME NEW h \in 0 .. n, h # 0
          PROVE  f[h] = after[G[h - 1]]
      <3>1. CASE h = 1
        <4>1. G[h - 1] = last[b]  BY <3>1
        <4> QED BY <2>1, <3>1, <4>1 DEF Ring
      <3>2. CASE h # 1
        <4>1. G[h - 1] = f[h - 1]  BY <2>1, <3>2
        <4>2. h - 1 \in 1 .. q /\ h - 1 < q /\ (h - 1) + 1 = h
          BY <2>1, <3>2
        <4> QED BY <4>1, <4>2 DEF Ring
      <3> QED BY <3>1, <3>2
    <2> QED BY <2>1
  <1>3. Goes(At)  BY <1>2
  <1> HIDE DEF At, G
  <1>4. \A h \in 0 .. n : At[h] = IF h = 0 THEN last[b] ELSE after[At[h - 1]]
    BY <1>3
  <1>5. \A h \in 0 .. n : G[h] = IF h = 0 THEN last[b] ELSE after[G[h - 1]]
    BY <1>2
  <1>6. \A h \in 0 .. n : At[h] = G[h]
    <2> DEFINE Bad == {h \in 0 .. n : At[h] # G[h]}
    <2> SUFFICES ASSUME Bad # {} PROVE FALSE  OBVIOUS
    <2>1. PICK h \in Bad : \A x \in Bad : h <= x
      <3>1. Bad \in SUBSET Nat  OBVIOUS
      <3> QED BY <3>1, LeastOf
    <2>2. h \in 0 .. n /\ h # 0 /\ h - 1 \in 0 .. n  BY <1>4, <1>5, <2>1
    <2>3. At[h - 1] = G[h - 1]  BY <2>1, <2>2
    <2> QED BY <1>4, <1>5, <2>1, <2>2, <2>3
  <1> QED BY <1>1, <1>6 DEF G

(* The circles give the property.                                          *)
LEMMA RingsClose == RingInv => CircleCloses
  <1> SUFFICES ASSUME RingInv, NEW b \in inUse
               PROVE  /\ (last[b] = None) <=> (queued[b] = 0)
                      /\ queued[b] > 0 => Hop(b, queued[b]) = last[b]
                      /\ \A m, n \in DOMAIN Messages(b) :
                           Messages(b)[m] = Messages(b)[n] => m = n
    BY DEF CircleCloses
  <1>1. PICK F : Rings(F)  BY DEF RingInv
  <1> DEFINE f == F[b]
  <1>2. Ring(f, b)  BY <1>1 DEF Rings
  <1> HIDE DEF f
  <1>3. queued[b] \in Nat
    BY KernelTyped, KernelFields DEF RingInv, BoxInv, Serving, KernelType
  <1>4. \A n \in 0 .. queued[b] : Hop(b, n) = IF n = 0 THEN last[b] ELSE f[n]
    BY <1>2, <1>3, RingHops
  <1>5. (last[b] = None) <=> (queued[b] = 0)
    BY <1>2, <1>3, MailboxAssumption DEF Ring
  <1>6. \A n \in 1 .. queued[b] : Messages(b)[n] = f[n]
    BY <1>3, <1>4 DEF Messages
  <1>7. DOMAIN Messages(b) = 1 .. queued[b]  BY DEF Messages
  <1> QED BY <1>2, <1>3, <1>4, <1>5, <1>6, <1>7 DEF Ring

(* A step that leaves the messages and the boxes alone, or frees a box.    *)
LEMMA RingsKept ==
  ASSUME RingInv, BoxInv', UNCHANGED <<after, last, queued>>, inUse' \subseteq inUse
  PROVE  RingInv'
  <1>1. PICK F : Rings(F)  BY DEF RingInv
  <1>2. Rings(F)'  BY <1>1 DEF Rings, Ring
  <1> QED BY <1>2 DEF RingInv

(* The boxes other than b keep their circles.                              *)
Apart(F, b, S) ==
    \A c \in inUse \ {b} : \A i \in 1 .. queued[c] : F[c][i] \notin S

(* A box none of whose messages is in S keeps its circle.                  *)
LEMMA RingApart ==
  ASSUME NEW c, queued[c] \in Nat, NEW f, Ring(f, c), NEW S,
         \A i \in 1 .. queued[c] : f[i] \notin S,
         \A x \in Message \ S : after'[x] = after[x],
         queued'[c] = queued[c], last'[c] = last[c]
  PROVE  Ring(f, c)'
  <1>1. f \in [1 .. queued[c] -> Message]  BY DEF Ring
  <1>2. \A i \in 1 .. queued[c] : after'[f[i]] = after[f[i]]  BY <1>1
  <1>3. queued[c] > 0 => queued[c] \in 1 .. queued[c]  OBVIOUS
  <1> QED BY <1>2, <1>3 DEF Ring

LEMMA RingMoves ==
  ASSUME RingInv, BoxInv', inUse' = inUse, NEW F, Rings(F), NEW b \in inUse,
         NEW S, Apart(F, b, S), NEW g, Ring(g, b)',
         \A m \in Message \ S : after'[m] = after[m],
         after' \in [Message -> Message],
         last' \in [Object -> Message \cup {None}],
         \A c \in inUse \ {b} : queued'[c] = queued[c] /\ last'[c] = last[c],
         \A i \in 1 .. queued'[b] :
            g[i] \in S \/ \E j \in 1 .. queued[b] : g[i] = F[b][j]
  PROVE  RingInv'
  <1> DEFINE H == [c \in Object |-> IF c = b THEN g ELSE F[c]]
  <1>1. \A c \in inUse : c \in Object /\ queued[c] \in Nat
    BY KernelTyped, KernelFields DEF RingInv, BoxInv, Serving, KernelType
  <1>2. ASSUME NEW c \in inUse \ {b}
        PROVE  Ring(F[c], c)'
    <2>1. Ring(F[c], c)  BY DEF Rings
    <2> DEFINE f == F[c]
    <2>2. f \in [1 .. queued[c] -> Message] /\ \A i \in 1 .. queued[c] : f[i] \notin S
      BY <2>1 DEF Ring, Apart
    <2>3. queued'[c] = queued[c] /\ last'[c] = last[c] /\ queued[c] \in Nat
      BY <1>1
    <2>4. PICK e : e = f  OBVIOUS
    <2>5. Ring(e, c) /\ \A i \in 1 .. queued[c] : e[i] \notin S
      BY <2>1, <2>2, <2>4
    <2>6. \A m \in Message \ S : after'[m] = after[m]  OBVIOUS
    <2> HIDE DEF f
    <2>7. Ring(e, c)'  BY ONLY <2>3, <2>5, <2>6, RingApart
    <2> QED BY <2>4, <2>7 DEF f
  <1>3. \A c \in inUse : Ring(H[c], c)'
    BY <1>1, <1>2
  <1>4. ASSUME NEW c \in inUse \ {b}, NEW i \in 1 .. queued'[b],
               NEW j \in 1 .. queued'[c]
        PROVE  g[i] # F[c][j]
    <2>1. j \in 1 .. queued[c]  BY <1>4
    <2>2. F[c][j] \notin S  BY <2>1 DEF Apart
    <2>3. \A x \in 1 .. queued[b] : F[b][x] # F[c][j]
      BY <2>1 DEF Rings
    <2> QED BY <2>2, <2>3
  <1>5. ASSUME NEW c \in inUse, NEW d \in inUse, c # d,
               NEW i \in 1 .. queued'[c], NEW j \in 1 .. queued'[d]
        PROVE  H[c][i] # H[d][j]
    <2>1. CASE c = b  BY <1>1, <1>4, <1>5, <2>1
    <2>2. CASE d = b  BY <1>1, <1>4, <1>5, <2>2
    <2>3. CASE c # b /\ d # b
      BY <1>1, <1>5, <2>3 DEF Rings
    <2> QED BY <2>1, <2>2, <2>3
  <1> HIDE DEF H
  <1>6. Rings(H)'  BY <1>3, <1>5 DEF Rings
  <1> QED BY <1>6 DEF RingInv

LEMMA UrgencyIs == \A x \in Message : Urgency[x] \in Int
  BY MailboxAssumption

(* queueMessage puts message m into the circle at some place.              *)
Members(f, b) == {f[i] : i \in 1 .. queued[b]}

(* Behind all, or behind those that are as urgent and ahead of one that is *)
(* less so.                                                                *)
Spot(b, m, f, n) ==
    /\ n \in 0 .. queued[b]
    /\ b \notin byUrgency => n = queued[b]
    /\ b \in byUrgency =>
        /\ \A k \in 1 .. queued[b] : k <= n => Urgency[f[k]] <= Urgency[m]
        /\ n < queued[b] => Urgency[f[n + 1]] > Urgency[m]

(* g lists what f did with m after the first n.                            *)
Inserted(f, b, m, n, g) ==
    \A i \in 1 .. queued[b] + 1 :
        g[i] = IF i <= n THEN f[i] ELSE IF i = n + 1 THEN m ELSE f[i - 1]

LEMMA QueueRing ==
  ASSUME NEW b \in Object, queued \in [Object -> Nat], NEW f, Ring(f, b),
         NEW m \in Message, m \notin Members(f, b),
         after \in [Message -> Message], last \in [Object -> Message \cup {None}],
         QueueMessage(b, m), queued' = [queued EXCEPT ![b] = @ + 1]
  PROVE  /\ \E g : /\ Ring(g, b)'
                   /\ \A i \in 1 .. queued'[b] : g[i] \in {m} \cup Members(f, b)
                   /\ \E n \in 0 .. queued[b] :
                        Spot(b, m, f, n) /\ Inserted(f, b, m, n, g)
         /\ \A x \in Message \ ({m} \cup Members(f, b)) : after'[x] = after[x]
         /\ after' \in [Message -> Message]
         /\ last' \in [Object -> Message \cup {None}]
         /\ \A c \in Object \ {b} : last'[c] = last[c]
  <1> DEFINE q == queued[b]
             S == {m} \cup Members(f, b)
             N == {n \in 0 .. queued[b] :
                     n = queued[b] \/ Urgency[Hop(b, n + 1)] > Urgency[m]}
             pos == IF b \notin byUrgency THEN queued[b] ELSE Min(N)
             prev == Hop(b, pos)
  <1>1. q \in Nat /\ None \notin Message  BY MailboxAssumption
  <1>2. pos \in 0 .. q /\ Spot(b, m, f, pos)
    <2>1. q \in N /\ N \in SUBSET Nat  BY <1>1
    <2>2. \E x \in N : \A y \in N : x <= y  BY <2>1, LeastOf
    <2>3. Min(N) \in N /\ \A y \in N : Min(N) <= y  BY <2>2 DEF Min
    <2>4. \A k \in 1 .. q : Hop(b, k) = f[k]
      <3> TAKE k \in 1 .. q
      <3>1. k \in 0 .. q /\ k # 0  BY <1>1
      <3> QED BY <1>1, <3>1, RingHops
    <2>5. \A k \in 1 .. q : Urgency[f[k]] \in Int /\ Urgency[m] \in Int
      <3>1. \A x \in Message : Urgency[x] \in Int  BY UrgencyIs
      <3>2. \A k \in 1 .. q : f[k] \in Message  BY DEF Ring
      <3> QED BY <3>1, <3>2
    <2>6. ASSUME NEW k \in 1 .. q, k <= Min(N)
          PROVE  Urgency[f[k]] <= Urgency[m]
      <3> DEFINE y == k - 1
      <3>1. y \in 0 .. q /\ y # q /\ ~(Min(N) <= y) /\ y + 1 = k
        BY <1>1, <2>1, <2>3, <2>6
      <3>2. y \notin N  BY <2>3, <3>1
      <3>3. ~(Urgency[Hop(b, k)] > Urgency[m])  BY <3>1, <3>2
      <3> QED BY <2>4, <2>5, <3>3
    <2>7. ASSUME Min(N) < q
          PROVE  Urgency[f[Min(N) + 1]] > Urgency[m]
      <3>1. Min(N) + 1 \in 1 .. q /\ Min(N) # q  BY <1>1, <2>3, <2>7
      <3>2. Urgency[Hop(b, Min(N) + 1)] > Urgency[m]  BY <2>3, <3>1
      <3> QED BY <2>4, <3>1, <3>2
    <2>8. pos \in 0 .. q  BY <1>1, <2>3
    <2> QED BY <1>1, <2>6, <2>7, <2>8 DEF Spot
  <1>3. prev = IF pos = 0 THEN last[b] ELSE f[pos]
    BY <1>1, <1>2, RingHops
  <1>4. CASE q = 0
    <2> DEFINE g == [i \in 1 .. 1 |-> m]
    <2>1. last[b] = None  BY <1>4 DEF Ring
    <2>2. after' = [after EXCEPT ![m] = m] /\ last' = [last EXCEPT ![b] = m]
      BY <2>1 DEF QueueMessage
    <2>3. queued'[b] = 1  BY <1>1, <1>4
    <2>4. Ring(g, b)'
      BY <2>2, <2>3 DEF Ring
    <2>5. \A i \in 1 .. queued'[b] : g[i] \in S  BY <2>3
    <2>6. Inserted(f, b, m, pos, g)  BY <1>2, <1>4 DEF Inserted
    <2> HIDE DEF g, pos
    <2> QED BY <1>2, <2>2, <2>4, <2>5, <2>6
  <1>5. CASE q # 0
    <2> DEFINE g == [i \in 1 .. q + 1 |-> IF i <= pos THEN f[i]
                                          ELSE IF i = pos + 1 THEN m ELSE f[i - 1]]
    <2>1. /\ last[b] = f[q] /\ last[b] \in Message /\ after[f[q]] = f[1]
          /\ q \in 1 .. q /\ 1 \in 1 .. q
      BY <1>1, <1>5 DEF Ring
    <2>2. /\ after' = [after EXCEPT ![m] = after[prev], ![prev] = m]
          /\ last' = IF pos = q THEN [last EXCEPT ![b] = m] ELSE last
      BY <1>1, <2>1, Zenon DEF QueueMessage
    <2>3. /\ \A i \in 1 .. q : f[i] \in Message /\ f[i] # m /\ f[i] \in S
          /\ \A i, j \in 1 .. q : f[i] = f[j] => i = j
          /\ \A i \in 1 .. q : i < q => after[f[i]] = f[i + 1]
      BY DEF Ring, Members
    <2> DEFINE z == IF pos = 0 THEN q ELSE pos
    <2>4. z \in 1 .. q /\ prev = f[z]  BY <1>1, <1>2, <1>3, <1>5, <2>1
    <2> HIDE DEF pos, prev
    <2>5. /\ after'[m] = after[f[z]]
          /\ after'[f[z]] = m
          /\ \A x \in Message : x # m /\ x # f[z] => after'[x] = after[x]
      BY <2>2, <2>3, <2>4
    <2>6. after[f[z]] = f[IF pos = q \/ pos = 0 THEN 1 ELSE pos + 1]
      BY <1>1, <1>2, <1>5, <2>1, <2>3
    <2>7. queued'[b] = q + 1  BY <1>1
    <2>8. ASSUME NEW i \in 1 .. q + 1
          PROVE  g[i] \in S /\ g[i] \in Message
      <3>1. CASE i <= pos  BY <1>1, <1>2, <2>3, <3>1
      <3>2. CASE i = pos + 1  BY <1>1, <1>2, <3>2
      <3>3. CASE i > pos + 1
        <4>1. i - 1 \in 1 .. q /\ g[i] = f[i - 1]  BY <1>1, <1>2, <3>3
        <4> QED BY <2>3, <4>1
      <3> QED BY <1>1, <1>2, <3>1, <3>2, <3>3
    <2>9. ASSUME NEW i \in 1 .. q + 1, NEW j \in 1 .. q + 1, i < j
          PROVE  g[i] # g[j]
      <3> DEFINE At(n) == IF n <= pos THEN n ELSE n - 1
      <3>1. \A n \in 1 .. q + 1 : n # pos + 1 => At(n) \in 1 .. q /\ g[n] = f[At(n)]
        BY <1>1, <1>2
      <3>2. g[pos + 1] = m  BY <1>1, <1>2
      <3>3. CASE i = pos + 1 \/ j = pos + 1
        BY <1>1, <1>2, <2>3, <2>9, <3>1, <3>2, <3>3
      <3>4. CASE i # pos + 1 /\ j # pos + 1
        <4>1. At(i) # At(j)  BY <1>1, <1>2, <2>9, <3>4
        <4> HIDE DEF At, g
        <4> QED BY <2>3, <3>1, <3>4, <4>1
      <3> QED BY <3>3, <3>4
    <2>10. ASSUME NEW i \in 1 .. q + 1, i < q + 1
           PROVE  after'[g[i]] = g[i + 1]
      <3>1. CASE i < pos
        <4>1. g[i] = f[i] /\ g[i + 1] = f[i + 1] /\ i \in 1 .. q /\ i < q /\ i # z
          BY <1>1, <1>2, <2>10, <3>1
        <4> HIDE DEF z, g
        <4> QED BY <2>3, <2>4, <2>5, <4>1
      <3>2. CASE i = pos
        <4>1. g[i] = f[z] /\ g[i + 1] = m  BY <1>1, <1>2, <2>10, <3>2
        <4> HIDE DEF z, g
        <4> QED BY <2>5, <4>1
      <3>3. CASE i = pos + 1
        <4>1. g[i] = m /\ g[i + 1] = f[pos + 1] /\ pos # q
          BY <1>1, <1>2, <2>10, <3>3
        <4> HIDE DEF g
        <4> QED BY <2>5, <2>6, <4>1
      <3>4. CASE i > pos + 1
        <4>1. /\ g[i] = f[i - 1] /\ g[i + 1] = f[i] /\ i - 1 \in 1 .. q
              /\ i - 1 < q /\ i - 1 # z
          BY <1>1, <1>2, <2>10, <3>4
        <4>2. after[f[i - 1]] = f[(i - 1) + 1] /\ (i - 1) + 1 = i
          BY <2>3, <4>1
        <4> DEFINE y == i - 1
        <4> HIDE DEF z, g, y
        <4>3. y \in 1 .. q /\ y # z  BY <4>1 DEF y
        <4>4. after'[f[y]] = after[f[y]]  BY <2>3, <2>4, <2>5, <4>3
        <4> QED BY <4>1, <4>2, <4>4 DEF y
      <3> QED BY <1>1, <1>2, <3>1, <3>2, <3>3, <3>4
    <2>11. last'[b] = g[q + 1] /\ after'[last'[b]] = g[1]
      <3>1. CASE pos = q
        <4>1. last'[b] = m /\ g[q + 1] = m /\ g[1] = f[1]
          BY <1>1, <1>5, <2>2, <3>1
        <4> HIDE DEF g
        <4> QED BY <2>5, <2>6, <3>1, <4>1
      <3>2. CASE pos = 0
        <4>1. last'[b] = f[q] /\ g[q + 1] = f[q] /\ g[1] = m /\ z = q
          BY <1>1, <1>5, <2>1, <2>2, <3>2
        <4> HIDE DEF g
        <4> QED BY <2>5, <4>1
      <3>3. CASE pos # q /\ pos # 0
        <4>1. last'[b] = f[q] /\ g[q + 1] = f[q] /\ g[1] = f[1] /\ z # q
          BY <1>1, <1>2, <1>5, <2>1, <2>2, <3>3
        <4> HIDE DEF g, z
        <4>2. f[q] # f[z] /\ f[q] # m /\ f[q] \in Message
          BY <2>1, <2>3, <2>4, <4>1
        <4> QED BY <2>1, <2>5, <4>1, <4>2
      <3> QED BY <3>1, <3>2, <3>3
    <2>12. DOMAIN g = 1 .. q + 1 /\ g \in [1 .. q + 1 -> Message]
      BY <2>8
    <2>13. \A i, j \in 1 .. q + 1 : g[i] = g[j] => i = j
      <3> TAKE i, j \in 1 .. q + 1
      <3> HIDE DEF g
      <3>1. i < j \/ j < i \/ i = j  BY <1>1
      <3> QED BY <2>9, <3>1
    <2> HIDE DEF g
    <2>14. PICK G : G = g  OBVIOUS
    <2>18. Ring(G, b)'
      BY <1>1, <2>7, <2>10, <2>11, <2>12, <2>13, <2>14 DEF Ring
    <2>15. \A x \in Message \ S : after'[x] = after[x]
      BY <2>3, <2>4, <2>5
    <2>16. after' \in [Message -> Message]
      <3>1. prev \in Message /\ after[prev] \in Message  BY <2>3, <2>4
      <3> QED BY <2>2, <3>1
    <2>17. last' \in [Object -> Message \cup {None}]
           /\ \A c \in Object \ {b} : last'[c] = last[c]
      BY <2>2
    <2>19. \A i \in 1 .. queued'[b] : G[i] \in S
      BY <2>7, <2>8, <2>14
    <2>20. Inserted(f, b, m, pos, G)
      BY <2>14 DEF Inserted, g
    <2> QED BY <1>2, <2>15, <2>16, <2>17, <2>18, <2>19, <2>20
  <1> QED BY <1>4, <1>5

(* dequeueMessage takes the first message out of the circle.               *)
LEMMA DequeueRing ==
  ASSUME NEW b \in Object, queued \in [Object -> Nat], queued[b] > 0,
         NEW f, Ring(f, b),
         after \in [Message -> Message], last \in [Object -> Message \cup {None}],
         DequeueMessage(b)
  PROVE  /\ \E g : /\ Ring(g, b)'
                   /\ \A i \in 1 .. queued'[b] : /\ g[i] \in Members(f, b)
                                                 /\ g[i] = f[i + 1]
         /\ \A x \in Message \ Members(f, b) : after'[x] = after[x]
         /\ after' \in [Message -> Message]
         /\ last' \in [Object -> Message \cup {None}]
         /\ \A c \in Object \ {b} : last'[c] = last[c]
  <1> DEFINE q == queued[b]
             h == q - 1
             g == [i \in 1 .. h |-> f[i + 1]]
  <1>1. /\ q \in Nat /\ q > 0 /\ 1 \in 1 .. q /\ q \in 1 .. q
        /\ h \in Nat /\ h = q - 1
    OBVIOUS
  <1>2. /\ \A i \in 1 .. q : f[i] \in Message /\ f[i] \in Members(f, b)
        /\ \A i, j \in 1 .. q : f[i] = f[j] => i = j
        /\ \A i \in 1 .. q : i < q => after[f[i]] = f[i + 1]
        /\ last[b] = f[q] /\ after[last[b]] = f[1]
    BY <1>1 DEF Ring, Members
  <1>3. queued' = [queued EXCEPT ![b] = queued[b] - 1]
    BY DEF DequeueMessage
  <1>4. queued'[b] = h  BY <1>3
  <1>5. \A i \in 1 .. h : /\ g[i] = f[i + 1] /\ i + 1 \in 1 .. q
                          /\ g[i] \in Message /\ g[i] \in Members(f, b)
    BY <1>1, <1>2
  <1>6. g \in [1 .. h -> Message] /\ \A i, j \in 1 .. h : g[i] = g[j] => i = j
    <2>1. g \in [1 .. h -> Message]  BY <1>5
    <2>2. ASSUME NEW i \in 1 .. h, NEW j \in 1 .. h, g[i] = g[j]
          PROVE  i = j
      <3> DEFINE x == i + 1
                 y == j + 1
      <3>1. x \in 1 .. q /\ y \in 1 .. q /\ g[i] = f[x] /\ g[j] = f[y]
        BY <1>5
      <3> HIDE DEF x, y, g
      <3>2. f[x] = f[y]  BY <2>2, <3>1
      <3>3. \A a, c \in 1 .. q : f[a] = f[c] => a = c  BY <1>2
      <3> HIDE DEF q
      <3>4. x = y  BY <3>1, <3>2, <3>3
      <3> QED BY <1>1, <3>4 DEF x, y
    <2> QED BY <2>1, <2>2
  <1>7. CASE q = 1
    <2>1. last' = [last EXCEPT ![b] = None] /\ after' = after
      BY <1>2, <1>7 DEF DequeueMessage
    <2>2. h = 0  BY <1>1, <1>7
    <2>3. /\ g \in [1 .. 0 -> Message] /\ queued'[b] = 0 /\ last'[b] = None
          /\ 1 .. 0 = {}
      BY <1>4, <1>6, <2>1, <2>2
    <2> HIDE DEF g, h
    <2>4. PICK G : G = g  OBVIOUS
    <2>5. Ring(G, b)'
      BY <2>3, <2>4 DEF Ring
    <2> QED BY <1>4, <1>5, <2>1, <2>4, <2>5
  <1>8. CASE q # 1
    <2>1. f[1] # f[q]  BY <1>1, <1>2, <1>8
    <2>2. after[f[1]] = f[2]  BY <1>1, <1>2, <1>8
    <2>3. last' = last /\ after' = [after EXCEPT ![f[q]] = f[2]]
      BY <1>2, <2>1, <2>2 DEF DequeueMessage
    <2>4. h \in 1 .. h /\ 1 \in 1 .. h /\ g[h] = f[q] /\ g[1] = f[2]
      BY <1>1, <1>8
    <2>5. after'[f[q]] = f[2]  BY <1>1, <1>2, <2>3
    <2>6. ASSUME NEW i \in 1 .. h, i < h
          PROVE  after'[g[i]] = g[i + 1]
      <3>1. /\ g[i] = f[i + 1] /\ g[i + 1] = f[(i + 1) + 1]
            /\ i + 1 \in 1 .. q /\ i + 1 < q
        BY <1>1, <2>6
      <3> DEFINE y == i + 1
      <3> HIDE DEF y, g, h
      <3>2. y \in 1 .. q /\ y < q /\ g[i] = f[y] /\ g[i + 1] = f[y + 1]
        BY <3>1 DEF y
      <3>3. f[y] # f[q]  BY <1>1, <1>2, <3>2
      <3>4. after'[f[y]] = after[f[y]]  BY <1>2, <2>3, <3>2, <3>3
      <3> QED BY <1>2, <3>2, <3>4
    <2> HIDE DEF g, h
    <2>7. PICK G : G = g  OBVIOUS
    <2>8. Ring(G, b)'
      BY <1>1, <1>2, <1>4, <1>6, <2>3, <2>4, <2>5, <2>6, <2>7 DEF Ring
    <2>9. after' \in [Message -> Message]  BY <1>1, <1>2, <1>8, <2>2, <2>3
    <2>10. \A x \in Message \ Members(f, b) : after'[x] = after[x]
      BY <1>1, <1>2, <2>3
    <2> QED BY <1>4, <1>5, <2>3, <2>7, <2>8, <2>9, <2>10
  <1> QED BY <1>7, <1>8

LEMMA DequeueKeepsRings ==
  ASSUME RingInv, NEW b \in inUse, queued[b] > 0, DequeueMessage(b),
         Becomes(Kernel), mode' = mode
  PROVE  RingInv'
  <1>1. PICK F : Rings(F)  BY DEF RingInv
  <1> DEFINE f == F[b]
  <1>2. Ring(f, b)  BY <1>1 DEF Rings
  <1>3. /\ b \in Object /\ queued \in [Object -> Nat] /\ inUse \subseteq Object
        /\ after \in [Message -> Message] /\ last \in [Object -> Message \cup {None}]
    BY KernelTyped, KernelFields DEF RingInv, BoxInv, Serving, KernelType
  <1>4. BoxInv' /\ inUse' = inUse
    BY <1>3, DequeueKeeps, NothingServes DEF RingInv, BoxInv
  <1>5. Apart(F, b, Members(f, b))  BY <1>1 DEF Apart, Members, Rings
  <1>6. queued' = [queued EXCEPT ![b] = queued[b] - 1]
    BY DEF DequeueMessage
  <1> HIDE DEF f
  <1>7. PICK g : Ring(g, b)' /\ \A i \in 1 .. queued'[b] : g[i] \in Members(f, b)
    BY <1>2, <1>3, DequeueRing
  <1>8. /\ \A x \in Message \ Members(f, b) : after'[x] = after[x]
        /\ after' \in [Message -> Message]
        /\ last' \in [Object -> Message \cup {None}]
        /\ \A c \in Object \ {b} : last'[c] = last[c]
    BY <1>2, <1>3, DequeueRing
  <1>9. \A c \in inUse \ {b} : queued'[c] = queued[c] /\ last'[c] = last[c]
    BY <1>3, <1>6, <1>8
  <1> DEFINE S == Members(f, b)
  <1> HIDE DEF S
  <1>10. /\ Apart(F, b, S) /\ \A i \in 1 .. queued'[b] : g[i] \in S
         /\ \A x \in Message \ S : after'[x] = after[x]
    BY <1>5, <1>7, <1>8 DEF S, f
  <1>11. PICK T : T = S  OBVIOUS
  <1>12. /\ Apart(F, b, T) /\ \A i \in 1 .. queued'[b] : g[i] \in T
         /\ \A x \in Message \ T : after'[x] = after[x]
    BY <1>10, <1>11
  <1>13. Ring(g, b)'  BY <1>7
  <1> QED BY <1>1, <1>4, <1>8, <1>9, <1>12, <1>13, RingMoves

LEMMA SendKeepsRings ==
  ASSUME RingInv, NEW b \in Object, NEW m \in Message, SendMbx(b, m)
  PROVE  RingInv'
  <1>1. /\ b \in inUse /\ queued \in [Object -> Nat] /\ inUse \subseteq Object
        /\ after \in [Message -> Message] /\ last \in [Object -> Message \cup {None}]
    BY KernelTyped, KernelFields DEF RingInv, BoxInv, Serving, KernelType, SendMbx
  <1>2. BoxInv'  BY SendMbxKeeps DEF RingInv
  <1>3. CASE links.head[b] # None
    <2>1. links.head[b] \in Thread /\ state[links.head[b]] = "Wait"
      BY <1>3, WaitersListed DEF RingInv, BoxInv, Serving
    <2>2. /\ InEither /\ mode' = mode
          /\ Becomes(Wake(Kernel, links.head[b], "Ok", InInterrupt))
          /\ UNCHANGED <<after, last, queued>>
      BY <1>3 DEF SendMbx
    <2>3. JoinNone  BY <2>1, <2>2, StateNames, WakeServes DEF RingInv, BoxInv
    <2> QED BY <1>2, <2>2, <2>3, RingsKept DEF JoinNone
  <1>4. CASE links.head[b] = None
    <2>1. /\ mode' = mode /\ Becomes(Kernel) /\ QueueMessage(b, m)
          /\ queued' = [queued EXCEPT ![b] = @ + 1]
          /\ \A c \in inUse : \A n \in 1 .. queued[c] : Hop(c, n) # m
      BY <1>4 DEF SendMbx
    <2>2. inUse' = inUse  BY <2>1, NothingServes DEF RingInv, BoxInv
    <2>3. PICK F : Rings(F)  BY DEF RingInv
    <2> DEFINE f == F[b]
    <2>4. Ring(f, b)  BY <1>1, <2>3 DEF Rings
    <2>5. \A c \in inUse : \A n \in 1 .. queued[c] : F[c][n] # m
      <3> TAKE c \in inUse
      <3> TAKE n \in 1 .. queued[c]
      <3> DEFINE e == F[c]
      <3>1. Ring(e, c)  BY <2>3 DEF Rings
      <3>2. queued[c] \in Nat /\ n \in 0 .. queued[c] /\ n # 0  BY <1>1
      <3> HIDE DEF e
      <3>3. Hop(c, n) = e[n]  BY <3>1, <3>2, RingHops
      <3> QED BY <2>1, <3>3 DEF e
    <2> DEFINE S == {m} \cup Members(f, b)
    <2>6. Apart(F, b, S)  BY <1>1, <2>3, <2>5 DEF Apart, Members, Rings
    <2>7. m \notin Members(f, b)  BY <1>1, <2>5 DEF Members
    <2> HIDE DEF f
    <2>8. /\ \E g : Ring(g, b)' /\ \A i \in 1 .. queued'[b] : g[i] \in S
          /\ \A x \in Message \ S : after'[x] = after[x]
          /\ after' \in [Message -> Message]
          /\ last' \in [Object -> Message \cup {None}]
          /\ \A c \in Object \ {b} : last'[c] = last[c]
      BY <1>1, <2>1, <2>4, <2>7, QueueRing
    <2> HIDE DEF S
    <2>9. PICK g : Ring(g, b)' /\ \A i \in 1 .. queued'[b] : g[i] \in S
      BY <2>8
    <2>10. PICK T : T = S  OBVIOUS
    <2>11. /\ Apart(F, b, T) /\ \A i \in 1 .. queued'[b] : g[i] \in T
           /\ \A x \in Message \ T : after'[x] = after[x]
      BY <2>6, <2>8, <2>9, <2>10
    <2>12. \A c \in inUse \ {b} : queued'[c] = queued[c] /\ last'[c] = last[c]
      BY <1>1, <2>1, <2>8
    <2>13. Ring(g, b)'  BY <2>9
    <2> QED BY <1>1, <1>2, <2>2, <2>3, <2>8, <2>11, <2>12, <2>13, RingMoves
  <1> QED BY <1>3, <1>4

(* A new box's circle is empty.                                            *)
LEMMA CreateMbxKeepsRings ==
  ASSUME RingInv, NEW b \in Object, NEW thpri \in BOOLEAN, NEW mspri \in BOOLEAN,
         CreateMbx(b, thpri, mspri)
  PROVE  RingInv'
  <1>1. /\ inUse' = inUse \cup {b} /\ b \notin inUse /\ inUse \subseteq Object
        /\ queued \in [Object -> Nat]
    BY CreatedServes, KernelTyped, KernelFields
       DEF CreateMbx, RingInv, BoxInv, Serving, KernelType
  <1>2. BoxInv'  BY CreateMbxKeeps DEF RingInv
  <1>3. /\ queued' = [queued EXCEPT ![b] = 0] /\ last' = [last EXCEPT ![b] = None]
        /\ after' = after
    BY DEF CreateMbx
  <1>4. PICK F : Rings(F)  BY DEF RingInv
  <1> DEFINE e == [i \in 1 .. 0 |-> None]
             H == [c \in Object |-> IF c = b THEN e ELSE F[c]]
  <1>5. queued'[b] = 0 /\ last'[b] = None /\ 1 .. 0 = {}
    BY <1>1, <1>3 DEF RingInv
  <1>6. Ring(e, b)'
    <2>1. e \in [1 .. 0 -> Message]  BY <1>5
    <2> HIDE DEF e
    <2> QED BY <1>5, <2>1 DEF Ring
  <1>7. \A c \in inUse : /\ c \in Object /\ c # b /\ queued'[c] = queued[c]
                         /\ last'[c] = last[c]
    BY <1>1, <1>3 DEF RingInv
  <1>8. \A c \in inUse : Ring(F[c], c)'
    BY <1>3, <1>4, <1>7 DEF Rings, Ring
  <1>9. \A c \in inUse' : Ring(H[c], c)'
    BY <1>1, <1>6, <1>7, <1>8
  <1>10. \A c, d \in inUse' : c # d =>
           \A i \in 1 .. queued'[c], j \in 1 .. queued'[d] : H[c][i] # H[d][j]
    BY <1>1, <1>4, <1>5, <1>7 DEF Rings
  <1> HIDE DEF H
  <1>11. Rings(H)'  BY <1>9, <1>10 DEF Rings
  <1> QED BY <1>2, <1>3, <1>11 DEF RingInv

(* A receiver takes the first message, or waits.                           *)
LEMMA ReceiveMbxKeepsRings ==
  ASSUME RingInv, NEW b \in Object, ReceiveMbx(b)
  PROVE  RingInv'
  <1>1. InThread /\ b \in inUse /\ mode' = mode  BY DEF ReceiveMbx
  <1>2. CASE queued[b] > 0
    BY <1>1, <1>2, DequeueKeepsRings DEF ReceiveMbx
  <1>3. CASE ~(queued[b] > 0)
    <2> DEFINE joined == IF b \in byPriority
                         THEN EnqueueByPriority(links, priority, b, current)
                         ELSE Enqueue(links, b, current)
    <2>1. Becomes(BlockCurrent([Kernel EXCEPT !.links = joined,
                                              !.waiters[b] = @ + 1], b))
          /\ UNCHANGED <<after, last, queued>>
      BY <1>3 DEF ReceiveMbx
    <2>2. joined \in {Enqueue(links, b, current),
                      EnqueueByPriority(links, priority, b, current)}
      OBVIOUS
    <2> HIDE DEF joined
    <2>3. inUse' = inUse
      BY <1>1, <2>1, <2>2, JoinQueueServes DEF RingInv, BoxInv
    <2>4. BoxInv'  BY ReceiveMbxKeeps DEF RingInv
    <2> QED BY <2>1, <2>3, <2>4, RingsKept
  <1> QED BY <1>2, <1>3

LEMMA RingInit == Init => RingInv
  <1> SUFFICES ASSUME Init PROVE RingInv  OBVIOUS
  <1>1. BoxInv  BY BoxInitInv
  <1>2. inUse = {}  BY DEF Init, SchedInit, MakeReady, Readied
  <1>3. Rings(last)  BY <1>2 DEF Rings
  <1> QED BY <1>1, <1>3, MailboxAssumption DEF Init, RingInv

LEMMA RingNext ==
  ASSUME Unsafe = {}, RingInv, [Next]_vars
  PROVE  RingInv'
  <1>1. BoxInv /\ BoxInv'  BY BoxNextInv DEF RingInv
  <1>2. CASE SchedNext /\ UNCHANGED boxVars
    <2>1. JoinNone  BY <1>2, SchedNextServes DEF RingInv, BoxInv
    <2> QED BY <1>1, <1>2, <2>1, RingsKept DEF boxVars, JoinNone
  <1>3. CASE DeleteStep /\ UNCHANGED boxVars
    <2>1. inUse' \subseteq inUse  BY <1>3, DeleteStepServes DEF RingInv, BoxInv
    <2> QED BY <1>1, <1>3, <2>1, RingsKept DEF boxVars
  <1>4. CASE \E b \in Object : DeleteMbx(b)
    <2>1. PICK b \in Object : BeginDelete(b) /\ UNCHANGED boxVars
      BY <1>4 DEF DeleteMbx
    <2>2. inUse' = inUse  BY <2>1, BeginDeleteServes DEF RingInv, BoxInv
    <2> QED BY <1>1, <2>1, <2>2, RingsKept DEF boxVars
  <1>5. CASE \E b \in Object, m \in Message : SendMbx(b, m)
    BY <1>5, SendKeepsRings
  <1>6. CASE \E b \in Object : ReceiveMbx(b)
    BY <1>6, ReceiveMbxKeepsRings
  <1>7. CASE \E b \in Object : PollMbx(b)
    BY <1>7, DequeueKeepsRings DEF PollMbx
  <1>8. CASE \E b \in Object, thpri, mspri \in BOOLEAN : CreateMbx(b, thpri, mspri)
    BY <1>8, CreateMbxKeepsRings
  <1>9. CASE UNCHANGED vars
    <2>1. inUse' = inUse /\ UNCHANGED <<after, last, queued>>
      BY <1>9 DEF vars, schedVars, boxVars
    <2> QED BY <1>1, <2>1, RingsKept
  <1> QED BY <1>2, <1>3, <1>4, <1>5, <1>6, <1>7, <1>8, <1>9 DEF Next

(* The circular list of every box closes on its last message and passes    *)
(* message_count different messages, whatever is sent, received, created   *)
(* and deleted, and in whatever order of urgency queueMessage puts them.   *)
THEOREM MbxCircleCloses ==
  ASSUME Unsafe = {}
  PROVE  Spec => []CircleCloses
  <1>1. Init => RingInv  BY RingInit
  <1>2. RingInv /\ [Next]_vars => RingInv'  BY RingNext
  <1>3. RingInv => CircleCloses  BY RingsClose
  <1> QED BY <1>1, <1>2, <1>3, PTL DEF Spec

-----------------------------------------------------------------------------
(* The refinement of MailboxAbs by the box called box.                     *)
RingsList ==
    \A b, f : queued[b] \in Nat /\ Ring(f, b) =>
        Messages(b) = f /\ f \in Seq(Message) /\ Len(f) = queued[b]

LEMMA RingMessages == RingsList
  <1> SUFFICES ASSUME NEW b, NEW f, queued[b] \in Nat, Ring(f, b)
               PROVE  Messages(b) = f /\ f \in Seq(Message) /\ Len(f) = queued[b]
    BY DEF RingsList
  <1> DEFINE q == queued[b]
  <1>1. q \in Nat /\ f \in [1 .. q -> Message]  BY DEF Ring
  <1>2. \A n \in 1 .. q : Hop(b, n) = f[n]
    <2> TAKE n \in 1 .. q
    <2>1. n \in 0 .. q /\ n # 0  BY <1>1
    <2> QED BY <2>1, RingHops
  <1>3. Messages(b) = f  BY <1>1, <1>2 DEF Messages
  <1> HIDE DEF q
  <1>4. f \in Seq(Message) /\ Len(f) = q  BY <1>1
  <1> QED BY <1>3, <1>4 DEF q

LEMMA RingMessagesNext ==
  ASSUME NEW b, queued'[b] \in Nat, NEW f, Ring(f, b)'
  PROVE  Messages(b)' = f /\ f \in Seq(Message) /\ Len(f) = queued'[b]
  <1>1. RingsList'  BY RingMessages, PTL
  <1> QED BY <1>1 DEF RingsList

(* The messages of every box in use, and of no two the same.               *)
LEMMA MessagesRing ==
  ASSUME RingInv, NEW b \in inUse
  PROVE  /\ b \in Object /\ queued[b] \in Nat /\ Ring(Messages(b), b)
         /\ Messages(b) \in Seq(Message) /\ Len(Messages(b)) = queued[b]
  <1>1. b \in Object /\ queued[b] \in Nat
    BY KernelTyped, KernelFields DEF RingInv, BoxInv, Serving, KernelType
  <1>2. PICK F : Rings(F)  BY DEF RingInv
  <1> DEFINE f == F[b]
  <1>3. Ring(f, b)  BY <1>2 DEF Rings
  <1> HIDE DEF f
  <1> QED BY <1>1, <1>3, RingMessages DEF RingsList

(* The messages of one box are in no other.                                *)
LEMMA MessagesApart ==
  ASSUME RingInv, NEW b \in inUse, NEW c \in inUse, b # c,
         NEW i \in 1 .. queued[b], NEW j \in 1 .. queued[c]
  PROVE  Messages(b)[i] # Messages(c)[j]
  <1>1. PICK F : Rings(F)  BY DEF RingInv
  <1>2. ASSUME NEW d \in inUse
        PROVE  Messages(d) = F[d]
    <2> DEFINE f == F[d]
    <2>1. Ring(f, d)  BY <1>1 DEF Rings
    <2>2. queued[d] \in Nat  BY MessagesRing
    <2> HIDE DEF f
    <2>3. Messages(d) = f  BY <2>1, <2>2, RingMessages DEF RingsList
    <2> QED BY <2>3 DEF f
  <1>3. F[b][i] # F[c][j]  BY <1>1 DEF Rings
  <1> QED BY <1>2, <1>3

(* A call that touches none of a box's messages leaves them as they are.   *)
LEMMA HeldStays ==
  ASSUME RingInv, box \in inUse' <=> box \in inUse, NEW S,
         box \in inUse => \A i \in 1 .. queued[box] : Messages(box)[i] \notin S,
         \A x \in Message \ S : after'[x] = after[x],
         queued'[box] = queued[box], last'[box] = last[box]
  PROVE  Held' = Held
  <1>1. CASE box \notin inUse
    BY <1>1 DEF Held
  <1>2. CASE box \in inUse
    <2> DEFINE f == Messages(box)
    <2>1. Ring(f, box) /\ queued[box] \in Nat /\ \A i \in 1 .. queued[box] : f[i] \notin S
      BY <1>2, MessagesRing
    <2>2. PICK g : g = f  OBVIOUS
    <2>3. Ring(g, box) /\ queued[box] \in Nat /\ \A i \in 1 .. queued[box] : g[i] \notin S
      BY <2>1, <2>2
    <2> HIDE DEF f
    <2>4. Ring(g, box)'  BY <2>3, RingApart
    <2>5. Messages(box)' = g  BY <2>3, <2>4, RingMessagesNext
    <2> QED BY <1>2, <2>2, <2>5 DEF Held, f
  <1> QED BY <1>1, <1>2

LEMMA HeldUntouched ==
  ASSUME RingInv, box \in inUse' <=> box \in inUse,
         UNCHANGED <<after, last, queued>>
  PROVE  Held' = Held
  <1>1. PICK T : T = {}  OBVIOUS
  <1>2. \A x : x \notin T  BY <1>1
  <1>3. queued'[box] = queued[box] /\ last'[box] = last[box] /\ after' = after
    OBVIOUS
  <1> QED BY <1>2, <1>3, HeldStays

(* What a receiver takes is the first.                                     *)
LEMMA HeldTaken ==
  ASSUME RingInv, box \in inUse, inUse' = inUse, queued[box] > 0, DequeueMessage(box)
  PROVE  Held # <<>> /\ Held' = Tail(Held)
  <1>10. PICK f : f = Messages(box)  OBVIOUS
  <1>1. /\ box \in Object /\ queued \in [Object -> Nat] /\ queued[box] \in Nat
        /\ Ring(f, box) /\ f \in Seq(Message) /\ Len(f) = queued[box]
        /\ after \in [Message -> Message] /\ last \in [Object -> Message \cup {None}]
    BY <1>10, MessagesRing DEF RingInv, BoxInv
  <1>2. Held = f /\ Held' = Messages(box)'  BY <1>10 DEF Held
  <1>3. PICK g : Ring(g, box)' /\ \A i \in 1 .. queued'[box] : g[i] = f[i + 1]
    <2>1. queued[box] > 0 /\ DequeueMessage(box)  OBVIOUS
    <2>2. \E g : /\ Ring(g, box)'
                 /\ \A i \in 1 .. queued'[box] : /\ g[i] \in Members(f, box)
                                                 /\ g[i] = f[i + 1]
      BY ONLY <1>1, <2>1, DequeueRing
    <2> QED BY <2>2
  <1>4. queued'[box] = queued[box] - 1  BY <1>1 DEF DequeueMessage
  <1>5. queued'[box] \in Nat  BY <1>1, <1>4
  <1>6. Messages(box)' = g /\ g \in Seq(Message) /\ Len(g) = queued'[box]
    BY <1>3, <1>5, RingMessagesNext
  <1>7. f # <<>>  BY <1>1
  <1>8. Tail(f) \in Seq(Message) /\ Len(Tail(f)) = Len(f) - 1
        /\ \A i \in 1 .. Len(Tail(f)) : Tail(f)[i] = f[i + 1]
    BY <1>1, <1>7, HeadTailProperties
  <1>9. g = Tail(f)
    <2>1. Len(g) = Len(Tail(f))  BY <1>1, <1>4, <1>6, <1>8
    <2>2. \A i \in 1 .. Len(g) : g[i] = Tail(f)[i]
      BY <1>3, <1>6, <1>8, <2>1
    <2> QED BY <1>6, <1>8, <2>1, <2>2, SeqEqual
  <1> QED BY <1>2, <1>6, <1>7, <1>9

(* What is sent goes to its place.                                         *)
Gains(s, t, m) ==
    \E n \in 0 .. Len(s) :
        /\ t = PutIn(s, n, m)
        /\ box \notin byUrgency => n = Len(s)
        /\ box \in byUrgency =>
            /\ \A k \in 1 .. Len(s) : k <= n => Urgency[s[k]] <= Urgency[m]
            /\ n < Len(s) => Urgency[s[n + 1]] > Urgency[m]

LEMMA HeldGains ==
  ASSUME RingInv, box \in inUse, inUse' = inUse, NEW m \in Message,
         \A n \in 1 .. queued[box] : Hop(box, n) # m,
         QueueMessage(box, m), queued' = [queued EXCEPT ![box] = @ + 1]
  PROVE  Gains(Held, Held', m)
  <1>10. PICK f : f = Messages(box)  OBVIOUS
  <1>1. /\ box \in Object /\ queued \in [Object -> Nat] /\ queued[box] \in Nat
        /\ Ring(f, box) /\ f \in Seq(Message) /\ Len(f) = queued[box]
        /\ after \in [Message -> Message] /\ last \in [Object -> Message \cup {None}]
    BY <1>10, MessagesRing DEF RingInv, BoxInv
  <1>2. Held = f /\ Held' = Messages(box)'  BY <1>10 DEF Held
  <1>3. m \notin Members(f, box)  BY <1>10 DEF Messages, Members
  <1>4. PICK g : /\ Ring(g, box)'
                 /\ \E n \in 0 .. queued[box] :
                      Spot(box, m, f, n) /\ Inserted(f, box, m, n, g)
    BY <1>1, <1>3, QueueRing
  <1>5. PICK n \in 0 .. queued[box] : Spot(box, m, f, n) /\ Inserted(f, box, m, n, g)
    BY <1>4
  <1>6. queued'[box] = queued[box] + 1 /\ queued'[box] \in Nat  BY <1>1
  <1>7. Messages(box)' = g /\ g \in Seq(Message) /\ Len(g) = queued'[box]
    BY <1>4, <1>6, RingMessagesNext
  <1>8. /\ PutIn(f, n, m) \in Seq(Message) /\ Len(PutIn(f, n, m)) = Len(f) + 1
        /\ \A j \in 1 .. Len(f) + 1 :
             PutIn(f, n, m)[j] = IF j <= n THEN f[j] ELSE IF j = n + 1 THEN m ELSE f[j - 1]
    <2>1. n \in 0 .. Len(f) /\ f \in Seq(Message) /\ m \in Message  BY <1>1
    <2> QED BY ONLY <2>1, PutInIs
  <1>9. g = PutIn(f, n, m)
    <2>1. Len(g) = Len(PutIn(f, n, m))  BY <1>1, <1>6, <1>7, <1>8
    <2>2. \A j \in 1 .. Len(g) : g[j] = PutIn(f, n, m)[j]
      BY <1>1, <1>5, <1>6, <1>7, <1>8 DEF Inserted
    <2> QED BY <1>7, <1>8, <2>1, <2>2, SeqEqual
  <1> QED BY <1>1, <1>2, <1>5, <1>7, <1>9 DEF Gains, Spot

LEMMA LineIs ==
  ASSUME BoxInv, box \in Object
  PROVE  /\ Line(box) \in Seq(Thread) /\ DOMAIN Line(box) = 1 .. Len(Line(box))
         /\ Line(box) = Contents(links, box) /\ Line(box)' = Contents(links', box)
         /\ Abstract!InLine = Met(Line(box))
  <1>1. Line(box) \in Seq(Thread)  BY LineStarts DEF BoxInv, Serving
  <1>2. DOMAIN Line(box) = 1 .. Len(Line(box))  BY <1>1, LenProperties
  <1>3. Line(box) = Contents(links, box) /\ Line(box)' = Contents(links', box)
    BY DEF Line
  <1> QED BY <1>1, <1>2, <1>3 DEF Abstract!InLine, Met

(* What the box is does not change.                                        *)
KindStays ==
    /\ box \in inUse' <=> box \in inUse
    /\ box \in byUrgency' <=> box \in byUrgency
    /\ box \in byPriority' <=> box \in byPriority

LEMMA KindIs ==
  ASSUME KindStays
  PROVE  UNCHANGED Abstract!kind
  BY DEF KindStays, Abstract!kind

Abstractly == Abstract!Next \/ UNCHANGED Abstract!vars

LEMMA ElsewhereBy ==
  ASSUME BoxInv, box \in Object, KindStays, Held' = Held, StaysPut(box)
  PROVE  Abstractly
  <1>1. UNCHANGED Abstract!kind  BY KindIs
  <1>2. Contents(links', box) = Contents(links, box)
    BY LineIs DEF StaysPut
  <1> QED BY <1>1, <1>2 DEF Abstractly, Abstract!vars, Abstract!kind

LEMMA LeaveBy ==
  ASSUME BoxInv, box \in Object, KindStays, Held' = Held,
         NEW i \in Thread, Leaves(box, i)
  PROVE  Abstractly
  <1>1. UNCHANGED Abstract!kind  BY KindIs
  <1>2. PICK n \in 1 .. Len(Line(box)) : Line(box)' = TakenOut(Line(box), n)
    BY DEF Leaves
  <1>3. /\ n \in DOMAIN Contents(links, box)
        /\ Contents(links', box)
             = SubSeq(Contents(links, box), 1, n - 1)
               \o SubSeq(Contents(links, box), n + 1, Len(Contents(links, box)))
    BY <1>2, LineIs DEF TakenOut
  <1>4. Abstract!Leave  BY <1>1, <1>3 DEF Abstract!Leave, Abstract!RemoveAt
  <1> QED BY <1>4 DEF Abstractly, Abstract!Next

(* Messages are in order of urgency in a box that orders them.             *)
Ordered(s) ==
    \A i, j \in 1 .. Len(s) : i <= j => Urgency[s[i]] <= Urgency[s[j]]

OrderInv ==
    /\ RingInv
    /\ box \in byUrgency => Ordered(Held)

HeldListed == RingInv => Held \in Seq(Message)

LEMMA HeldIs == HeldListed
  BY MessagesRing DEF Held, HeldListed

LEMMA SchedMeets ==
  ASSUME OrderInv, RingInv', box \in Object, Unsafe = {}, SchedNext, UNCHANGED boxVars
  PROVE  Abstractly
  <1>1. JoinNone  BY SchedNextServes DEF OrderInv, RingInv, BoxInv
  <1>2. KindStays  BY <1>1 DEF KindStays, JoinNone, boxVars
  <1>3. Held' = Held
    BY <1>2, HeldUntouched DEF OrderInv, KindStays, boxVars
  <1>4. LeavesUnmet(box)
    BY SchedNextLeaves DEF OrderInv, RingInv, BoxInv, Serving
  <1> QED BY <1>2, <1>3, <1>4, ElsewhereBy, LeaveBy DEF LeavesUnmet, OrderInv, RingInv

LEMMA DeleteStepMeets ==
  ASSUME OrderInv, RingInv', box \in Object, DeleteStep, UNCHANGED boxVars
  PROVE  Abstractly
  <1>1. /\ RingInv /\ BoxInv /\ BoxInv'
        /\ UNCHANGED <<after, last, queued>>
        /\ byUrgency' = byUrgency /\ byPriority' = byPriority
    BY DEF boxVars, OrderInv, RingInv
  <1>2. CASE StaysPut(box) /\ (box \in inUse' <=> box \in inUse)
    BY <1>1, <1>2, HeldUntouched, ElsewhereBy DEF KindStays
  <1>3. CASE /\ box \in inUse /\ Line(box) # <<>> /\ inUse' = inUse
             /\ Leaves(box, Head(Line(box)))
    <2>1. Head(Line(box)) \in Thread  BY <1>1, <1>3, LineIs, HeadTailProperties
    <2> QED BY <1>1, <1>3, <2>1, HeldUntouched, LeaveBy DEF KindStays
  <1>4. CASE box \in inUse /\ Line(box) = <<>> /\ Line(box)' = <<>> /\ box \notin inUse'
    <2>1. Held' = <<>>  BY <1>4 DEF Held
    <2>2. Abstract!Remove
      BY <1>1, <1>4, <2>1, LineIs DEF Abstract!Remove
    <2> QED BY <2>2 DEF Abstractly, Abstract!Next
  <1> QED BY <1>1, <1>2, <1>3, <1>4, DeleteStepLines DEF BoxInv

(* A message taken out of another box.                                     *)
LEMMA OtherTaken ==
  ASSUME RingInv, box \in Object, NEW b \in inUse, b # box, inUse' = inUse,
         queued[b] > 0, DequeueMessage(b)
  PROVE  Held' = Held
  <1>1. PICK f : f = Messages(b)  OBVIOUS
  <1>2. /\ b \in Object /\ queued \in [Object -> Nat] /\ Ring(f, b)
        /\ after \in [Message -> Message] /\ last \in [Object -> Message \cup {None}]
        /\ queued[b] > 0 /\ DequeueMessage(b)
    BY <1>1, MessagesRing DEF RingInv, BoxInv
  <1>3. /\ \A x \in Message \ Members(f, b) : after'[x] = after[x]
        /\ \A c \in Object \ {b} : last'[c] = last[c]
    BY ONLY <1>2, DequeueRing
  <1>4. PICK S : S = Members(f, b)  OBVIOUS
  <1>5. box \in inUse => \A i \in 1 .. queued[box] : Messages(box)[i] \notin S
    BY <1>1, <1>4, MessagesApart DEF Members
  <1>6. queued'[box] = queued[box] /\ last'[box] = last[box]
    BY <1>2, <1>3 DEF DequeueMessage
  <1>7. \A x \in Message \ S : after'[x] = after[x]  BY <1>3, <1>4
  <1> QED BY <1>5, <1>6, <1>7, HeldStays

(* A message put in another box.                                           *)
LEMMA OtherGains ==
  ASSUME RingInv, box \in Object, NEW b \in inUse, b # box, inUse' = inUse,
         NEW m \in Message,
         \A c \in inUse : \A n \in 1 .. queued[c] : Hop(c, n) # m,
         QueueMessage(b, m), queued' = [queued EXCEPT ![b] = @ + 1]
  PROVE  Held' = Held
  <1>1. PICK f : f = Messages(b)  OBVIOUS
  <1>8. \A c \in inUse : \A n \in 1 .. queued[c] : Messages(c)[n] # m
    BY DEF Messages
  <1>2. /\ b \in Object /\ queued \in [Object -> Nat] /\ Ring(f, b)
        /\ after \in [Message -> Message] /\ last \in [Object -> Message \cup {None}]
        /\ queued' = [queued EXCEPT ![b] = @ + 1] /\ QueueMessage(b, m)
        /\ m \in Message /\ m \notin Members(f, b)
    BY <1>1, <1>8, MessagesRing DEF RingInv, BoxInv, Members
  <1>3. /\ \A x \in Message \ ({m} \cup Members(f, b)) : after'[x] = after[x]
        /\ \A c \in Object \ {b} : last'[c] = last[c]
    BY ONLY <1>2, QueueRing
  <1>4. PICK S : S = {m} \cup Members(f, b)  OBVIOUS
  <1>5. box \in inUse => \A i \in 1 .. queued[box] : Messages(box)[i] \notin S
    BY <1>1, <1>4, <1>8, MessagesApart DEF Members
  <1>6. queued'[box] = queued[box] /\ last'[box] = last[box]
    BY <1>2, <1>3
  <1>7. \A x \in Message \ S : after'[x] = after[x]  BY <1>3, <1>4
  <1> QED BY <1>5, <1>6, <1>7, HeldStays

(* A message leaves some box.                                              *)
LEMMA TakeMeets ==
  ASSUME OrderInv, box \in Object, NEW b \in inUse, queued[b] > 0,
         DequeueMessage(b), Becomes(Kernel), UNCHANGED <<byPriority, byUrgency>>
  PROVE  Abstractly
  <1>1. RingInv /\ BoxInv  BY DEF OrderInv, RingInv
  <1>2. links' = links /\ answer' = answer /\ inUse' = inUse
    BY DEF Becomes, Kernel
  <1>3. KindStays /\ StaysPut(box)  BY <1>2, QuietStays DEF KindStays
  <1>4. CASE b # box
    BY <1>1, <1>2, <1>3, <1>4, OtherTaken, ElsewhereBy
  <1>5. CASE b = box
    <2>1. Held # <<>> /\ Held' = Tail(Held)  BY <1>1, <1>2, <1>5, HeldTaken
    <2>2. UNCHANGED Abstract!kind /\ Contents(links', box) = Contents(links, box)
      BY <1>2, <1>3, KindIs
    <2>3. Abstract!Receive  BY <1>5, <2>1, <2>2 DEF Abstract!Receive
    <2> QED BY <2>3 DEF Abstractly, Abstract!Next
  <1> QED BY <1>4, <1>5

LEMMA ReceiveMeets ==
  ASSUME OrderInv, RingInv', box \in Object, NEW b \in Object, ReceiveMbx(b)
  PROVE  Abstractly
  <1>1. /\ InThread /\ b \in inUse /\ mode' = mode
        /\ byUrgency' = byUrgency /\ byPriority' = byPriority
    BY DEF ReceiveMbx
  <1>2. RingInv /\ BoxInv /\ BoxInv' /\ Serving /\ Serving'
    BY DEF OrderInv, RingInv, BoxInv
  <1>3. CASE queued[b] > 0
    BY <1>1, <1>3, TakeMeets DEF ReceiveMbx
  <1>4. CASE ~(queued[b] > 0)
    <2> DEFINE first == b \notin byPriority
               l == IF first THEN Enqueue(links, b, current)
                    ELSE EnqueueByPriority(links, priority, b, current)
    <2>1. /\ Becomes(BlockCurrent([Kernel EXCEPT !.links = l,
                                                 !.waiters[b] = @ + 1], b))
          /\ UNCHANGED <<after, last, queued>>
      <3>1. l = IF b \in byPriority THEN EnqueueByPriority(links, priority, b, current)
                ELSE Enqueue(links, b, current)
        OBVIOUS
      <3> HIDE DEF l
      <3> QED BY <1>4, <3>1 DEF ReceiveMbx
    <2>2. inUse' = inUse
      <3>1. l \in {Enqueue(links, b, current),
                   EnqueueByPriority(links, priority, b, current)}
        OBVIOUS
      <3> HIDE DEF l
      <3> QED BY <1>1, <1>2, <2>1, <3>1, JoinQueueServes
    <2>3. /\ \E n \in 0 .. Len(Line(b)) : Joins(b, n) /\ (first => n = Len(Line(b)))
          /\ \A x \in Object \ {b} : StaysPut(x)
      <3>1. first \in BOOLEAN  OBVIOUS
      <3> HIDE DEF first
      <3>2. l = IF first THEN Enqueue(links, b, current)
                ELSE EnqueueByPriority(links, priority, b, current)
        OBVIOUS
      <3> HIDE DEF l
      <3> QED BY <1>1, <1>2, <2>1, <3>1, <3>2, JoinLines
    <2> HIDE DEF l
    <2>4. KindStays /\ Held' = Held
      BY <1>1, <1>2, <2>1, <2>2, HeldUntouched DEF KindStays
    <2>5. CASE b # box
      BY <1>2, <2>3, <2>4, <2>5, ElsewhereBy
    <2>6. CASE b = box
      <3>1. PICK n \in 0 .. Len(Line(box)) :
              Joins(box, n) /\ (box \notin byPriority => n = Len(Line(box)))
        BY <2>3, <2>6
      <3>2. UNCHANGED Abstract!kind  BY <2>4, KindIs
      <3>3. Held = <<>>
        <4>1. Held \in Seq(Message) /\ Held = Messages(box) /\ Len(Messages(box)) = 0
          BY <1>1, <1>2, <1>4, <2>6, HeldIs, MessagesRing DEF Held, HeldListed
        <4> QED BY <4>1, EmptySeq
      <3>4. current \in Thread \ Abstract!InLine  BY <1>2, <3>1, LineIs DEF Joins
      <3>5. /\ n \in 0 .. Len(Contents(links, box))
            /\ box \notin byPriority => n = Len(Contents(links, box))
            /\ Contents(links', box)
                 = SubSeq(Contents(links, box), 1, n) \o <<current>>
                   \o SubSeq(Contents(links, box), n + 1, Len(Contents(links, box)))
        BY <1>2, <3>1, LineIs DEF Joins, PutIn
      <3>6. Abstract!Join
        BY <1>1, <2>4, <2>6, <3>2, <3>3, <3>4, <3>5
        DEF Abstract!Join, Abstract!InsertAt
      <3> QED BY <3>6 DEF Abstractly, Abstract!Next
    <2> QED BY <2>5, <2>6
  <1> QED BY <1>3, <1>4

(* In a box in order, the place queueMessage finds parts the messages that *)
(* are as urgent from those that are less so.                              *)
LEMMA PlaceParts ==
  ASSUME NEW s \in Seq(Message), NEW m \in Message, NEW t, Gains(s, t, m),
         box \in byUrgency => Ordered(s)
  PROVE  \E n \in 0 .. Len(s) :
            /\ t = PutIn(s, n, m)
            /\ \A k \in 1 .. Len(s) :
                 k <= n <=> box \notin byUrgency \/ Urgency[s[k]] <= Urgency[m]
  <1>1. PICK n \in 0 .. Len(s) :
          /\ t = PutIn(s, n, m)
          /\ box \notin byUrgency => n = Len(s)
          /\ box \in byUrgency =>
               /\ \A k \in 1 .. Len(s) : k <= n => Urgency[s[k]] <= Urgency[m]
               /\ n < Len(s) => Urgency[s[n + 1]] > Urgency[m]
    BY DEF Gains
  <1>2. /\ Len(s) \in Nat /\ \A k \in 1 .. Len(s) : Urgency[s[k]] \in Int
        /\ Urgency[m] \in Int
    <2>1. \A x \in Message : Urgency[x] \in Int  BY UrgencyIs
    <2>2. Len(s) \in Nat /\ \A k \in 1 .. Len(s) : s[k] \in Message
      BY LenProperties, ElementOfSeq
    <2> QED BY <2>1, <2>2
  <1>3. ASSUME NEW k \in 1 .. Len(s)
        PROVE  k <= n <=> box \notin byUrgency \/ Urgency[s[k]] <= Urgency[m]
    <2>1. CASE box \notin byUrgency
      BY <1>1, <1>2, <2>1
    <2>2. CASE box \in byUrgency /\ k <= n
      BY <1>1, <2>2
    <2>3. CASE box \in byUrgency /\ ~(k <= n)
      <3>1. n < Len(s) /\ n + 1 \in 1 .. Len(s) /\ n + 1 <= k
        BY <1>2, <2>3
      <3>2. Urgency[s[n + 1]] > Urgency[m]  BY <1>1, <2>3, <3>1
      <3>3. Urgency[s[n + 1]] <= Urgency[s[k]]  BY <2>3, <3>1 DEF Ordered
      <3>4. Urgency[s[n + 1]] \in Int /\ Urgency[s[k]] \in Int  BY <1>2, <3>1
      <3> QED BY <1>2, <2>3, <3>2, <3>3, <3>4
    <2> QED BY <2>1, <2>2, <2>3
  <1> QED BY <1>1, <1>3

LEMMA SendMeets ==
  ASSUME OrderInv, RingInv', box \in Object, NEW b \in Object, NEW m \in Message,
         SendMbx(b, m)
  PROVE  Abstractly
  <1>1. /\ RingInv /\ BoxInv /\ BoxInv' /\ Serving /\ Steady /\ Steady'
        /\ b \in inUse /\ mode' = mode
        /\ byUrgency' = byUrgency /\ byPriority' = byPriority
    BY DEF SendMbx, OrderInv, RingInv, BoxInv, Serving
  <1>2. CASE links.head[b] # None
    <2> DEFINE i == links.head[b]
               p == InInterrupt
               d == delayed
    <2>1. i \in Thread /\ wait[i] = b /\ state[i] = "Wait"
      BY <1>1, <1>2, WaitersListed
    <2>2. /\ Becomes(Wake(Kernel, i, "Ok", p)) /\ InEither
          /\ UNCHANGED <<after, last, queued>>
      BY <1>2 DEF SendMbx
    <2>3. [Kernel EXCEPT !.delayed = d] = Kernel  BY DEF Kernel
    <2>4. Becomes(Wake([Kernel EXCEPT !.delayed = d], i, "Ok", p))
      BY <2>2, <2>3
    <2>5. JoinNone
      BY <1>1, <2>1, <2>2, StateNames, WakeServes
    <2>6. p \in BOOLEAN /\ d \in SUBSET Thread /\ "Ok" \in Answer
      BY <1>1, KernelTyped, KernelFields, StateNames DEF KernelType, InInterrupt
    <2> HIDE DEF p, d, i
    <2>7. IF wait[i] = box THEN Leaves(box, i) ELSE StaysPut(box)
      BY <1>1, <2>1, <2>4, <2>6, WakeLines
    <2>8. KindStays  BY <1>1, <2>5 DEF KindStays, JoinNone
    <2>9. Held' = Held  BY <1>1, <2>2, <2>8, HeldUntouched DEF KindStays
    <2>10. CASE b = box
      <3>1. /\ Line(box) # <<>> /\ Line(box)[1] = i /\ Line(box) \in Seq(Thread)
        BY <1>1, <1>2, <2>10, LineStarts DEF i
      <3>2. Head(Line(box)) = i  BY <3>1, HeadIs
      <3>3. Leaves(box, Head(Line(box)))  BY <2>1, <2>7, <2>10, <3>2
      <3>4. Line(box)' = Tail(Line(box))
        BY <1>1, <3>1, <3>3, FirstLeaves
      <3>5. /\ Contents(links, box) # <<>>
            /\ Contents(links', box) = Tail(Contents(links, box))
        BY <1>1, <3>1, <3>4, LineIs
      <3>6. UNCHANGED Abstract!kind  BY <2>8, KindIs
      <3>7. Abstract!Send(m)
        BY <1>1, <2>9, <2>10, <3>5, <3>6 DEF Abstract!Send
      <3> QED BY <3>7 DEF Abstractly, Abstract!Next
    <2>11. CASE b # box
      BY <1>1, <2>1, <2>7, <2>8, <2>9, <2>11, ElsewhereBy
    <2> QED BY <2>10, <2>11
  <1>3. CASE links.head[b] = None
    <2>1. /\ QueueMessage(b, m) /\ queued' = [queued EXCEPT ![b] = @ + 1]
          /\ Becomes(Kernel)
          /\ \A c \in inUse : \A n \in 1 .. queued[c] : Hop(c, n) # m
      BY <1>3 DEF SendMbx
    <2>2. links' = links /\ answer' = answer /\ inUse' = inUse
      BY <2>1 DEF Becomes, Kernel
    <2>3. KindStays /\ StaysPut(box)
      BY <1>1, <2>2, QuietStays DEF KindStays
    <2>4. CASE b # box
      <3>1. Held' = Held  BY <1>1, <2>1, <2>2, <2>4, OtherGains
      <3> QED BY <1>1, <2>3, <3>1, ElsewhereBy
    <2>5. CASE b = box
      <3>1. Gains(Held, Held', m)
        BY <1>1, <2>1, <2>2, <2>5, HeldGains
      <3>2. Held \in Seq(Message) /\ (box \in byUrgency => Ordered(Held))
        BY <1>1, HeldIs DEF OrderInv, HeldListed
      <3>3. PICK s, t : s = Held /\ t = Held'  OBVIOUS
      <3>4. \E n \in 0 .. Len(s) :
              /\ t = PutIn(s, n, m)
              /\ \A k \in 1 .. Len(s) :
                   k <= n <=> box \notin byUrgency \/ Urgency[s[k]] <= Urgency[m]
        BY <3>1, <3>2, <3>3, PlaceParts
      <3>5. \E n \in 0 .. Len(Held) :
              /\ Held' = Abstract!InsertAt(Held, n, m)
              /\ \A k \in DOMAIN Held :
                   k <= n <=> ~(box \in byUrgency) \/ Urgency[Held[k]] <= Urgency[m]
        BY <3>2, <3>3, <3>4, LenProperties DEF PutIn, Abstract!InsertAt
      <3>6. Contents(links, box) = <<>> /\ Contents(links', box) = Contents(links, box)
        <4>1. Line(box) = <<>>  BY <1>1, <1>3, <2>5, LineStarts
        <4> QED BY <1>1, <2>2, <4>1, LineIs
      <3>7. UNCHANGED Abstract!kind  BY <2>3, KindIs
      <3>8. Abstract!Send(m)
        BY <1>1, <2>5, <3>5, <3>6, <3>7 DEF Abstract!Send
      <3> QED BY <3>8 DEF Abstractly, Abstract!Next
    <2> QED BY <2>4, <2>5
  <1> QED BY <1>2, <1>3

LEMMA CreateMeets ==
  ASSUME OrderInv, RingInv', box \in Object, NEW b \in Object,
         NEW thpri \in BOOLEAN, NEW mspri \in BOOLEAN, CreateMbx(b, thpri, mspri)
  PROVE  Abstractly
  <1>1. RingInv /\ BoxInv /\ BoxInv' /\ Serving /\ Serving' /\ Steady /\ Steady'
    BY DEF OrderInv, RingInv, BoxInv, Serving
  <1>2. /\ b \notin inUse /\ inUse' = inUse \cup {b} /\ links' = links
        /\ answer' = answer /\ \A t \in Thread : wait[t] # b
    BY <1>1, CreatedServes DEF CreateMbx
  <1>3. /\ queued' = [queued EXCEPT ![b] = 0] /\ last' = [last EXCEPT ![b] = None]
        /\ after' = after
        /\ byPriority' = IF thpri THEN byPriority \cup {b} ELSE byPriority \ {b}
        /\ byUrgency' = IF mspri THEN byUrgency \cup {b} ELSE byUrgency \ {b}
    BY DEF CreateMbx
  <1>4. StaysPut(box)  BY <1>2, QuietStays
  <1>5. CASE b # box
    <2>1. KindStays  BY <1>2, <1>3, <1>5 DEF KindStays
    <2>2. queued'[box] = queued[box] /\ last'[box] = last[box]
      BY <1>1, <1>3, <1>5 DEF RingInv, BoxInv
    <2>3. PICK S : S = {}  OBVIOUS
    <2>4. \A x : x \notin S  BY <2>3
    <2>5. \A x \in Message \ S : after'[x] = after[x]  BY <1>3
    <2>6. Held' = Held
      BY <1>1, <2>1, <2>2, <2>4, <2>5, HeldStays DEF KindStays
    <2> QED BY <1>1, <1>4, <2>1, <2>6, ElsewhereBy
  <1>6. CASE b = box
    <2>1. Line(box) = <<>>
      <3>1. links.head[box] = None  BY <1>1, <1>2, <1>6, WaitersListed
      <3> QED BY <1>1, <3>1, LineStarts
    <2>2. Contents(links, box) = <<>> /\ Contents(links', box) = <<>>
      BY <1>1, <1>2, <2>1, LineIs
    <2>3. Held = <<>>  BY <1>2, <1>6 DEF Held
    <2>4. Held' = <<>>
      <3>1. box \in inUse'  BY <1>2, <1>6
      <3>2. queued'[box] = 0  BY <1>1, <1>3, <1>6 DEF RingInv, BoxInv
      <3>3. PICK r : r = Messages(box)'  OBVIOUS
      <3>4. Held' = r /\ r \in Seq(Message) /\ Len(r) = 0
        <4>1. HeldListed'  BY HeldIs, PTL
        <4>2. Held' = r /\ r \in Seq(Message)
          BY <3>1, <3>3, <4>1 DEF Held, HeldListed
        <4>3. DOMAIN r = 1 .. 0  BY <3>2, <3>3 DEF Messages
        <4>4. DOMAIN r = 1 .. Len(r) /\ Len(r) \in Nat  BY <4>2, LenProperties
        <4>5. Len(r) = 0
          <5> DEFINE k == Len(r)
          <5>1. k \in Nat /\ 1 .. k = 1 .. 0  BY <4>3, <4>4
          <5> HIDE DEF k
          <5>2. k = 0  BY <5>1
          <5> QED BY <5>2 DEF k
        <4> QED BY <4>2, <4>5
      <3> QED BY <3>4, EmptySeq
    <2>5. (box \in byUrgency)' \in BOOLEAN /\ (box \notin byPriority)' \in BOOLEAN
      OBVIOUS
    <2>6. Abstract!Create
      BY <1>2, <1>6, <2>2, <2>3, <2>4, <2>5 DEF Abstract!Create
    <2> QED BY <2>6 DEF Abstractly, Abstract!Next
  <1> QED BY <1>5, <1>6

LEMMA StepMeets ==
  ASSUME Unsafe = {}, box \in Object, OrderInv, RingInv', [Next]_vars
  PROVE  Abstractly
  <1>0. RingInv /\ BoxInv  BY DEF OrderInv, RingInv
  <1>1. CASE SchedNext /\ UNCHANGED boxVars
    BY <1>1, SchedMeets
  <1>2. CASE DeleteStep /\ UNCHANGED boxVars
    BY <1>2, DeleteStepMeets
  <1>3. ASSUME links' = links, answer' = answer, inUse' = inUse, UNCHANGED boxVars
        PROVE  Abstractly
    <2>1. StaysPut(box)  BY <1>3, QuietStays
    <2>2. KindStays  BY <1>3 DEF KindStays, boxVars
    <2>3. Held' = Held  BY <1>0, <1>3, HeldUntouched DEF boxVars
    <2> QED BY <1>0, <2>1, <2>2, <2>3, ElsewhereBy
  <1>4. CASE \E b \in Object : DeleteMbx(b)
    <2>1. PICK b \in Object : BeginDelete(b) /\ UNCHANGED boxVars
      BY <1>4 DEF DeleteMbx
    <2>2. links' = links /\ answer' = answer /\ inUse' = inUse
      BY <2>1 DEF BeginDelete, Becomes, Kernel
    <2> QED BY <1>3, <2>1, <2>2
  <1>5. CASE \E b \in Object, m \in Message : SendMbx(b, m)
    BY <1>5, SendMeets
  <1>6. CASE \E b \in Object : ReceiveMbx(b)
    BY <1>6, ReceiveMeets
  <1>7. CASE \E b \in Object : PollMbx(b)
    BY <1>7, TakeMeets DEF PollMbx
  <1>8. CASE \E b \in Object, thpri, mspri \in BOOLEAN : CreateMbx(b, thpri, mspri)
    BY <1>8, CreateMeets
  <1>9. CASE UNCHANGED vars
    BY <1>3, <1>9 DEF vars, schedVars
  <1> QED BY <1>1, <1>2, <1>4, <1>5, <1>6, <1>7, <1>8, <1>9 DEF Next

(* A box in order stays in order, by what each abstract step does.         *)
LEMMA PutInOrdered ==
  ASSUME NEW s \in Seq(Message), NEW m \in Message, NEW n \in 0 .. Len(s), Ordered(s),
         \A k \in 1 .. Len(s) : k <= n <=> Urgency[s[k]] <= Urgency[m]
  PROVE  Ordered(PutIn(s, n, m))
  <1> DEFINE t == PutIn(s, n, m)
  <1>1. /\ Len(t) = Len(s) + 1 /\ Len(s) \in Nat
        /\ \A j \in 1 .. Len(s) + 1 : t[j] = IF j <= n THEN s[j]
                                             ELSE IF j = n + 1 THEN m ELSE s[j - 1]
    <2>1. s \in Seq(Message) /\ n \in 0 .. Len(s) /\ m \in Message  OBVIOUS
    <2>2. Len(s) \in Nat  BY LenProperties
    <2>3. /\ Len(PutIn(s, n, m)) = Len(s) + 1
          /\ \A j \in 1 .. Len(s) + 1 :
               PutIn(s, n, m)[j] = IF j <= n THEN s[j]
                                   ELSE IF j = n + 1 THEN m ELSE s[j - 1]
      BY ONLY <2>1, PutInIs
    <2> QED BY <2>2, <2>3
  <1>2. /\ \A k \in 1 .. Len(s) : Urgency[s[k]] \in Int
        /\ Urgency[m] \in Int
    <2>1. \A k \in 1 .. Len(s) : s[k] \in Message  BY LenProperties, ElementOfSeq
    <2> QED BY <2>1, UrgencyIs
  <1> HIDE DEF t
  <1>3. ASSUME NEW i \in 1 .. Len(s) + 1, NEW j \in 1 .. Len(s) + 1, i <= j
        PROVE  Urgency[t[i]] <= Urgency[t[j]]
    <2> DEFINE At(x) == IF x <= n THEN x ELSE x - 1
    <2>1. \A x \in 1 .. Len(s) + 1 : x # n + 1 =>
            At(x) \in 1 .. Len(s) /\ t[x] = s[At(x)] /\ (At(x) <= n <=> x <= n)
      BY <1>1
    <2>2. t[n + 1] = m  BY <1>1
    <2>3. At(i) <= At(j)  BY <1>1, <1>3
    <2> HIDE DEF At
    <2>4. CASE i # n + 1 /\ j # n + 1
      BY <1>3, <2>1, <2>3, <2>4 DEF Ordered
    <2>5. CASE i = n + 1 /\ j # n + 1
      <3>1. ~(At(j) <= n) /\ At(j) \in 1 .. Len(s) /\ t[j] = s[At(j)] /\ t[i] = m
        BY <1>1, <1>3, <2>1, <2>2, <2>5
      <3>2. ~(Urgency[s[At(j)]] <= Urgency[m])  BY <3>1
      <3> QED BY <1>2, <3>1, <3>2
    <2>6. CASE i # n + 1 /\ j = n + 1
      <3>1. At(i) <= n /\ At(i) \in 1 .. Len(s) /\ t[i] = s[At(i)] /\ t[j] = m
        BY <1>1, <1>3, <2>1, <2>2, <2>6
      <3> QED BY <3>1
    <2>7. CASE i = n + 1 /\ j = n + 1
      BY <1>2, <2>2, <2>7
    <2> QED BY <2>4, <2>5, <2>6, <2>7
  <1> QED BY <1>1, <1>3 DEF Ordered, t

LEMMA OrderStays ==
  ASSUME OrderInv, RingInv', Abstractly
  PROVE  OrderInv'
  <1> DEFINE Sorted == box \in byUrgency => Ordered(Held)
  <1> SUFFICES Sorted'  BY DEF OrderInv
  <1> USE DEF Sorted
  <1>1. Sorted /\ Held \in Seq(Message)  BY HeldIs DEF OrderInv, HeldListed
  <1>2. CASE UNCHANGED Abstract!vars
    BY <1>1, <1>2 DEF Abstract!vars, Ordered
  <1>3. CASE Abstract!Create \/ Abstract!Remove
    <2>1. Held' = <<>>
      BY <1>3 DEF Abstract!Create, Abstract!Remove, Held
    <2>2. Ordered(<<>>)  BY DEF Ordered
    <2>3. Ordered(Held)'  BY <2>1, <2>2 DEF Ordered
    <2> QED BY <2>3
  <1>4. CASE Abstract!Join \/ Abstract!Leave
    BY <1>1, <1>4 DEF Abstract!Join, Abstract!Leave, Abstract!kind, Ordered
  <1>5. CASE Abstract!Receive
    <2>1. /\ Held # <<>> /\ Held' = Tail(Held) /\ (box \in byUrgency' <=> box \in byUrgency)
      BY <1>5 DEF Abstract!Receive, Abstract!kind
    <2>2. PICK s, t : s = Held /\ t = Held'  OBVIOUS
    <2>3. /\ Len(s) \in Nat /\ Len(t) = Len(s) - 1
          /\ \A i \in 1 .. Len(t) : t[i] = s[i + 1]
      BY <1>1, <2>1, <2>2, HeadTailProperties, LenProperties
    <2>4. Ordered(s) => Ordered(t)
      <3> SUFFICES ASSUME Ordered(s), NEW i \in 1 .. Len(t), NEW j \in 1 .. Len(t), i <= j
                   PROVE  Urgency[t[i]] <= Urgency[t[j]]
        BY DEF Ordered
      <3> DEFINE x == i + 1
                 y == j + 1
      <3>1. x \in 1 .. Len(s) /\ y \in 1 .. Len(s) /\ x <= y  BY <2>3
      <3>2. t[i] = s[x] /\ t[j] = s[y]  BY <2>3
      <3> HIDE DEF x, y
      <3> QED BY <3>1, <3>2 DEF Ordered
    <2> QED BY <1>1, <2>1, <2>2, <2>4 DEF Ordered
  <1>6. CASE \E m \in Message : Abstract!Send(m)
    <2>1. PICK m \in Message : Abstract!Send(m)  BY <1>6
    <2>2. CASE Held' = Held
      BY <1>1, <2>1, <2>2 DEF Abstract!Send, Abstract!kind, Ordered
    <2>3. CASE Held' # Held
      <3>1. PICK n \in 0 .. Len(Held) :
              /\ Held' = Abstract!InsertAt(Held, n, m)
              /\ \A k \in DOMAIN Held :
                   k <= n <=> ~(box \in byUrgency) \/ Urgency[Held[k]] <= Urgency[m]
        BY <2>1, <2>3 DEF Abstract!Send
      <3>2. box \in byUrgency' <=> box \in byUrgency
        BY <2>1 DEF Abstract!Send, Abstract!kind
      <3>3. PICK s, t : s = Held /\ t = Held'  OBVIOUS
      <3>4. s \in Seq(Message) /\ n \in 0 .. Len(s) /\ t = PutIn(s, n, m)
        BY <1>1, <3>1, <3>3 DEF PutIn, Abstract!InsertAt
      <3>5. box \in byUrgency => Ordered(s)
              /\ \A k \in 1 .. Len(s) : k <= n <=> Urgency[s[k]] <= Urgency[m]
        BY <1>1, <3>1, <3>3, LenProperties
      <3>6. box \in byUrgency => Ordered(t)
        BY <3>4, <3>5, PutInOrdered
      <3> QED BY <3>2, <3>3, <3>6 DEF Ordered
    <2> QED BY <2>2, <2>3
  <1> QED BY <1>2, <1>3, <1>4, <1>5, <1>6 DEF Abstractly, Abstract!Next

(* Every box is one of MailboxAbs: for any number of threads, boxes and    *)
(* messages and any order of calls, deletes and interrupts, a message goes *)
(* to the first in line or to its place among the others, by urgency where *)
(* the box asks for it and behind its equals, and the first message is the *)
(* one taken; none is lost, none is taken twice, and sending to one box or *)
(* taking from it never disturbs another, although the circles are linked  *)
(* through the messages themselves.                                        *)
THEOREM MbxImplements ==
  ASSUME Unsafe = {}, box \in Object
  PROVE  Spec => ImplementsMailbox
  <1>1. Init => OrderInv
    <2> SUFFICES ASSUME Init PROVE OrderInv  OBVIOUS
    <2>1. RingInv  BY RingInit
    <2>2. box \notin byUrgency  BY DEF Init
    <2> QED BY <2>1, <2>2 DEF OrderInv
  <1>2. OrderInv /\ [Next]_vars => OrderInv' /\ [Abstract!Next]_(Abstract!vars)
    <2> SUFFICES ASSUME OrderInv, [Next]_vars
                 PROVE  OrderInv' /\ [Abstract!Next]_(Abstract!vars)
      OBVIOUS
    <2>1. RingInv'  BY RingNext DEF OrderInv
    <2>2. Abstractly  BY <2>1, StepMeets
    <2>3. OrderInv'  BY <2>1, <2>2, OrderStays
    <2> QED BY <2>2, <2>3 DEF Abstractly
  <1>3. Init => Abstract!Init
    <2> SUFFICES ASSUME Init PROVE Abstract!Init  OBVIOUS
    <2>1. RingInv /\ BoxInv  BY RingInit DEF RingInv
    <2>2. box \notin inUse
      BY DEF Init, SchedInit, MakeReady, Readied
    <2>3. links.head[box] = None
      BY <2>1, <2>2, WaitersListed DEF BoxInv, Serving
    <2>4. Contents(links, box) = <<>>
      BY <2>1, <2>3, LineStarts, LineIs DEF BoxInv, Serving
    <2> QED BY <2>2, <2>4 DEF Abstract!Init, Held
  <1> QED BY <1>1, <1>2, <1>3, PTL DEF Spec, ImplementsMailbox, Abstract!Spec
=============================================================================
