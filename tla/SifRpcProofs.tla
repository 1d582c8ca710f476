---------------------------- MODULE SifRpcProofs ----------------------------
(***************************************************************************)
(* Theorems about the SIF's remote calls, for clients that ask one at a    *)
(* time (Concurrent = FALSE): an answer is that of the request it reaches, *)
(* and the calls keep the promise of SifRpcAbs, its fairness aside; and    *)
(* about what the EE has done over it: a read FILEIO answers arrives       *)
(* whole, and the instructions of a module that is loaded reach their      *)
(* addresses wherever it is placed.                                        *)
(***************************************************************************)
EXTENDS SifRpc, FileIo, Relocate, FiniteSetTheorems,
        SequenceTheorems, WellFoundedInduction, TLAPS

-----------------------------------------------------------------------------
SifType ==
    /\ want \in [Client -> Asked \cup {Nothing}] /\ rpcId \in Id
    /\ bound \in [Client -> Server \cup {Nobody}]
    /\ received \in [Client -> Id \cup {0}]
    /\ chan6 \in Asked \cup {Nothing} /\ receive \in Asked \cup {Nothing}
    /\ inbox \in Packet \cup {Nothing} /\ outgoing \in Packet
    /\ payload \in Id \cup {0}
    /\ pending \in [RpcQueue -> Server \cup {Nobody}]
    /\ nextPending = [s \in Server |-> Nobody]
    /\ request \in [Server -> [client : Client \cup {Nobody}, id : Id \cup {0}]]
    /\ buffer \in [Server -> Id \cup {0}]
    /\ phase \in [RpcQueue -> Phase] /\ wakeups \in [RpcQueue -> Nat]
    /\ serving \in [RpcQueue -> Server \cup {Nobody}]
    /\ answer \in [RpcQueue -> Id \cup {0}] /\ ran \in [Client -> Nat]
    /\ ring \in Seq(Run) /\ (ring = <<>> => channel = "Idle")

(* Where what the one waiting client asked for, or its answer, is: on the  *)
(* channel or in the packet buffer of the way there, kept for queue q or   *)
(* served by its thread, in place n of the ring, or in the EE's buffer.    *)
(* The first part of a greeting asks for nothing, and is nowhere.          *)
Stage == {"none", "chan", "receive", "pending", "serve", "ring", "inbox"}
QueueOrNone == RpcQueue \cup {Nobody}

(* Server s keeps the call of the client that waits.                       *)
Called(s) ==
    /\ request[s].client \in Client
    /\ want[request[s].client].kind = "Call"
    /\ want[request[s].client].id = request[s].id
    /\ want[request[s].client].server = s

(* The packet e answers the request its client waits for.                  *)
Ends(e) ==
    /\ want[e.client].kind = e.cid /\ want[e.client].id = e.id
    /\ e.cid = "Call" => e.server = want[e.client].server /\ ran[e.client] = 1

Greeted == \E c \in Client : want[c].kind = "InitRpc"

(* A run of the ring that is still to be sent carries an answer.           *)
Carries(run) ==
    /\ run.from = "outgoing" =>
        \/ outgoing.kind = "SetSreg" /\ run.to = Nobody /\ Greeted
        \/ /\ outgoing.kind = "End" /\ Ends(outgoing)
           /\ IF outgoing.cid = "Call"
              THEN run.to = outgoing.client /\ run.result = outgoing.id
              ELSE run.to = Nobody
    /\ run.from = "payload" =>
        run.to \in Client /\ want[run.to].kind = "File" /\ payload = want[run.to].id

Unsent(n) == ring[n].from # "sender" /\ (n = 1 => channel = "Busy")

OnTheWay(st) ==
    /\ chan6 # Nothing =>
        /\ want[chan6.client] = chan6
        /\ chan6.kind # "Init" => st = "chan"
        /\ chan6.kind = "Call" => ran[chan6.client] = 0
    /\ receive # Nothing =>
        IF receive.kind = "Init"
        THEN LET asked == want[receive.client]
             IN  asked.kind = "Init" \/ (asked.kind = "InitRpc" /\ chan6 = asked)
        ELSE /\ st = "receive" /\ want[receive.client] = receive
             /\ receive.kind = "Call" => /\ buffer[receive.server] = receive.id
                                         /\ ran[receive.client] = 0

InService(st, q) ==
    \A p \in RpcQueue :
        /\ pending[p] # Nobody =>
            /\ st = "pending" /\ q = p /\ Called(pending[p])
            /\ buffer[pending[p]] = request[pending[p]].id
            /\ ran[request[pending[p]].client] = 0
        /\ phase[p] \in {"Serve", "Fill", "Send"} =>
            /\ st = "serve" /\ q = p /\ serving[p] \in Server /\ Called(serving[p])
            /\ phase[p] = "Serve" =>
                /\ buffer[serving[p]] = request[serving[p]].id
                /\ ran[request[serving[p]].client] = 0
            /\ phase[p] # "Serve" =>
                /\ answer[p] = request[serving[p]].id
                /\ ran[request[serving[p]].client] = 1
            /\ phase[p] = "Send" =>
                outgoing = End("Call", request[serving[p]], serving[p])

ComingBack(st, n) ==
    /\ \A m \in 1 .. Len(ring) : Unsent(m) => st = "ring" /\ n = m /\ Carries(ring[m])
    /\ inbox.kind = "End" =>
        /\ st = "inbox" /\ Ends(inbox)
        /\ inbox.cid = "Call" => received[inbox.client] = inbox.id
    /\ inbox.kind = "SetSreg" => st = "inbox" /\ Greeted

(* While a file is fetched nobody else can stop the EE's channel: no       *)
(* module sends before the program that is loaded has greeted the IOP.     *)
Fetching(st) ==
    /\ \A c \in Client : want[c].kind = "File" =>
        ~listening /\ (armed5 \/ (received[c] = want[c].id /\ st = "none"))
    /\ ~listening => /\ inbox.kind # "Command"
                     /\ \A m \in 1 .. Len(ring) : ring[m].from # "sender"
    /\ ee = "Met" /\ listening =>
        \E c \in Client : want[c].kind \in {"Init", "InitRpc"}
    /\ ee \in {"Off", "Raised"} =>
        ~listening /\ \A c \in Client : want[c] = Nothing

Alone ==
    /\ \A c \in Client : want[c] # Nothing => want[c].client = c
    /\ \A c, d \in Client : want[c] # Nothing /\ want[d] # Nothing => c = d

Flow(st, q, n) ==
    /\ Alone /\ OnTheWay(st) /\ InService(st, q) /\ ComingBack(st, n) /\ Fetching(st)

SifInv == SifType /\ \E st \in Stage, q \in QueueOrNone, n \in Nat : Flow(st, q, n)

-----------------------------------------------------------------------------
(* The records.                                                            *)
LEMMA AskedParts ==
  ASSUME NEW r \in Asked
  PROVE  /\ r.kind \in {"File", "Init", "InitRpc", "Bind", "Call"}
         /\ r.client \in Client /\ r.id \in Id /\ r # Nothing
         /\ r.kind \in {"Bind", "Call"} => r.server \in Server
  BY DEF Asked, Nothing

LEMMA PacketParts ==
  ASSUME NEW e \in Packet
  PROVE  /\ e.kind \in {"SetSreg", "Command", "End"} /\ e # Nothing
         /\ e.kind = "End" => /\ e.client \in Client /\ e.id \in Id
                              /\ e.cid \in {"Bind", "Call"}
                              /\ e.server \in Server \cup {Nobody}
  BY DEF Packet, Nothing

LEMMA RunParts ==
  ASSUME NEW run \in Run
  PROVE  /\ run.from \in {"outgoing", "payload", "sender"}
         /\ run.result \in Id \cup {0} /\ run.to \in Client \cup {Nobody}
  BY DEF Run

LEMMA SifConstants ==
  /\ Owner \in [Server -> RpcQueue]
  /\ Nobody \notin Client /\ Nobody \notin Server /\ Nobody \notin Sender
  /\ 1 \in Id /\ Id \subseteq Nat
  BY SifAssumption DEF Id

LEMMA WantParts ==
  ASSUME SifType, NEW c \in Client
  PROVE  /\ want[c] \in Asked \cup {Nothing}
         /\ want[c] = Nothing <=> want[c].kind = "Nothing"
         /\ want[c].kind \in {"Nothing", "File", "Init", "InitRpc", "Bind", "Call"}
  BY AskedParts DEF SifType, Nothing

LEMMA InboxParts ==
  ASSUME SifType
  PROVE  /\ inbox \in Packet \/ inbox = Nothing
         /\ inbox.kind # "Nothing" => inbox \in Packet
  <1>1. Nothing.kind = "Nothing"  BY DEF Nothing
  <1> QED BY <1>1 DEF SifType

-----------------------------------------------------------------------------
(* A part of the invariant stands while nothing it speaks of changes.      *)
LEMMA AloneKept ==
  ASSUME Alone, UNCHANGED want
  PROVE  Alone'
  BY DEF Alone

LEMMA OnTheWayKept ==
  ASSUME NEW st, OnTheWay(st), UNCHANGED <<chan6, want, ran, receive, buffer>>
  PROVE  OnTheWay(st)'
  BY DEF OnTheWay

LEMMA InServiceKept ==
  ASSUME NEW st, NEW q, InService(st, q),
         UNCHANGED <<pending, want, request, buffer, ran, phase, serving, answer,
                     outgoing>>
  PROVE  InService(st, q)'
  BY DEF InService, Called, End

LEMMA ComingBackKept ==
  ASSUME NEW st, NEW n, ComingBack(st, n),
         UNCHANGED <<ring, channel, outgoing, payload, inbox, want, ran, received>>
  PROVE  ComingBack(st, n)'
  BY DEF ComingBack, Unsent, Carries, Ends, Greeted

LEMMA FetchingKept ==
  ASSUME NEW st, Fetching(st),
         UNCHANGED <<want, listening, armed5, received, inbox, ring, ee>>
  PROVE  Fetching(st)'
  BY DEF Fetching

(* Nothing is with the servers, and nothing is on the way back.            *)
NoneInService ==
    \A p \in RpcQueue : pending[p] = Nobody /\ phase[p] \notin {"Serve", "Fill", "Send"}

NoneBack ==
    (\A m \in 1 .. Len(ring) : ~Unsent(m)) /\ inbox.kind \notin {"End", "SetSreg"}

LEMMA NoneInServiceServes ==
  ASSUME NEW st, NEW q, NoneInService
  PROVE  InService(st, q)
  BY DEF NoneInService, InService

LEMMA NoneBackComes ==
  ASSUME NEW st, NEW n, NoneBack
  PROVE  ComingBack(st, n)
  BY DEF NoneBack, ComingBack

LEMMA StageTells ==
  ASSUME NEW st, NEW q, NEW n, Flow(st, q, n)
  PROVE  /\ st \notin {"pending", "serve"} => NoneInService
         /\ st \notin {"ring", "inbox"} => NoneBack
  BY DEF Flow, InService, ComingBack, NoneInService, NoneBack

LEMMA NoneInServiceKept ==
  ASSUME NoneInService, UNCHANGED <<pending, phase>>
  PROVE  NoneInService'
  BY DEF NoneInService

LEMMA NoneBackKept ==
  ASSUME NoneBack, UNCHANGED <<ring, channel, inbox>>
  PROVE  NoneBack'
  BY DEF NoneBack, Unsent

(* The parts make the invariant of the next state.                         *)
LEMMA FlowNext ==
  ASSUME SifType', NEW st \in Stage, NEW q \in QueueOrNone, NEW n \in Nat,
         Alone', OnTheWay(st)', InService(st, q)', ComingBack(st, n)', Fetching(st)'
  PROVE  SifInv'
  BY DEF SifInv, Flow

(* Nothing but the first part of a greeting is on its way when nobody      *)
(* waits for more than that.                                               *)
LEMMA NobodyWaitsNothing ==
  ASSUME SifType, NEW st \in Stage, NEW q, NEW n, Flow(st, q, n),
         \A c \in Client : want[c].kind \in {"Nothing", "Init"}
  PROVE  /\ chan6 = Nothing \/ (chan6.kind = "Init" /\ want[chan6.client] = chan6)
         /\ receive = Nothing \/ (receive.kind = "Init" /\ want[receive.client].kind = "Init")
         /\ NoneInService /\ NoneBack
  <1>2. chan6 = Nothing \/ (chan6.kind = "Init" /\ want[chan6.client] = chan6)
    BY AskedParts DEF Flow, OnTheWay, SifType
  <1>3. receive = Nothing \/ (receive.kind = "Init" /\ want[receive.client].kind = "Init")
    BY AskedParts DEF Flow, OnTheWay, SifType
  <1>4. NoneInService
    BY DEF Flow, InService, Called, NoneInService
  <1>5. ASSUME NEW m \in 1 .. Len(ring), Unsent(m) PROVE FALSE
    <2>1. Carries(ring[m]) /\ ring[m].from # "sender" /\ ring[m] \in Run
      BY <1>5 DEF Flow, ComingBack, Unsent, SifType
    <2>2. ring[m].from \in {"outgoing", "payload"}  BY <2>1, RunParts
    <2>3. outgoing.kind = "End" => outgoing.client \in Client
                                   /\ outgoing.cid \notin {"Nothing", "Init"}
      BY PacketParts DEF SifType
    <2> QED BY <2>1, <2>2, <2>3 DEF Carries, Greeted, Ends
  <1>6. inbox.kind \notin {"End", "SetSreg"}
    <2>1. inbox.kind = "End" => inbox.client \in Client
                                /\ inbox.cid \notin {"Nothing", "Init"}
      BY InboxParts, PacketParts
    <2> QED BY <2>1 DEF Flow, ComingBack, Ends, Greeted
  <1> QED BY <1>2, <1>3, <1>4, <1>5, <1>6 DEF NoneBack

-----------------------------------------------------------------------------
(* The start of both sides.                                                *)
LEMMA StartKeeps ==
  ASSUME SifInv,
         \/ PublishReceive \/ SifInit \/ StartSifcmd \/ StartEesync
         \/ \E s \in Server : RegisterRpc(s)
  PROVE  SifInv'
  <1> PICK st \in Stage, q \in QueueOrNone, n \in Nat : Flow(st, q, n)  BY DEF SifInv
  <1> USE DEF eeVars, flagVars, rpcVars, threadVars, ringVars, inVars, backVars, keptVars
  <1>1. /\ UNCHANGED <<want, rpcId, bound, ran, ringVars, backVars, threadVars>>
        /\ UNCHANGED <<chan6, receive, buffer, payload, outgoing, pending, request,
                      ee, listening>>
        /\ nextPending = [s \in Server |-> Nobody] => UNCHANGED nextPending
    BY DEF PublishReceive, SifInit, StartSifcmd, StartEesync, RegisterRpc
  <1>2. SifType'  BY <1>1 DEF SifInv, SifType
  <1>3. Alone'  BY <1>1, AloneKept DEF Flow
  <1>4. OnTheWay(st)'  BY <1>1, OnTheWayKept DEF Flow
  <1>5. InService(st, q)'  BY <1>1, InServiceKept DEF Flow
  <1>6. ComingBack(st, n)'  BY <1>1, ComingBackKept DEF Flow
  <1>7. Fetching(st)'  BY <1>1, FetchingKept DEF Flow
  <1> QED BY <1>2, <1>3, <1>4, <1>5, <1>6, <1>7, FlowNext

LEMMA MeetKeeps ==
  ASSUME SifInv, RaiseBit \/ TakeAnswer
  PROVE  SifInv'
  <1> PICK st \in Stage, q \in QueueOrNone, n \in Nat : Flow(st, q, n)  BY DEF SifInv
  <1> USE DEF eeVars, flagVars, rpcVars, threadVars, ringVars, inVars, backVars, keptVars
  <1>1. /\ UNCHANGED <<want, rpcId, bound, ran, ringVars, backVars, threadVars>>
        /\ UNCHANGED <<chan6, receive, buffer, payload, outgoing, rpcVars, listening>>
        /\ (ee = "Off" /\ ee' = "Raised") \/ (ee = "Raised" /\ ee' = "Met")
    BY DEF RaiseBit, TakeAnswer
  <1>2. SifType'  BY <1>1 DEF SifInv, SifType
  <1>3. Alone'  BY <1>1, AloneKept DEF Flow
  <1>4. OnTheWay(st)'  BY <1>1, OnTheWayKept DEF Flow
  <1>5. InService(st, q)'  BY <1>1, InServiceKept DEF Flow
  <1>6. ComingBack(st, n)'  BY <1>1, ComingBackKept DEF Flow
  <1>7. Fetching(st)'  BY <1>1 DEF Flow, Fetching
  <1> QED BY <1>2, <1>3, <1>4, <1>5, <1>6, <1>7, FlowNext

(* A new program: nothing is due to the one before it, and nothing in the  *)
(* ring can stop the channel under its fetches.                            *)
LEMMA NewProgramKeeps ==
  ASSUME SifInv, NewProgram
  PROVE  SifInv'
  <1> PICK st \in Stage, q \in QueueOrNone, n \in Nat : Flow(st, q, n)  BY DEF SifInv
  <1> USE DEF flagVars, rpcVars, threadVars, ringVars, inVars
  <1>a. Nothing.kind = "Nothing"  BY DEF Nothing
  <1>1. /\ UNCHANGED <<want, ran, received, payload, outgoing, ring, channel>>
        /\ UNCHANGED <<chan6, receive, buffer, pending, nextPending, request, phase,
                      serving, answer, wakeups>>
        /\ ee' = "Met" /\ listening' = FALSE /\ inbox' = Nothing
        /\ rpcId' = 1 /\ bound' = [c \in Client |-> Nobody]
        /\ \A c \in Client : want[c] = Nothing
        /\ \A m \in DOMAIN ring : ring[m].from # "sender"
    BY DEF NewProgram, Quiet
  <1>2. SifType'  BY <1>1, SifConstants DEF SifInv, SifType
  <1>3. Alone'  BY <1>1, AloneKept DEF Flow
  <1>4. chan6 = Nothing /\ receive = Nothing /\ NoneInService /\ NoneBack
    <2>1. /\ chan6 = Nothing \/ (chan6.kind = "Init" /\ want[chan6.client] = chan6)
          /\ receive = Nothing \/ (receive.kind = "Init" /\ want[receive.client].kind = "Init")
          /\ NoneInService /\ NoneBack
      BY <1>1, <1>a, NobodyWaitsNothing DEF SifInv
    <2>2. chan6 # Nothing => chan6.client \in Client  BY AskedParts DEF SifInv, SifType
    <2>3. receive # Nothing => receive.client \in Client
      BY AskedParts DEF SifInv, SifType
    <2> QED BY <2>1, <2>2, <2>3, <1>1, <1>a
  <1>5. OnTheWay("none")'  BY <1>1, <1>4 DEF OnTheWay
  <1>6. InService("none", Nobody)'
    BY <1>1, <1>4, NoneInServiceKept, NoneInServiceServes DEF NoneInService, InService
  <1>7. ComingBack("none", 0)'
    <2>1. \A m \in 1 .. Len(ring') : ~Unsent(m)'
      BY <1>1, <1>4 DEF NoneBack, Unsent
    <2> QED BY <2>1, <1>1, <1>a DEF ComingBack
  <1>8. Fetching("none")'
    <2>1. DOMAIN ring = 1 .. Len(ring)  BY DEF SifInv, SifType
    <2> QED BY <2>1, <1>1, <1>a DEF Fetching
  <1> QED BY <1>2, <1>3, <1>5, <1>6, <1>7, <1>8, FlowNext DEF Stage, QueueOrNone

-----------------------------------------------------------------------------
(* The EE asks: nobody waits, so nothing is on its way but the request.    *)
LEMMA AskKeeps ==
  ASSUME Concurrent = FALSE, SifInv, NEW c \in Client, NEW asked \in Asked,
         asked.client = c, asked.kind \in {"File", "Init", "Bind", "Call"},
         Ask(c, asked), UNCHANGED <<inbox, received>>, armed5' \in {armed5, TRUE},
         asked.kind \in {"File", "Init"} => ee = "Met",
         asked.kind \in {"Bind", "Call"} => ee = "Ready",
         asked.kind = "File" => armed5' = TRUE
  PROVE  SifInv'
  <1> PICK st \in Stage, q \in QueueOrNone, n \in Nat : Flow(st, q, n)  BY DEF SifInv
  <1> USE DEF eeVars, flagVars, rpcVars, threadVars, ringVars, inVars, keptVars
  <1>a. asked # Nothing  BY AskedParts
  <1>b. Nothing.kind = "Nothing"  BY DEF Nothing
  <1>1. /\ \A d \in Client : want[d] = Nothing
        /\ chan6 = Nothing /\ chan6' = asked
        /\ want' = [want EXCEPT ![c] = asked] /\ ran' = [ran EXCEPT ![c] = 0]
        /\ rpcId' = (rpcId % MaxIds) + 1
    BY DEF Ask
  <1>2. /\ UNCHANGED <<ee, bound, receive, buffer, ringVars, keptVars>>
        /\ UNCHANGED <<pending, nextPending, request, phase, serving, answer, wakeups>>
    BY DEF Ask
  <1>3. receive = Nothing /\ NoneInService /\ NoneBack
    <2>1. \A d \in Client : want[d].kind = "Nothing"  BY <1>1, <1>b
    <2>2. receive # Nothing => receive.client \in Client
      BY AskedParts DEF SifInv, SifType
    <2>3. \A d \in Client : want[d].kind \in {"Nothing", "Init"}  BY <2>1
    <2> QED BY <2>1, <2>2, <2>3, NobodyWaitsNothing DEF SifInv
  <1>4. SifType'
    <2>1. rpcId' \in Id  BY <1>1, SifAssumption DEF SifInv, SifType, Id
    <2>2. want' \in [Client -> Asked \cup {Nothing}] /\ chan6' \in Asked \cup {Nothing}
      BY <1>1 DEF SifInv, SifType
    <2>3. ran' \in [Client -> Nat]  BY <1>1 DEF SifInv, SifType
    <2> QED BY <1>2, <2>1, <2>2, <2>3 DEF SifInv, SifType
  <1>5. want'[c] = asked /\ ran'[c] = 0 /\ \A d \in Client \ {c} : want'[d] = Nothing
    BY <1>1 DEF SifInv, SifType
  <1>6. Alone'  BY <1>5, <1>a DEF Alone
  <1>7. OnTheWay("chan")'
    BY <1>1, <1>2, <1>3, <1>5 DEF OnTheWay
  <1>8. InService("chan", q)'
    <2>1. NoneInService'  BY <1>2, <1>3, NoneInServiceKept
    <2> QED BY <2>1 DEF NoneInService, InService
  <1>9. ComingBack("chan", n)'
    <2>1. NoneBack'  BY <1>2, <1>3, NoneBackKept
    <2> QED BY <2>1 DEF NoneBack, ComingBack
  <1>10. Fetching("chan")'
    <2>1. asked.kind = "File" => ~listening
      BY <1>1, <1>b DEF Flow, Fetching
    <2>2. ee = "Met" => ~listening
      BY <1>1, <1>b DEF Flow, Fetching
    <2> QED BY <1>2, <1>5, <1>b, <2>1, <2>2 DEF Flow, Fetching
  <1> QED BY <1>4, <1>6, <1>7, <1>8, <1>9, <1>10, FlowNext DEF Stage, QueueOrNone

LEMMA ClientAsks ==
  ASSUME Concurrent = FALSE, SifInv, NEW c \in Client,
         FetchFile(c) \/ InitRpc(c) \/ CallRpc(c) \/ \E s \in Server : BindRpc(c, s)
  PROVE  SifInv'
  <1>a. rpcId \in Id /\ bound[c] \in Server \cup {Nobody}  BY DEF SifInv, SifType
  <1>1. ASSUME FetchFile(c) PROVE SifInv'
    <2> DEFINE asked == [kind |-> "File", client |-> c, id |-> rpcId]
    <2>1. asked \in Asked /\ asked.client = c /\ asked.kind = "File"
      BY <1>a DEF Asked
    <2>2. /\ Ask(c, asked) /\ UNCHANGED <<inbox, received>> /\ armed5' = TRUE
          /\ ee = "Met"
      BY <1>1 DEF FetchFile
    <2> HIDE DEF asked
    <2> QED BY <2>1, <2>2, AskKeeps
  <1>2. ASSUME InitRpc(c) PROVE SifInv'
    <2> DEFINE asked == [kind |-> "Init", client |-> c, id |-> rpcId]
    <2>1. asked \in Asked /\ asked.client = c /\ asked.kind = "Init"
      BY <1>a DEF Asked
    <2>2. /\ Ask(c, asked) /\ UNCHANGED <<inbox, received>> /\ armed5' = TRUE
          /\ ee = "Met"
      BY <1>2 DEF InitRpc
    <2> HIDE DEF asked
    <2> QED BY <2>1, <2>2, AskKeeps
  <1>3. ASSUME CallRpc(c) PROVE SifInv'
    <2> DEFINE asked == [kind |-> "Call", client |-> c, id |-> rpcId, server |-> bound[c]]
    <2>1. asked \in Asked /\ asked.client = c /\ asked.kind = "Call"
      BY <1>a, <1>3 DEF Asked, CallRpc
    <2>2. Ask(c, asked) /\ UNCHANGED <<inbox, received, armed5>> /\ ee = "Ready"
      BY <1>3 DEF CallRpc, backVars
    <2> HIDE DEF asked
    <2> QED BY <2>1, <2>2, AskKeeps
  <1>4. ASSUME NEW s \in Server, BindRpc(c, s) PROVE SifInv'
    <2> DEFINE asked == [kind |-> "Bind", client |-> c, id |-> rpcId, server |-> s]
    <2>1. asked \in Asked /\ asked.client = c /\ asked.kind = "Bind"
      BY <1>a DEF Asked
    <2>2. Ask(c, asked) /\ UNCHANGED <<inbox, received, armed5>> /\ ee = "Ready"
      BY <1>4 DEF BindRpc, backVars
    <2> HIDE DEF asked
    <2> QED BY <2>1, <2>2, AskKeeps
  <1> QED BY <1>1, <1>2, <1>3, <1>4

(* The second part of a greeting, once the first has gone.                 *)
LEMMA InitRpcAgainKeeps ==
  ASSUME SifInv, NEW c \in Client, InitRpcAgain(c)
  PROVE  SifInv'
  <1> PICK st \in Stage, q \in QueueOrNone, n \in Nat : Flow(st, q, n)  BY DEF SifInv
  <1> USE DEF eeVars, flagVars, rpcVars, threadVars, ringVars, inVars, backVars, keptVars
  <1>a. Nothing.kind = "Nothing"  BY DEF Nothing
  <1>1. /\ want[c].kind = "Init" /\ chan6 = Nothing /\ chan6' = want'[c]
        /\ want' = [want EXCEPT ![c].kind = "InitRpc"]
    BY DEF InitRpcAgain
  <1>2. /\ UNCHANGED <<ee, rpcId, bound, ran, receive, buffer, backVars, rpcVars>>
        /\ UNCHANGED <<threadVars, ringVars, keptVars>>
    BY DEF InitRpcAgain
  <1>3. want[c] \in Asked /\ want[c].client = c
    <2>1. want[c] # Nothing  BY <1>1, <1>a
    <2> QED BY <2>1 DEF SifInv, SifType, Flow, Alone
  <1>4. \A d \in Client \ {c} : want[d] = Nothing
    BY <1>1, <1>a DEF Flow, Alone
  <1>5. /\ receive = Nothing \/ (receive.kind = "Init" /\ receive.client = c)
        /\ NoneInService /\ NoneBack
    <2>1. \A d \in Client : want[d].kind \in {"Nothing", "Init"}  BY <1>1, <1>4, <1>a
    <2>2. receive # Nothing => receive.client \in Client
      BY AskedParts DEF SifInv, SifType
    <2>3. /\ receive = Nothing \/ (receive.kind = "Init" /\ want[receive.client].kind = "Init")
          /\ NoneInService /\ NoneBack
      BY <2>1, NobodyWaitsNothing DEF SifInv
    <2> QED BY <1>4, <1>a, <2>2, <2>3
  <1>6. /\ want'[c] \in Asked /\ want'[c].client = c /\ want'[c].kind = "InitRpc"
        /\ \A d \in Client \ {c} : want'[d] = want[d]
        /\ want' \in [Client -> Asked \cup {Nothing}]
    <2>1. want' = [want EXCEPT ![c] = [want[c] EXCEPT !.kind = "InitRpc"]]
      BY <1>1 DEF SifInv, SifType
    <2>2. ASSUME NEW r \in Asked, r.kind = "Init"
          PROVE  LET e == [r EXCEPT !.kind = "InitRpc"]
                 IN  e \in Asked /\ e.client = r.client /\ e.kind = "InitRpc"
      BY <2>2 DEF Asked
    <2> DEFINE e == [want[c] EXCEPT !.kind = "InitRpc"]
    <2>3. e \in Asked /\ e.client = c /\ e.kind = "InitRpc"
      BY <1>1, <1>3, <2>2
    <2>4. want' = [want EXCEPT ![c] = e]  BY <2>1
    <2> HIDE DEF e
    <2> QED BY <2>3, <2>4 DEF SifInv, SifType
  <1>7. SifType'
    BY <1>1, <1>2, <1>6 DEF SifInv, SifType
  <1>8. Alone'
    <2>1. want'[c] # Nothing  BY <1>6, AskedParts
    <2> QED BY <1>4, <1>6, <2>1 DEF Alone
  <1>9. OnTheWay("chan")'
    BY <1>1, <1>2, <1>5, <1>6 DEF OnTheWay
  <1>10. InService("chan", q)'
    <2>1. NoneInService'  BY <1>2, <1>5, NoneInServiceKept
    <2> QED BY <2>1 DEF NoneInService, InService
  <1>11. ComingBack("chan", n)'
    <2>1. NoneBack'  BY <1>2, <1>5, NoneBackKept
    <2> QED BY <2>1 DEF NoneBack, ComingBack
  <1>12. Fetching("chan")'
    <2>1. \A d \in Client : want'[d].kind # "File"  BY <1>4, <1>6, <1>a
    <2>2. ee \notin {"Off", "Raised"}
      BY <1>1, <1>a DEF Flow, Fetching
    <2> QED BY <1>2, <1>6, <2>1, <2>2 DEF Flow, Fetching
  <1> QED BY <1>7, <1>8, <1>9, <1>10, <1>11, <1>12, FlowNext DEF Stage, QueueOrNone

(* The channel has stopped: it brought the window the fetch waits for.     *)
LEMMA FileFetchedKeeps ==
  ASSUME SifInv, NEW c \in Client, FileFetched(c)
  PROVE  SifInv'
  <1> PICK st \in Stage, q \in QueueOrNone, n \in Nat : Flow(st, q, n)  BY DEF SifInv
  <1> USE DEF eeVars, flagVars, rpcVars, threadVars, ringVars, inVars, backVars, keptVars
  <1>a. Nothing.kind = "Nothing"  BY DEF Nothing
  <1>1. /\ want[c].kind = "File" /\ chan6 = Nothing /\ ~armed5
        /\ want' = [want EXCEPT ![c] = Nothing]
        /\ UNCHANGED <<ee, rpcId, bound, ran, rpcVars, threadVars, ringVars>>
        /\ UNCHANGED <<inVars, backVars, keptVars>>
    BY DEF FileFetched
  <1>2. st = "none" /\ ~listening  BY <1>1 DEF Flow, Fetching
  <1>3. \A d \in Client \ {c} : want[d] = Nothing
    BY <1>1, <1>a DEF Flow, Alone
  <1>4. receive = Nothing
    <2>1. receive # Nothing => receive.kind = "Init" /\ receive.client \in Client
      BY <1>2, AskedParts DEF Flow, OnTheWay, SifInv, SifType
    <2>2. receive # Nothing => want[receive.client].kind = "Init"
      BY <1>1, <1>a, <2>1, AskedParts DEF Flow, OnTheWay, SifInv, SifType
    <2> QED BY <1>1, <1>3, <1>a, <2>1, <2>2
  <1>5. \A d \in Client : want'[d] = Nothing
    BY <1>1, <1>3 DEF SifInv, SifType
  <1>6. SifType'  BY <1>1 DEF SifInv, SifType
  <1>7. Alone'  BY <1>5 DEF Alone
  <1>8. OnTheWay(st)'  BY <1>1, <1>4 DEF OnTheWay
  <1>9. InService(st, q)'
    <2>1. NoneInService'  BY <1>1, <1>2, StageTells, NoneInServiceKept
    <2> QED BY <2>1 DEF NoneInService, InService
  <1>10. ComingBack(st, n)'
    <2>1. NoneBack'  BY <1>1, <1>2, StageTells, NoneBackKept
    <2> QED BY <2>1 DEF NoneBack, ComingBack
  <1>11. Fetching(st)'  BY <1>1, <1>2, <1>5, <1>a DEF Flow, Fetching
  <1> QED BY <1>6, <1>7, <1>8, <1>9, <1>10, <1>11, FlowNext

-----------------------------------------------------------------------------
(* The EE takes what has come.  After an answer nobody waits.              *)
LEMMA AnsweredKeeps ==
  ASSUME SifInv, NEW st \in Stage, NEW q \in QueueOrNone, NEW n \in Nat, Flow(st, q, n),
         st = "inbox", chan6 = Nothing, receive = Nothing,
         \A c \in Client : want'[c] = Nothing,
         want' \in [Client -> Asked \cup {Nothing}],
         bound' \in [Client -> Server \cup {Nobody}], inbox' = Nothing,
         ee' = "Ready" \/ (ee' = ee /\ (ee = "Met" => ~listening)),
         UNCHANGED <<rpcId, ran, received, rpcVars, threadVars, ringVars, inVars, keptVars>>
  PROVE  SifInv'
  <1> USE DEF rpcVars, threadVars, ringVars, inVars, keptVars
  <1>a. Nothing.kind = "Nothing"  BY DEF Nothing
  <1>1. SifType'  BY DEF SifInv, SifType
  <1>2. Alone'  BY DEF Alone
  <1>3. OnTheWay("none")'  BY DEF OnTheWay
  <1>4. InService("none", q)'
    <2>1. NoneInService'  BY StageTells, NoneInServiceKept
    <2> QED BY <2>1 DEF NoneInService, InService
  <1>5. ComingBack("none", n)'
    <2>1. \A m \in 1 .. Len(ring) : ~Unsent(m)
      BY DEF Flow, ComingBack
    <2> QED BY <1>a, <2>1 DEF ComingBack, Unsent
  <1>6. Fetching("none")'  BY <1>a DEF Flow, Fetching
  <1> QED BY <1>1, <1>2, <1>3, <1>4, <1>5, <1>6, FlowNext DEF Stage, QueueOrNone

LEMMA TakePacketKeeps ==
  ASSUME SifInv, TakePacket
  PROVE  SifInv'
  <1> PICK st \in Stage, q \in QueueOrNone, n \in Nat : Flow(st, q, n)  BY DEF SifInv
  <1> USE DEF flagVars, rpcVars, threadVars, ringVars, inVars, keptVars
  <1>a. Nothing.kind = "Nothing"  BY DEF Nothing
  <1>1. /\ inbox # Nothing /\ inbox' = Nothing /\ armed5' = TRUE
        /\ UNCHANGED <<rpcId, ran, received, rpcVars, threadVars, ringVars, inVars, keptVars>>
    BY DEF TakePacket
  <1>2. inbox \in Packet  BY <1>1 DEF SifInv, SifType
  <1>3. CASE inbox.kind = "End"
    <2> DEFINE c == inbox.client
    <2>1. c \in Client /\ inbox.cid \in {"Bind", "Call"}
          /\ inbox.server \in Server \cup {Nobody}
      BY <1>2, <1>3, PacketParts
    <2>2. st = "inbox" /\ want[c].kind = inbox.cid
      BY <1>3 DEF Flow, ComingBack, Ends
    <2>3. want[c] # Nothing /\ want[c].kind \in {"Bind", "Call"}  BY <1>a, <2>1, <2>2
    <2>4. /\ want' = [want EXCEPT ![c] = Nothing]
          /\ bound' = [bound EXCEPT ![c] = inbox.server] /\ ee' = ee
      BY <1>3 DEF TakePacket
    <2> HIDE DEF c
    <2>5. \A d \in Client \ {c} : want[d] = Nothing
      BY <2>1, <2>3 DEF Flow, Alone
    <2>6. \A d \in Client : want[d].kind \notin {"File", "Init", "InitRpc"}
      BY <1>a, <2>3, <2>5
    <2>7. chan6 = Nothing
      BY <2>2, <2>6, AskedParts DEF Flow, OnTheWay, SifInv, SifType
    <2>8. receive = Nothing
      BY <2>2, <2>6, AskedParts DEF Flow, OnTheWay, SifInv, SifType
    <2>9. /\ \A d \in Client : want'[d] = Nothing
          /\ want' \in [Client -> Asked \cup {Nothing}]
          /\ bound' \in [Client -> Server \cup {Nobody}]
      BY <2>1, <2>4, <2>5 DEF SifInv, SifType
    <2>10. ee = "Met" => ~listening  BY <2>6 DEF Flow, Fetching
    <2> QED BY <1>1, <2>2, <2>4, <2>7, <2>8, <2>9, <2>10, AnsweredKeeps
  <1>4. CASE inbox.kind = "SetSreg"
    <2>1. st = "inbox" /\ Greeted  BY <1>4 DEF Flow, ComingBack
    <2> PICK c \in Client : want[c].kind = "InitRpc"  BY <2>1 DEF Greeted
    <2>2. \A d \in Client \ {c} : want[d] = Nothing
      BY <1>a DEF Flow, Alone
    <2>3. /\ want' = [d \in Client |-> IF want[d].kind = "InitRpc" THEN Nothing ELSE want[d]]
          /\ ee' = "Ready" /\ bound' = bound
      BY <1>4 DEF TakePacket
    <2>4. \A d \in Client : want'[d] = Nothing  BY <2>2, <2>3
    <2>5. want' \in [Client -> Asked \cup {Nothing}]
      BY <2>3 DEF SifInv, SifType
    <2>6. chan6 = Nothing
      BY <1>a, <2>1, <2>2, AskedParts DEF Flow, OnTheWay, SifInv, SifType
    <2>7. receive = Nothing
      BY <1>a, <2>1, <2>2, <2>6, AskedParts DEF Flow, OnTheWay, SifInv, SifType
    <2>8. bound' \in [Client -> Server \cup {Nobody}]  BY <2>3 DEF SifInv, SifType
    <2> QED BY <1>1, <2>1, <2>3, <2>4, <2>5, <2>6, <2>7, <2>8, AnsweredKeeps
  <1>5. CASE inbox.kind = "Command"
    <2>1. /\ want' = [d \in Client |-> want[d]] /\ UNCHANGED <<ee, bound>>
      BY <1>5 DEF TakePacket
    <2>2. want' = want  BY <2>1 DEF SifInv, SifType
    <2>3. SifType'  BY <1>1, <2>1, <2>2 DEF SifInv, SifType
    <2>4. Alone'  BY <2>2, AloneKept DEF Flow
    <2>5. OnTheWay(st)'  BY <1>1, <2>2, OnTheWayKept DEF Flow
    <2>6. InService(st, q)'  BY <1>1, <2>2, InServiceKept DEF Flow
    <2>7. ComingBack(st, n)'
      BY <1>1, <1>a, <2>2 DEF Flow, ComingBack, Unsent, Carries, Ends, Greeted
    <2>8. Fetching(st)'
      BY <1>1, <1>a, <2>1, <2>2 DEF Flow, Fetching
    <2> QED BY <2>3, <2>4, <2>5, <2>6, <2>7, <2>8, FlowNext
  <1> QED BY <1>2, <1>3, <1>4, <1>5, PacketParts

-----------------------------------------------------------------------------
(* The way there: from the channel into the IOP's buffer.                  *)
LEMMA PacketLandsKeeps ==
  ASSUME SifInv, PacketLands
  PROVE  SifInv'
  <1> PICK st \in Stage, q \in QueueOrNone, n \in Nat : Flow(st, q, n)  BY DEF SifInv
  <1> USE DEF eeVars, flagVars, rpcVars, threadVars, ringVars, backVars, keptVars
  <1>a. Nothing.kind = "Nothing"  BY DEF Nothing
  <1>1. /\ chan6 # Nothing /\ receive' = chan6 /\ chan6' = Nothing
        /\ buffer' = IF chan6.kind = "Call"
                     THEN [buffer EXCEPT ![chan6.server] = chan6.id] ELSE buffer
        /\ UNCHANGED <<eeVars, rpcVars, threadVars, ringVars, backVars, keptVars>>
    BY DEF PacketLands
  <1>2. chan6 \in Asked  BY <1>1 DEF SifInv, SifType
  <1>3. /\ want[chan6.client] = chan6
        /\ chan6.kind # "Init" => st = "chan"
        /\ chan6.kind = "Call" => ran[chan6.client] = 0
    BY <1>1 DEF Flow, OnTheWay
  <1>4. SifType'
    <2>1. buffer' \in [Server -> Id \cup {0}]
      BY <1>1, <1>2, AskedParts DEF SifInv, SifType
    <2> QED BY <1>1, <1>2, <2>1 DEF SifInv, SifType
  <1>5. Alone'  BY <1>1, AloneKept DEF Flow
  <1>6. CASE chan6.kind = "Init"
    <2>1. buffer' = buffer  BY <1>1, <1>6
    <2>2. OnTheWay(st)'  BY <1>1, <1>3, <1>6 DEF OnTheWay
    <2>3. InService(st, q)'  BY <1>1, <2>1, InServiceKept DEF Flow
    <2>4. ComingBack(st, n)'  BY <1>1, ComingBackKept DEF Flow
    <2>5. Fetching(st)'  BY <1>1, FetchingKept DEF Flow
    <2> QED BY <1>4, <1>5, <2>2, <2>3, <2>4, <2>5, FlowNext
  <1>7. CASE chan6.kind # "Init"
    <2>1. st = "chan"  BY <1>3, <1>7
    <2>2. NoneInService /\ NoneBack  BY <2>1, StageTells
    <2>3. OnTheWay("receive")'
      <3>1. chan6.kind = "Call" => buffer'[chan6.server] = chan6.id
        BY <1>1, <1>2, AskedParts DEF SifInv, SifType
      <3> QED BY <1>1, <1>3, <1>7, <3>1 DEF OnTheWay
    <2>4. InService("receive", q)'
      <3>1. NoneInService'  BY <1>1, <2>2, NoneInServiceKept
      <3> QED BY <3>1 DEF NoneInService, InService
    <2>5. ComingBack("receive", n)'
      <3>1. NoneBack'  BY <1>1, <2>2, NoneBackKept
      <3> QED BY <3>1 DEF NoneBack, ComingBack
    <2>6. Fetching("receive")'  BY <1>1, <2>1 DEF Flow, Fetching
    <2> QED BY <1>4, <1>5, <2>3, <2>4, <2>5, <2>6, FlowNext DEF Stage, QueueOrNone
  <1> QED BY <1>6, <1>7

(* What queueing a run adds to the ring: the runs there before it stay     *)
(* sent or unsent, and the new one, if it was taken, is the last.          *)
LEMMA EnqueueParts ==
  ASSUME SifType, NEW run \in Run, Enqueue(run)
  PROVE  /\ ring' \in Seq(Run) /\ (ring' = <<>> => channel' = "Idle")
         /\ \A m \in 1 .. Len(ring) : ring'[m] = ring[m] /\ (Unsent(m)' <=> Unsent(m))
         /\ \A m \in 1 .. Len(ring') : m \notin 1 .. Len(ring) => ring'[m] = run
         /\ Len(ring') \in {Len(ring), Len(ring) + 1}
  <1>a. ring \in Seq(Run) /\ (ring = <<>> => channel = "Idle") /\ Len(ring) \in Nat
    BY DEF SifType
  <1>1. CASE ~Room
    BY <1>1, <1>a DEF Enqueue, ringVars, Unsent
  <1>2. CASE Room
    <2>1. /\ ring' = Append(ring, run)
          /\ channel' = IF ring = <<>> THEN "Busy" ELSE channel
      BY <1>2 DEF Enqueue
    <2>2. /\ ring' \in Seq(Run) /\ ring' # <<>> /\ Len(ring') = Len(ring) + 1
          /\ \A m \in 1 .. Len(ring) : ring'[m] = ring[m]
          /\ ring'[Len(ring) + 1] = run
      BY <1>a, <2>1
    <2>3. ASSUME NEW m \in 1 .. Len(ring) PROVE channel' = channel
      BY <1>a, <2>1, <2>3
    <2>4. ASSUME NEW m \in 1 .. Len(ring) PROVE Unsent(m)' <=> Unsent(m)
      BY <2>2, <2>3 DEF Unsent
    <2>5. ASSUME NEW m \in 1 .. Len(ring'), m \notin 1 .. Len(ring)
          PROVE  ring'[m] = run
      <3>1. m = Len(ring) + 1  BY <1>a, <2>2, <2>5
      <3> QED BY <2>2, <3>1
    <2> QED BY <2>2, <2>4, <2>5
  <1> QED BY <1>1, <1>2

LEMMA OwnParts ==
  /\ Own \in Run /\ Own.from = "outgoing" /\ Own.to = Nobody /\ Own.result = 0
  /\ \A c \in Client, i \in Id :
        /\ LET run == [Own EXCEPT !.from = "payload", !.to = c]
           IN  run \in Run /\ run.from = "payload" /\ run.to = c
        /\ LET run == [Own EXCEPT !.result = i, !.to = c]
           IN  run \in Run /\ run.from = "outgoing" /\ run.to = c /\ run.result = i
  BY DEF Own, Run

(* A run that is queued when nothing else is on the way back is the only   *)
(* unsent one, at the end of the ring; or it was not taken.                *)
LEMMA EnqueueComes ==
  ASSUME SifType, NoneBack, NEW run \in Run, Enqueue(run), inbox' = inbox,
         Carries(run)', NEW n, n = Len(ring) + 1
  PROVE  ComingBack("ring", n)'
  <1>1. ASSUME NEW m \in 1 .. Len(ring'), Unsent(m)'
        PROVE  n = m /\ Carries(ring[m])'
    <2>1. m \notin 1 .. Len(ring)  BY <1>1, EnqueueParts DEF NoneBack
    <2>2. ring'[m] = run  BY <2>1, EnqueueParts
    <2>3. n = m  BY <2>1, EnqueueParts DEF SifType
    <2>4. Carries(ring[m])'  BY <2>2 DEF Carries
    <2> QED BY <2>3, <2>4
  <1> QED BY <1>1 DEF NoneBack, ComingBack

(* The IOP serves the packet: what it asks for is on its way back, or kept *)
(* for a thread, or refused by a full ring.                                *)
LEMMA ServeAnswers ==
  ASSUME SifInv, NEW st \in Stage, NEW q \in QueueOrNone, NEW n \in Nat, Flow(st, q, n),
         NoneInService, NoneBack, chan6 = Nothing, chan6' = Nothing, receive' = Nothing,
         NEW run \in Run, Enqueue(run), Carries(run)', run.from # "sender",
         outgoing' \in Packet, payload' \in Id \cup {0}, listening' \in {listening, TRUE},
         \E c \in Client : /\ want[c] # Nothing
                           /\ want[c].kind = "File" => armed5
                           /\ listening' # listening => want[c].kind = "InitRpc",
         UNCHANGED <<eeVars, rpcVars, threadVars, buffer, backVars, registered, sender>>
  PROVE  SifInv'
  <1> USE DEF eeVars, rpcVars, threadVars, backVars
  <1>a. Nothing.kind = "Nothing"  BY DEF Nothing
  <1>b. PICK c \in Client : /\ want[c] # Nothing
                            /\ want[c].kind = "File" => armed5
                            /\ listening' # listening => want[c].kind = "InitRpc"
    OBVIOUS
  <1>c. \A d \in Client \ {c} : want[d] = Nothing  BY <1>b DEF Flow, Alone
  <1>1. SifType'
    <2>1. ring' \in Seq(Run) /\ (ring' = <<>> => channel' = "Idle")
      BY EnqueueParts DEF SifInv
    <2> QED BY <2>1 DEF SifInv, SifType
  <1>2. Alone'  BY AloneKept DEF Flow
  <1>3. OnTheWay("ring")'  BY DEF OnTheWay
  <1>4. InService("ring", q)'
    <2>1. NoneInService'  BY NoneInServiceKept
    <2> QED BY <2>1 DEF NoneInService, InService
  <1>5. PICK m \in Nat : m = Len(ring) + 1  BY DEF SifInv, SifType
  <1>6. ComingBack("ring", m)'  BY <1>5, EnqueueComes DEF SifInv
  <1>7. Fetching("ring")'
    <2>1. ASSUME NEW d \in Client, want[d].kind = "File"
          PROVE  ~listening' /\ armed5
      <3>1. d = c  BY <1>a, <1>c, <2>1
      <3> QED BY <1>b, <2>1, <3>1 DEF Flow, Fetching
    <2>2. ASSUME ~listening'
          PROVE  inbox'.kind # "Command" /\ \A i \in 1 .. Len(ring') : ring'[i].from # "sender"
      <3>1. ~listening  BY <2>2
      <3>2. inbox.kind # "Command" /\ \A i \in 1 .. Len(ring) : ring[i].from # "sender"
        BY <3>1 DEF Flow, Fetching
      <3> QED BY <3>2, EnqueueParts DEF SifInv
    <2>3. ee = "Met" /\ listening' => \E d \in Client : want[d].kind \in {"Init", "InitRpc"}
      BY <1>b DEF Flow, Fetching
    <2>4. ee \in {"Off", "Raised"} => ~listening' /\ \A d \in Client : want[d] = Nothing
      BY <1>b DEF Flow, Fetching
    <2> QED BY <2>1, <2>2, <2>3, <2>4 DEF Fetching
  <1> QED BY <1>1, <1>2, <1>3, <1>4, <1>6, <1>7, FlowNext DEF Stage, QueueOrNone

LEMMA ServeCallKeeps ==
  ASSUME SifInv, NEW st \in Stage, NEW q \in QueueOrNone, NEW n \in Nat, Flow(st, q, n),
         NoneInService, NoneBack, chan6 = Nothing, chan6' = Nothing, receive' = Nothing,
         receive \in Asked, receive.kind = "Call", want[receive.client] = receive,
         buffer[receive.server] = receive.id, ran[receive.client] = 0,
         st = "receive", ServeCall(receive),
         UNCHANGED <<eeVars, buffer, registered, sender, backVars>>
  PROVE  SifInv'
  <1> USE DEF eeVars, ringVars, backVars
  <1>r. /\ receive.server \in Server /\ Owner[receive.server] \in RpcQueue
        /\ receive.client \in Client /\ receive.id \in Id
    BY AskedParts, SifConstants
  <1> PICK s \in Server : s = receive.server  BY <1>r
  <1> PICK p \in RpcQueue : p = Owner[s]  BY <1>r
  <1>a. s # Nobody /\ receive.client \in Client /\ receive.id \in Id
    BY <1>r, SifConstants
  <1>b. pending[p] = Nobody  BY <1>a DEF NoneInService
  <1>1. /\ request' = [request EXCEPT ![s] = [client |-> receive.client, id |-> receive.id]]
        /\ pending' = [pending EXCEPT ![p] = s]
        /\ nextPending' = [nextPending EXCEPT ![s] = Nobody]
        /\ phase' = [phase EXCEPT ![p] = IF @ = "Asleep" THEN "Loop" ELSE @]
        /\ wakeups' = [wakeups EXCEPT ![p] = IF phase[p] = "Asleep" THEN @ ELSE @ + 1]
        /\ UNCHANGED <<serving, answer, listening, payload, outgoing, ring, channel>>
    BY <1>b DEF ServeCall, IWakeup
  <1>2. SifType'
    <2>1. request' \in [Server -> [client : Client \cup {Nobody}, id : Id \cup {0}]]
      BY <1>a, <1>1 DEF SifInv, SifType
    <2>2. pending' \in [RpcQueue -> Server \cup {Nobody}]
      BY <1>a, <1>1 DEF SifInv, SifType
    <2>3. nextPending' = [t \in Server |-> Nobody]
      BY <1>a, <1>1 DEF SifInv, SifType
    <2>4. phase' \in [RpcQueue -> Phase] /\ wakeups' \in [RpcQueue -> Nat]
      BY <1>a, <1>1 DEF SifInv, SifType, Phase
    <2> QED BY <1>1, <2>1, <2>2, <2>3, <2>4 DEF SifInv, SifType
  <1>3. Alone'  BY AloneKept DEF Flow
  <1>4. OnTheWay("pending")'  BY DEF OnTheWay
  <1>5. InService("pending", p)'
    <2>1. /\ pending'[p] = s
          /\ \A r \in RpcQueue \ {p} : pending'[r] = Nobody
          /\ \A r \in RpcQueue : phase'[r] \notin {"Serve", "Fill", "Send"}
      BY <1>a, <1>1 DEF SifInv, SifType, NoneInService
    <2>2. request'[s].client = receive.client /\ request'[s].id = receive.id
      BY <1>a, <1>1 DEF SifInv, SifType
    <2>3. Called(s)'  BY <1>a, <2>2 DEF Called
    <2>4. buffer'[s] = request'[s].id /\ ran'[request'[s].client] = 0
      BY <2>2
    <2> QED BY <2>1, <2>3, <2>4 DEF InService
  <1>6. ComingBack("pending", n)'
    <2>1. NoneBack'  BY <1>1, NoneBackKept
    <2> QED BY <2>1 DEF NoneBack, ComingBack
  <1>7. Fetching("pending")'  BY <1>1 DEF Flow, Fetching
  <1> QED BY <1>a, <1>2, <1>3, <1>4, <1>5, <1>6, <1>7, FlowNext DEF Stage, QueueOrNone

LEMMA ServePacketKeeps ==
  ASSUME SifInv, ServePacket
  PROVE  SifInv'
  <1> PICK st \in Stage, q \in QueueOrNone, n \in Nat : Flow(st, q, n)  BY DEF SifInv
  <1> USE DEF eeVars, rpcVars, threadVars, ringVars, backVars
  <1> DEFINE r == receive
  <1>a. Nothing.kind = "Nothing"  BY DEF Nothing
  <1>1. /\ receive # Nothing /\ receive' = Nothing
        /\ UNCHANGED <<chan6, buffer, registered, sender, eeVars, backVars>>
    BY DEF ServePacket
  <1>2. receive \in Asked  BY <1>1 DEF SifInv, SifType
  <1>3. /\ receive.kind \in {"File", "Init", "InitRpc", "Bind", "Call"}
        /\ receive.client \in Client /\ receive.id \in Id
        /\ receive.kind \in {"Bind", "Call"} => receive.server \in Server
    BY <1>2, AskedParts
  <1>4. CASE receive.kind = "Init"
    <2>1. /\ listening' = TRUE
          /\ UNCHANGED <<payload, rpcVars, threadVars, outgoing, ringVars>>
      BY <1>4 DEF ServePacket, ServeInit
    <2>2. want[receive.client].kind \in {"Init", "InitRpc"}
      BY <1>1, <1>4 DEF Flow, OnTheWay
    <2>3. \A d \in Client \ {receive.client} : want[d] = Nothing
      BY <1>a, <1>3, <2>2 DEF Flow, Alone
    <2>4. SifType'  BY <1>1, <2>1 DEF SifInv, SifType
    <2>5. Alone'  BY <1>1, AloneKept DEF Flow
    <2>6. OnTheWay(st)'  BY <1>1 DEF Flow, OnTheWay
    <2>7. InService(st, q)'  BY <1>1, <2>1, InServiceKept DEF Flow
    <2>8. ComingBack(st, n)'  BY <1>1, <2>1, ComingBackKept DEF Flow
    <2>9. Fetching(st)'
      <3>1. \A d \in Client : want[d].kind # "File"  BY <1>a, <2>2, <2>3
      <3>2. ee \notin {"Off", "Raised"}  BY <1>3, <1>a, <2>2 DEF Flow, Fetching
      <3> QED BY <1>1, <1>3, <2>1, <2>2, <3>1, <3>2 DEF Fetching
    <2> QED BY <2>4, <2>5, <2>6, <2>7, <2>8, <2>9, FlowNext
  <1>5. CASE receive.kind # "Init"
    <2>1. /\ st = "receive" /\ want[receive.client] = receive
          /\ receive.kind = "Call" => /\ buffer[receive.server] = receive.id
                                      /\ ran[receive.client] = 0
      BY <1>1, <1>5 DEF Flow, OnTheWay
    <2>2. NoneInService /\ NoneBack  BY <2>1, StageTells
    <2>3. \A d \in Client \ {receive.client} : want[d] = Nothing
      BY <1>1, <1>3, <2>1 DEF Flow, Alone
    <2>4. chan6 = Nothing /\ chan6' = Nothing
      <3>1. chan6 # Nothing => chan6 \in Asked /\ chan6.kind = "Init"
                               /\ want[chan6.client] = chan6
        BY <2>1 DEF Flow, OnTheWay, SifInv, SifType
      <3>2. chan6 # Nothing => chan6.client = receive.client
        BY <2>3, <3>1, AskedParts
      <3> QED BY <1>1, <1>5, <2>1, <3>1, <3>2
    <2>5. outgoing \in Packet /\ payload \in Id \cup {0}  BY DEF SifInv, SifType
    <2>6. CASE receive.kind = "InitRpc"
      <3>1. /\ listening' = TRUE /\ UNCHANGED <<payload, rpcVars, threadVars>>
            /\ outgoing' = [kind |-> "SetSreg"] /\ Enqueue(Own)
        BY <2>6 DEF ServePacket, ServeInit
      <3>2. outgoing' \in Packet /\ outgoing'.kind = "SetSreg"
        BY <3>1 DEF Packet
      <3>3. Greeted'  BY <1>1, <1>3, <2>1, <2>6 DEF Greeted
      <3>4. Carries(Own)'  BY <3>2, <3>3, OwnParts DEF Carries, Own
      <3>5. \E c \in Client : /\ want[c] # Nothing
                              /\ want[c].kind = "File" => armed5
                              /\ listening' # listening => want[c].kind = "InitRpc"
        BY <1>1, <1>3, <2>1, <2>6
      <3>6. Own \in Run /\ Own.from # "sender"  BY OwnParts
      <3> QED BY <1>1, <2>2, <2>4, <2>5, <3>1, <3>2, <3>4, <3>5, <3>6, ServeAnswers
    <2>7. CASE receive.kind = "Bind"
      <3> DEFINE found == IF receive.server \in registered THEN receive.server ELSE Nobody
      <3>1. /\ outgoing' = End("Bind", receive, found) /\ Enqueue(Own)
            /\ UNCHANGED <<listening, payload, rpcVars, threadVars>>
        BY <2>7 DEF ServePacket, ServeBind
      <3>2. /\ outgoing' \in Packet /\ outgoing'.kind = "End" /\ outgoing'.cid = "Bind"
            /\ outgoing'.client = receive.client /\ outgoing'.id = receive.id
        BY <1>3, <2>7, <3>1 DEF Packet, End
      <3>3. Ends(outgoing)'  BY <1>1, <2>1, <2>7, <3>2 DEF Ends
      <3>4. Carries(Own)'  BY <3>2, <3>3, OwnParts DEF Carries, Own
      <3>5. \E c \in Client : /\ want[c] # Nothing
                              /\ want[c].kind = "File" => armed5
                              /\ listening' # listening => want[c].kind = "InitRpc"
        BY <1>1, <1>3, <2>1, <2>7, <3>1
      <3>6. Own \in Run /\ Own.from # "sender"  BY OwnParts
      <3> QED BY <1>1, <2>2, <2>4, <2>5, <3>1, <3>2, <3>4, <3>5, <3>6, ServeAnswers
    <2>8. CASE receive.kind = "File"
      <3> DEFINE run == [Own EXCEPT !.from = "payload", !.to = receive.client]
      <3>1. /\ payload' = receive.id /\ Enqueue(run)
            /\ UNCHANGED <<listening, outgoing, rpcVars, threadVars>>
        BY <2>8 DEF ServePacket, ServeFile
      <3>2. run \in Run /\ run.from = "payload" /\ run.to = receive.client
        BY <1>3, OwnParts
      <3> HIDE DEF run
      <3>3. PICK e : e = run  OBVIOUS
      <3>4. Carries(e)'
        BY <1>1, <1>3, <2>1, <2>8, <3>1, <3>2, <3>3 DEF Carries
      <3>5. \E c \in Client : /\ want[c] # Nothing
                              /\ want[c].kind = "File" => armed5
                              /\ listening' # listening => want[c].kind = "InitRpc"
        <4>1. armed5  BY <1>3, <2>1, <2>8 DEF Flow, Fetching
        <4> QED BY <1>1, <1>3, <2>1, <3>1, <4>1
      <3> QED BY <1>1, <1>3, <2>2, <2>4, <2>5, <3>1, <3>2, <3>3, <3>4, <3>5, ServeAnswers
    <2>9. CASE receive.kind = "Call"
      <3>1. ServeCall(receive)  BY <2>9 DEF ServePacket
      <3> QED BY <1>1, <1>2, <2>1, <2>2, <2>4, <2>9, <3>1, ServeCallKeeps
    <2> QED BY <1>3, <1>5, <2>6, <2>7, <2>8, <2>9
  <1> QED BY <1>4, <1>5

-----------------------------------------------------------------------------
(* A queue's thread.                                                       *)
LEMMA SleepKeeps ==
  ASSUME SifInv, NEW p \in RpcQueue, Sleep(p)
  PROVE  SifInv'
  <1> PICK st \in Stage, q \in QueueOrNone, n \in Nat : Flow(st, q, n)  BY DEF SifInv
  <1> USE DEF eeVars, flagVars, rpcVars, ringVars, inVars, backVars, keptVars
  <1>1. /\ phase[p] = "Empty" /\ phase' = [phase EXCEPT ![p] = IF wakeups[p] > 0 THEN "Loop" ELSE "Asleep"]
        /\ wakeups' = [wakeups EXCEPT ![p] = IF @ > 0 THEN @ - 1 ELSE @]
        /\ UNCHANGED <<serving, answer, eeVars, rpcVars, ringVars, inVars, backVars, keptVars>>
    BY DEF Sleep
  <1>2. SifType'
    <2>1. phase' \in [RpcQueue -> Phase] /\ wakeups' \in [RpcQueue -> Nat]
      BY <1>1 DEF SifInv, SifType, Phase
    <2> QED BY <1>1, <2>1 DEF SifInv, SifType
  <1>3. Alone'  BY <1>1, AloneKept DEF Flow
  <1>4. OnTheWay(st)'  BY <1>1, OnTheWayKept DEF Flow
  <1>5. InService(st, q)'
    <2>1. \A r \in RpcQueue : phase'[r] \in {"Serve", "Fill", "Send"} => phase'[r] = phase[r]
      BY <1>1 DEF SifInv, SifType
    <2> QED BY <1>1, <2>1 DEF Flow, InService, Called, End
  <1>6. ComingBack(st, n)'  BY <1>1, ComingBackKept DEF Flow
  <1>7. Fetching(st)'  BY <1>1, FetchingKept DEF Flow
  <1> QED BY <1>2, <1>3, <1>4, <1>5, <1>6, <1>7, FlowNext

LEMMA TakePendingKeeps ==
  ASSUME SifInv, NEW p \in RpcQueue, TakePending(p)
  PROVE  SifInv'
  <1> PICK st \in Stage, q \in QueueOrNone, n \in Nat : Flow(st, q, n)  BY DEF SifInv
  <1> USE DEF eeVars, flagVars, rpcVars, ringVars, inVars, backVars, keptVars
  <1>1. /\ phase[p] = "Loop"
        /\ UNCHANGED <<request, answer, wakeups, eeVars, ringVars, inVars, backVars, keptVars>>
    BY DEF TakePending
  <1>2. Alone'  BY <1>1, AloneKept DEF Flow
  <1>3. OnTheWay(st)'  BY <1>1, OnTheWayKept DEF Flow
  <1>4. ComingBack(st, n)'  BY <1>1, ComingBackKept DEF Flow
  <1>5. Fetching(st)'  BY <1>1, FetchingKept DEF Flow
  <1>6. CASE pending[p] = Nobody
    <2>1. /\ phase' = [phase EXCEPT ![p] = "Empty"]
          /\ UNCHANGED <<pending, nextPending, serving>>
      BY <1>6 DEF TakePending
    <2>2. SifType'  BY <1>1, <2>1 DEF SifInv, SifType, Phase
    <2>3. InService(st, q)'
      <3>1. \A r \in RpcQueue : phase'[r] \in {"Serve", "Fill", "Send"} => phase'[r] = phase[r]
        BY <2>1 DEF SifInv, SifType
      <3> QED BY <1>1, <2>1, <3>1 DEF Flow, InService, Called, End
    <2> QED BY <1>2, <1>3, <1>4, <1>5, <2>2, <2>3, FlowNext
  <1>7. CASE pending[p] # Nobody
    <2> PICK s \in Server : s = pending[p]  BY <1>7 DEF SifInv, SifType
    <2>1. /\ phase' = [phase EXCEPT ![p] = "Serve"]
          /\ serving' = [serving EXCEPT ![p] = s]
          /\ pending' = [pending EXCEPT ![p] = nextPending[s]]
          /\ nextPending' = [nextPending EXCEPT ![s] = Nobody]
      BY <1>7 DEF TakePending
    <2>2. nextPending[s] = Nobody /\ nextPending' = nextPending
      BY <2>1 DEF SifInv, SifType
    <2>3. SifType'
      <3>1. pending' \in [RpcQueue -> Server \cup {Nobody}]
            /\ serving' \in [RpcQueue -> Server \cup {Nobody}]
        BY <2>1, <2>2 DEF SifInv, SifType
      <3>2. phase' \in [RpcQueue -> Phase]  BY <2>1 DEF SifInv, SifType, Phase
      <3> QED BY <1>1, <2>2, <3>1, <3>2 DEF SifInv, SifType
    <2>4. /\ st = "pending" /\ q = p /\ Called(s)
          /\ buffer[s] = request[s].id /\ ran[request[s].client] = 0
          /\ \A r \in RpcQueue : phase[r] \notin {"Serve", "Fill", "Send"}
          /\ \A r \in RpcQueue \ {p} : pending[r] = Nobody
      BY <1>7 DEF Flow, InService
    <2>5. InService("serve", p)'
      <3>1. /\ phase'[p] = "Serve" /\ serving'[p] = s /\ pending'[p] = Nobody
            /\ \A r \in RpcQueue \ {p} : phase'[r] = phase[r] /\ pending'[r] = pending[r]
        BY <2>1, <2>2 DEF SifInv, SifType
      <3>2. Called(s)'  BY <1>1, <2>4 DEF Called
      <3> QED BY <1>1, <2>4, <3>1, <3>2 DEF InService
    <2>6. OnTheWay("serve")'  BY <1>3, <2>4 DEF OnTheWay
    <2>7. ComingBack("serve", n)'
      <3>1. NoneBack'  BY <1>1, <2>4, StageTells, NoneBackKept
      <3> QED BY <3>1 DEF NoneBack, ComingBack
    <2>8. Fetching("serve")'  BY <1>5, <2>4 DEF Fetching
    <2> QED BY <1>2, <2>3, <2>5, <2>6, <2>7, <2>8, FlowNext DEF Stage, QueueOrNone
  <1> QED BY <1>6, <1>7

(* Where a thread that serves stands.                                      *)
LEMMA ServingParts ==
  ASSUME SifType, NEW st \in Stage, NEW q \in QueueOrNone, NEW n \in Nat, Flow(st, q, n),
         NEW p \in RpcQueue, phase[p] \in {"Serve", "Fill", "Send"}
  PROVE  /\ st = "serve" /\ q = p /\ serving[p] \in Server /\ Called(serving[p])
         /\ phase[p] = "Serve" => /\ buffer[serving[p]] = request[serving[p]].id
                                  /\ ran[request[serving[p]].client] = 0
         /\ phase[p] # "Serve" => /\ answer[p] = request[serving[p]].id
                                  /\ ran[request[serving[p]].client] = 1
         /\ phase[p] = "Send" => outgoing = End("Call", request[serving[p]], serving[p])
         /\ \A r \in RpcQueue : pending[r] = Nobody
         /\ \A r \in RpcQueue \ {p} : phase[r] \notin {"Serve", "Fill", "Send"}
         /\ NoneBack /\ receive.kind \in {"Nothing", "Init"}
         /\ \A d \in Client \ {request[serving[p]].client} : want[d] = Nothing
         /\ chan6 = Nothing /\ receive = Nothing
  <1>a. Nothing.kind = "Nothing"  BY DEF Nothing
  <1>1. /\ st = "serve" /\ q = p /\ serving[p] \in Server /\ Called(serving[p])
        /\ phase[p] = "Serve" => /\ buffer[serving[p]] = request[serving[p]].id
                                 /\ ran[request[serving[p]].client] = 0
        /\ phase[p] # "Serve" => /\ answer[p] = request[serving[p]].id
                                 /\ ran[request[serving[p]].client] = 1
        /\ phase[p] = "Send" => outgoing = End("Call", request[serving[p]], serving[p])
    BY DEF Flow, InService
  <1>2. /\ \A r \in RpcQueue : pending[r] = Nobody
        /\ \A r \in RpcQueue \ {p} : phase[r] \notin {"Serve", "Fill", "Send"}
    BY <1>1 DEF Flow, InService
  <1>3. NoneBack  BY <1>1, StageTells
  <1>4. \A d \in Client \ {request[serving[p]].client} : want[d] = Nothing
    BY <1>1, <1>a DEF Flow, Alone, Called
  <1>5. \A d \in Client : want[d].kind \in {"Nothing", "Call"}
    BY <1>1, <1>4, <1>a DEF Called
  <1>6. chan6 = Nothing
    <2>1. chan6 # Nothing => chan6.client \in Client /\ chan6.kind = "Init"
                             /\ want[chan6.client] = chan6
      BY <1>1, AskedParts DEF Flow, OnTheWay, SifType
    <2> QED BY <1>5, <2>1
  <1>7. receive = Nothing
    <2>1. receive # Nothing => receive.client \in Client /\ receive.kind = "Init"
      BY <1>1, AskedParts DEF Flow, OnTheWay, SifType
    <2>2. receive # Nothing => want[receive.client].kind \in {"Init", "InitRpc"}
      BY <2>1 DEF Flow, OnTheWay
    <2> QED BY <1>5, <2>1, <2>2
  <1> QED BY <1>1, <1>2, <1>3, <1>4, <1>6, <1>7, <1>a

LEMMA RunFunctionKeeps ==
  ASSUME SifInv, NEW p \in RpcQueue, RunFunction(p)
  PROVE  SifInv'
  <1> PICK st \in Stage, q \in QueueOrNone, n \in Nat : Flow(st, q, n)  BY DEF SifInv
  <1> USE DEF flagVars, rpcVars, ringVars, inVars, backVars, keptVars
  <1>1. /\ phase[p] = "Serve" /\ phase' = [phase EXCEPT ![p] = "Fill"]
        /\ answer' = [answer EXCEPT ![p] = buffer[serving[p]]]
        /\ ran' = [ran EXCEPT ![request[serving[p]].client] = @ + 1]
        /\ UNCHANGED <<ee, want, rpcId, bound, serving, wakeups, rpcVars, ringVars>>
        /\ UNCHANGED <<inVars, backVars, keptVars>>
    BY DEF RunFunction
  <1> PICK s \in Server, c \in Client : s = serving[p] /\ c = request[s].client
    BY <1>1, ServingParts DEF Called, SifInv
  <1>2. /\ st = "serve" /\ q = p /\ Called(s) /\ buffer[s] = request[s].id /\ ran[c] = 0
        /\ \A r \in RpcQueue : pending[r] = Nobody
        /\ \A r \in RpcQueue \ {p} : phase[r] \notin {"Serve", "Fill", "Send"}
        /\ NoneBack /\ chan6 = Nothing /\ receive = Nothing
    BY <1>1, ServingParts DEF SifInv
  <1>3. ran'[c] = 1 /\ ran' \in [Client -> Nat]
    BY <1>1, <1>2 DEF SifInv, SifType
  <1>4. SifType'
    <2>1. buffer[s] \in Id \cup {0}  BY DEF SifInv, SifType
    <2>2. answer' \in [RpcQueue -> Id \cup {0}]  BY <1>1, <2>1 DEF SifInv, SifType
    <2>3. phase' \in [RpcQueue -> Phase]  BY <1>1 DEF SifInv, SifType, Phase
    <2> QED BY <1>1, <1>3, <2>2, <2>3 DEF SifInv, SifType
  <1>5. Alone'  BY <1>1, AloneKept DEF Flow
  <1>6. OnTheWay("serve")'  BY <1>1, <1>2 DEF OnTheWay
  <1>7. InService("serve", p)'
    <2>1. Called(s)'  BY <1>1, <1>2 DEF Called
    <2>2. /\ phase'[p] = "Fill" /\ answer'[p] = request'[s].id
          /\ serving'[p] = s /\ ran'[request'[s].client] = 1
          /\ \A r \in RpcQueue : pending'[r] = Nobody
          /\ \A r \in RpcQueue \ {p} : phase'[r] \notin {"Serve", "Fill", "Send"}
      BY <1>1, <1>2, <1>3 DEF SifInv, SifType
    <2> QED BY <2>1, <2>2 DEF InService
  <1>8. ComingBack("serve", n)'
    <2>1. NoneBack'  BY <1>1, <1>2, NoneBackKept
    <2> QED BY <2>1 DEF NoneBack, ComingBack
  <1>9. Fetching("serve")'  BY <1>1, <1>2, FetchingKept DEF Flow
  <1> QED BY <1>4, <1>5, <1>6, <1>7, <1>8, <1>9, FlowNext DEF Stage, QueueOrNone

LEMMA FillEndKeeps ==
  ASSUME SifInv, NEW p \in RpcQueue, FillEnd(p)
  PROVE  SifInv'
  <1> PICK st \in Stage, q \in QueueOrNone, n \in Nat : Flow(st, q, n)  BY DEF SifInv
  <1> USE DEF eeVars, flagVars, rpcVars, ringVars, inVars, backVars
  <1>1. /\ phase[p] = "Fill" /\ phase' = [phase EXCEPT ![p] = "Send"]
        /\ outgoing' = End("Call", request[serving[p]], serving[p])
        /\ UNCHANGED <<serving, answer, wakeups, listening, payload, registered, sender>>
        /\ UNCHANGED <<eeVars, rpcVars, ringVars, inVars, backVars>>
    BY DEF FillEnd
  <1> PICK s \in Server : s = serving[p]  BY <1>1, ServingParts DEF SifInv
  <1>2. /\ st = "serve" /\ q = p /\ Called(s)
        /\ answer[p] = request[s].id /\ ran[request[s].client] = 1
        /\ \A r \in RpcQueue : pending[r] = Nobody
        /\ \A r \in RpcQueue \ {p} : phase[r] \notin {"Serve", "Fill", "Send"}
        /\ NoneBack /\ chan6 = Nothing /\ receive = Nothing
    BY <1>1, ServingParts DEF SifInv
  <1>3. SifType'
    <2>1. request[s].client \in Client /\ request[s].id \in Id
      <3>1. request[s].client \in Client  BY <1>2 DEF Called
      <3>2. want[request[s].client] # Nothing  BY <1>2 DEF Called, Nothing
      <3>3. want[request[s].client] \in Asked  BY <3>1, <3>2 DEF SifInv, SifType
      <3> QED BY <1>2, <3>1, <3>3, AskedParts DEF Called
    <2>2. outgoing' \in Packet  BY <1>1, <2>1 DEF Packet, End
    <2>3. phase' \in [RpcQueue -> Phase]  BY <1>1 DEF SifInv, SifType, Phase
    <2> QED BY <1>1, <2>2, <2>3 DEF SifInv, SifType
  <1>4. Alone'  BY <1>1, AloneKept DEF Flow
  <1>5. OnTheWay("serve")'  BY <1>1, <1>2 DEF OnTheWay
  <1>6. InService("serve", p)'
    <2>1. Called(s)'  BY <1>1, <1>2 DEF Called
    <2>2. /\ phase'[p] = "Send" /\ answer'[p] = request'[s].id
          /\ serving'[p] = s /\ ran'[request'[s].client] = 1
          /\ \A r \in RpcQueue : pending'[r] = Nobody
          /\ \A r \in RpcQueue \ {p} : phase'[r] \notin {"Serve", "Fill", "Send"}
      BY <1>1, <1>2 DEF SifInv, SifType
    <2>3. outgoing' = End("Call", request[s], s)'
      BY <1>1 DEF End
    <2> QED BY <2>1, <2>2, <2>3 DEF InService
  <1>7. ComingBack("serve", n)'
    <2>1. NoneBack'  BY <1>1, <1>2, NoneBackKept
    <2> QED BY <2>1 DEF NoneBack, ComingBack
  <1>8. Fetching("serve")'  BY <1>1, <1>2, FetchingKept DEF Flow
  <1> QED BY <1>3, <1>4, <1>5, <1>6, <1>7, <1>8, FlowNext DEF Stage, QueueOrNone

LEMMA SendEndKeeps ==
  ASSUME SifInv, NEW p \in RpcQueue, SendEnd(p)
  PROVE  SifInv'
  <1> PICK st \in Stage, q \in QueueOrNone, n \in Nat : Flow(st, q, n)  BY DEF SifInv
  <1> USE DEF eeVars, flagVars, rpcVars, inVars, backVars, keptVars
  <1>1. /\ phase[p] = "Send" /\ phase' = [phase EXCEPT ![p] = "Loop"]
        /\ Enqueue([Own EXCEPT !.result = answer[p], !.to = request[serving[p]].client])
        /\ serving' = [serving EXCEPT ![p] = Nobody]
        /\ answer' = [answer EXCEPT ![p] = 0]
        /\ UNCHANGED <<wakeups, eeVars, rpcVars, inVars, backVars, keptVars>>
    BY DEF SendEnd
  <1> PICK s \in Server, c \in Client : s = serving[p] /\ c = request[s].client
    BY <1>1, ServingParts DEF Called, SifInv
  <1>2. /\ st = "serve" /\ q = p /\ Called(s)
        /\ answer[p] = request[s].id /\ ran[c] = 1 /\ outgoing = End("Call", request[s], s)
        /\ \A r \in RpcQueue : pending[r] = Nobody
        /\ \A r \in RpcQueue \ {p} : phase[r] \notin {"Serve", "Fill", "Send"}
        /\ NoneBack /\ chan6 = Nothing /\ receive = Nothing
    BY <1>1, ServingParts DEF SifInv
  <1>3. request[s].id \in Id
    <2>1. want[c] # Nothing  BY <1>2 DEF Called, Nothing
    <2>2. want[c] \in Asked  BY <2>1 DEF SifInv, SifType
    <2> QED BY <1>2, <2>2, AskedParts DEF Called
  <1> PICK i \in Id : i = answer[p] /\ i = request[s].id  BY <1>2, <1>3
  <1> PICK run : run = [Own EXCEPT !.result = i, !.to = c]  OBVIOUS
  <1>4. /\ Enqueue(run) /\ run \in Run /\ run.from = "outgoing" /\ run.to = c
        /\ run.result = request[s].id
    <2>1. /\ run \in Run /\ run.from = "outgoing" /\ run.to = c /\ run.result = i
      BY DEF Own, Run
    <2>2. run = [Own EXCEPT !.result = answer[p], !.to = request[serving[p]].client]
      OBVIOUS
    <2>3. Enqueue(run)  BY <1>1, <2>2
    <2> QED BY <2>1, <2>3
  <1>5. SifType'
    <2>1. ring' \in Seq(Run) /\ (ring' = <<>> => channel' = "Idle")
      BY <1>4, EnqueueParts DEF SifInv
    <2>2. phase' \in [RpcQueue -> Phase] /\ serving' \in [RpcQueue -> Server \cup {Nobody}]
          /\ answer' \in [RpcQueue -> Id \cup {0}]
      BY <1>1 DEF SifInv, SifType, Phase
    <2> QED BY <1>1, <2>1, <2>2 DEF SifInv, SifType
  <1>6. Alone'  BY <1>1, AloneKept DEF Flow
  <1>7. OnTheWay("ring")'  BY <1>1, <1>2 DEF OnTheWay
  <1>8. InService("ring", q)'
    <2>1. \A r \in RpcQueue : pending'[r] = Nobody
                              /\ phase'[r] \notin {"Serve", "Fill", "Send"}
      BY <1>1, <1>2 DEF SifInv, SifType
    <2> QED BY <2>1 DEF InService
  <1> PICK m \in Nat : m = Len(ring) + 1  BY DEF SifInv, SifType
  <1>9. ComingBack("ring", m)'
    <2>1. /\ outgoing'.kind = "End" /\ outgoing'.cid = "Call" /\ outgoing'.client = c
          /\ outgoing'.id = request[s].id /\ outgoing'.server = s
      BY <1>1, <1>2 DEF End
    <2>2. Ends(outgoing)'  BY <1>1, <1>2, <2>1 DEF Ends, Called
    <2>3. Carries(run)'  BY <1>4, <2>1, <2>2 DEF Carries
    <2> QED BY <1>1, <1>2, <1>4, <2>3, EnqueueComes DEF SifInv
  <1>10. Fetching("ring")'
    <2>1. want[c].kind = "Call"  BY <1>2 DEF Called
    <2>2. \A d \in Client : want[d].kind # "File"
      BY <2>1 DEF Flow, Alone, Nothing
    <2>3. /\ ~listening => /\ inbox.kind # "Command"
                           /\ \A j \in 1 .. Len(ring) : ring[j].from # "sender"
          /\ ee = "Met" /\ listening =>
                \E d \in Client : want[d].kind \in {"Init", "InitRpc"}
          /\ ee \in {"Off", "Raised"} => ~listening /\ \A d \in Client : want[d] = Nothing
      BY DEF Flow, Fetching
    <2>4. ~listening => \A j \in 1 .. Len(ring') : ring'[j].from # "sender"
      <3>1. /\ \A j \in 1 .. Len(ring) : ring'[j] = ring[j]
            /\ \A j \in 1 .. Len(ring') : j \notin 1 .. Len(ring) => ring'[j] = run
        BY <1>4, EnqueueParts DEF SifInv
      <3>2. run.from # "sender"  BY <1>4
      <3> QED BY <2>3, <3>1, <3>2
    <2>5. UNCHANGED <<want, ee, listening, inbox>>  BY <1>1
    <2> HIDE DEF eeVars, inVars, backVars, keptVars
    <2> QED BY <2>2, <2>3, <2>4, <2>5 DEF Fetching
  <1> QED BY <1>5, <1>6, <1>7, <1>8, <1>9, <1>10, FlowNext DEF Stage, QueueOrNone

-----------------------------------------------------------------------------
(* The way back: the channel reads the bytes of the ring's head.           *)
LEMMA ChannelSendsKeeps ==
  ASSUME SifInv, ChannelSends
  PROVE  SifInv'
  <1> PICK st \in Stage, q \in QueueOrNone, n \in Nat : Flow(st, q, n)  BY DEF SifInv
  <1> USE DEF eeVars, rpcVars, threadVars, inVars, keptVars
  <1>a. Nothing.kind = "Nothing"  BY DEF Nothing
  <1> PICK run : run = Head(ring)  OBVIOUS
  <1>1. /\ channel = "Busy" /\ armed5 /\ channel' = "Done" /\ armed5' = FALSE
        /\ inbox' = CASE run.from = "outgoing" -> outgoing
                      [] run.from = "sender" -> [kind |-> "Command"]
                      [] OTHER -> inbox
        /\ received' = IF run.to = Nobody THEN received
                       ELSE [received EXCEPT ![run.to] =
                              IF run.from = "payload" THEN payload ELSE run.result]
        /\ UNCHANGED <<ring, eeVars, rpcVars, threadVars, inVars, keptVars>>
    BY DEF ChannelSends
  <1>2. /\ ring \in Seq(Run) /\ ring # <<>> /\ run = ring[1] /\ run \in Run
        /\ 1 \in 1 .. Len(ring)
    BY <1>1 DEF SifInv, SifType
  <1>3. /\ run.from \in {"outgoing", "payload", "sender"}
        /\ run.result \in Id \cup {0} /\ run.to \in Client \cup {Nobody}
        /\ run.from = "sender" => run.to = Nobody
    BY <1>2 DEF Run
  <1>4. SifType'
    <2>1. inbox' \in Packet \cup {Nothing}
      BY <1>1, <1>3 DEF SifInv, SifType, Packet
    <2>2. received' \in [Client -> Id \cup {0}]
      BY <1>1, <1>3 DEF SifInv, SifType
    <2> QED BY <1>1, <1>2, <2>1, <2>2 DEF SifInv, SifType
  <1>5. Alone'  BY <1>1, AloneKept DEF Flow
  <1>6. OnTheWay(st)'  BY <1>1, OnTheWayKept DEF Flow
  <1>7. InService(st, q)'  BY <1>1, InServiceKept DEF Flow
  <1>8. CASE run.from = "sender"
    <2>1. /\ inbox' = [kind |-> "Command"] /\ received' = received
          /\ inbox'.kind = "Command"
      BY <1>1, <1>3, <1>8
    <2>2. ComingBack(st, n)'
      <3>1. \A m \in 1 .. Len(ring') : Unsent(m)' => Unsent(m) /\ ring'[m] = ring[m]
        BY <1>1 DEF Unsent
      <3>2. \A m \in 1 .. Len(ring) : Carries(ring[m]) => Carries(ring[m])'
        BY <1>1 DEF Carries, Ends, Greeted
      <3> QED BY <1>1, <2>1, <3>1, <3>2 DEF Flow, ComingBack
    <2>3. Fetching(st)'
      <3>1. listening  BY <1>2, <1>8 DEF Flow, Fetching
      <3> QED BY <1>1, <3>1 DEF Flow, Fetching
    <2> QED BY <1>4, <1>5, <1>6, <1>7, <2>2, <2>3, FlowNext
  <1>9. CASE run.from # "sender"
    <2>1. st = "ring" /\ n = 1 /\ Carries(run)
      BY <1>1, <1>2, <1>9 DEF Flow, ComingBack, Unsent
    <2>2. \A m \in 1 .. Len(ring') : ~Unsent(m)'
      BY <1>1, <2>1 DEF Flow, ComingBack, Unsent
    <2>3. inbox.kind \notin {"End", "SetSreg"}  BY <2>1 DEF Flow, ComingBack
    <2>4. CASE run.from = "outgoing"
      <3>1. inbox' = outgoing  BY <1>1, <2>4
      <3>2. /\ outgoing.kind = "SetSreg" /\ run.to = Nobody /\ Greeted
            \/ /\ outgoing.kind = "End" /\ Ends(outgoing)
               /\ IF outgoing.cid = "Call"
                  THEN run.to = outgoing.client /\ run.result = outgoing.id
                  ELSE run.to = Nobody
        BY <2>1, <2>4 DEF Carries
      <3>3. outgoing.kind = "End" => outgoing.client \in Client /\ outgoing.cid \in {"Bind", "Call"}
        BY PacketParts DEF SifInv, SifType
      <3>4. OnTheWay("inbox")'  BY <1>6, <2>1 DEF OnTheWay
      <3>5. InService("inbox", q)'  BY <1>7, <2>1 DEF InService
      <3>6. ComingBack("inbox", n)'
        <4>1. inbox'.kind = "SetSreg" => Greeted'
          BY <1>1, <3>1, <3>2 DEF Greeted
        <4>2. inbox'.kind = "End" =>
                 /\ Ends(inbox)'
                 /\ inbox'.cid = "Call" => received'[inbox'.client] = inbox'.id
          <5>1. ASSUME outgoing.kind = "End"
                PROVE  Ends(outgoing) /\ outgoing.cid = "Call" =>
                          received'[outgoing.client] = outgoing.id
            <6>1. ASSUME outgoing.cid = "Call"
                  PROVE  received'[outgoing.client] = outgoing.id
              <7>1. /\ run.to = outgoing.client /\ run.result = outgoing.id
                    /\ run.to # Nobody /\ run.to \in Client
                BY <3>2, <3>3, <5>1, <6>1, SifConstants
              <7>2. received' = [received EXCEPT ![run.to] = run.result]
                BY <1>1, <2>4, <7>1
              <7> QED BY <7>1, <7>2 DEF SifInv, SifType
            <6> QED BY <6>1
          <5>2. outgoing.kind = "End" => Ends(outgoing)  BY <3>2
          <5>3. Ends(outgoing) => Ends(inbox)'  BY <1>1, <3>1 DEF Ends
          <5> QED BY <3>1, <5>1, <5>2, <5>3
        <4> QED BY <2>2, <4>1, <4>2 DEF ComingBack
      <3>7. Fetching("inbox")'
        <4>1. \E c \in Client : want[c].kind \in {"InitRpc", "Bind", "Call"}
          BY <3>2, <3>3 DEF Greeted, Ends
        <4>2. \A c \in Client : want[c].kind # "File"
          BY <1>a, <4>1 DEF Flow, Alone
        <4>3. inbox'.kind # "Command"  BY <3>1, <3>2
        <4> QED BY <1>1, <4>2, <4>3 DEF Flow, Fetching
      <3> QED BY <1>4, <1>5, <3>4, <3>5, <3>6, <3>7, FlowNext DEF Stage, QueueOrNone
    <2>5. CASE run.from = "payload"
      <3>1. inbox' = inbox  BY <1>1, <2>5
      <3>2. /\ run.to \in Client /\ want[run.to].kind = "File" /\ payload = want[run.to].id
            /\ run.to # Nobody
        BY <2>1, <2>5, SifConstants DEF Carries
      <3>3. received'[run.to] = want[run.to].id
        BY <1>1, <2>5, <3>2 DEF SifInv, SifType
      <3>4. OnTheWay("none")'  BY <1>6, <2>1 DEF OnTheWay
      <3>5. InService("none", q)'  BY <1>7, <2>1 DEF InService
      <3>6. ComingBack("none", n)'  BY <2>2, <2>3, <3>1 DEF ComingBack
      <3>7. Fetching("none")'
        <4>1. \A c \in Client : want[c].kind = "File" => c = run.to
          BY <1>a, <3>2 DEF Flow, Alone
        <4> QED BY <1>1, <3>1, <3>3, <4>1 DEF Flow, Fetching
      <3> QED BY <1>4, <1>5, <3>4, <3>5, <3>6, <3>7, FlowNext DEF Stage, QueueOrNone
    <2> QED BY <1>3, <1>9, <2>4, <2>5
  <1> QED BY <1>8, <1>9

(* The head leaves the ring, and the others move up by one place.          *)
LEMMA SendFinishedKeeps ==
  ASSUME SifInv, SendFinished
  PROVE  SifInv'
  <1> PICK st \in Stage, q \in QueueOrNone, n \in Nat : Flow(st, q, n)  BY DEF SifInv
  <1> USE DEF eeVars, rpcVars, threadVars, inVars, backVars
  <1>1. /\ channel = "Done" /\ ring' = Tail(ring)
        /\ channel' = IF Len(ring) > 1 THEN "Busy" ELSE "Idle"
        /\ UNCHANGED <<listening, payload, registered, outgoing, eeVars, rpcVars>>
        /\ UNCHANGED <<threadVars, inVars, backVars>>
    BY DEF SendFinished
  <1>2. /\ ring \in Seq(Run) /\ ring # <<>> /\ Len(ring) \in Nat /\ Len(ring) >= 1
    BY <1>1 DEF SifInv, SifType
  <1>3. /\ ring' \in Seq(Run) /\ Len(ring') = Len(ring) - 1
        /\ \A m \in 1 .. Len(ring') : m + 1 \in 1 .. Len(ring) /\ ring'[m] = ring[m + 1]
    BY <1>1, <1>2
  <1>4. SifType'
    <2>1. ring' = <<>> => channel' = "Idle"
      <3>1. ring' = <<>> => Len(ring') = 0  OBVIOUS
      <3>2. Len(ring) \in Nat /\ Len(ring') = Len(ring) - 1  BY <1>2, <1>3
      <3>3. ring' = <<>> => ~(Len(ring) > 1)
        <4> DEFINE i == Len(ring)
                   j == Len(ring')
        <4>1. i \in Nat /\ j = i - 1  BY <3>2
        <4>2. ring' = <<>> => j = 0  BY <3>1
        <4> HIDE DEF i, j
        <4>3. j = 0 => ~(i > 1)  BY <4>1
        <4> QED BY <4>2, <4>3 DEF i
      <3> QED BY <1>1, <3>3
    <2> QED BY <1>1, <1>3, <2>1 DEF SifInv, SifType
  <1>5. Alone'  BY <1>1, AloneKept DEF Flow
  <1>6. OnTheWay(st)'  BY <1>1, OnTheWayKept DEF Flow
  <1>7. InService(st, q)'  BY <1>1, InServiceKept DEF Flow
  <1> PICK k \in Nat : k = IF n = 0 THEN 0 ELSE n - 1  OBVIOUS
  <1>8. ComingBack(st, k)'
    <2>1. ASSUME NEW m \in 1 .. Len(ring'), Unsent(m)'
          PROVE  st = "ring" /\ k = m /\ Carries(ring[m])'
      <3>1. m + 1 \in 1 .. Len(ring) /\ ring'[m] = ring[m + 1] /\ m \in Nat /\ m + 1 # 1
        BY <1>2, <1>3
      <3>2. Unsent(m + 1)  BY <2>1, <3>1 DEF Unsent
      <3>3. st = "ring" /\ n = m + 1 /\ Carries(ring[m + 1])
        BY <3>1, <3>2 DEF Flow, ComingBack
      <3>4. Carries(ring[m])'  BY <1>1, <3>1, <3>3 DEF Carries, Ends, Greeted
      <3> QED BY <3>1, <3>3, <3>4
    <2> QED BY <1>1, <2>1 DEF Flow, ComingBack, Ends, Greeted
  <1>9. Fetching(st)'  BY <1>1, <1>3 DEF Flow, Fetching
  <1> QED BY <1>4, <1>5, <1>6, <1>7, <1>8, <1>9, FlowNext

(* A module's command answers nobody.                                      *)
LEMMA SendCommandKeeps ==
  ASSUME SifInv, NEW m \in Sender, SendCommand(m)
  PROVE  SifInv'
  <1> PICK st \in Stage, q \in QueueOrNone, n \in Nat : Flow(st, q, n)  BY DEF SifInv
  <1> USE DEF eeVars, rpcVars, threadVars, inVars, backVars
  <1> PICK run : run = [from |-> "sender", result |-> 0, to |-> Nobody, done |-> m]
    OBVIOUS
  <1>1. /\ listening /\ Enqueue(run)
        /\ UNCHANGED <<listening, payload, registered, outgoing, eeVars, rpcVars>>
        /\ UNCHANGED <<threadVars, inVars, backVars>>
    BY DEF SendCommand
  <1>2. run \in Run /\ run.from = "sender"  BY DEF Run
  <1>3. SifType'
    <2>1. ring' \in Seq(Run) /\ (ring' = <<>> => channel' = "Idle")
      BY <1>1, <1>2, EnqueueParts DEF SifInv
    <2> QED BY <1>1, <2>1 DEF SifInv, SifType
  <1>4. Alone'  BY <1>1, AloneKept DEF Flow
  <1>5. OnTheWay(st)'  BY <1>1, OnTheWayKept DEF Flow
  <1>6. InService(st, q)'  BY <1>1, InServiceKept DEF Flow
  <1>7. ComingBack(st, n)'
    <2>1. ASSUME NEW i \in 1 .. Len(ring'), Unsent(i)'
          PROVE  st = "ring" /\ n = i /\ Carries(ring[i])'
      <3>1. i \in 1 .. Len(ring)
        BY <1>1, <1>2, <2>1, EnqueueParts DEF SifInv, Unsent
      <3>2. ring'[i] = ring[i] /\ Unsent(i)
        BY <1>1, <1>2, <2>1, <3>1, EnqueueParts DEF SifInv
      <3>3. st = "ring" /\ n = i /\ Carries(ring[i])
        BY <3>1, <3>2 DEF Flow, ComingBack
      <3> QED BY <1>1, <3>2, <3>3 DEF Carries, Ends, Greeted
    <2> QED BY <1>1, <2>1 DEF Flow, ComingBack, Ends, Greeted
  <1>8. Fetching(st)'  BY <1>1 DEF Flow, Fetching
  <1> QED BY <1>3, <1>4, <1>5, <1>6, <1>7, <1>8, FlowNext

-----------------------------------------------------------------------------
LEMMA SifInitHolds ==
  ASSUME Init
  PROVE  SifInv
  <1>a. Nothing.kind = "Nothing"  BY DEF Nothing
  <1>1. \A c \in Client : want[c] = Nothing  BY DEF Init
  <1>2. SifType
    <2>1. /\ want \in [Client -> Asked \cup {Nothing}]
          /\ chan6 \in Asked \cup {Nothing} /\ receive \in Asked \cup {Nothing}
          /\ inbox \in Packet \cup {Nothing} /\ outgoing \in Packet
      BY DEF Init, Packet
    <2>2. /\ phase \in [RpcQueue -> Phase] /\ wakeups \in [RpcQueue -> Nat]
          /\ ran \in [Client -> Nat] /\ rpcId \in Id
      BY SifConstants DEF Init, Phase
    <2>3. ring \in Seq(Run) /\ channel = "Idle"  BY DEF Init
    <2> QED BY <2>1, <2>2, <2>3 DEF Init, SifType
  <1> PICK q \in QueueOrNone : TRUE  BY DEF QueueOrNone
  <1>3. Alone  BY <1>1 DEF Alone
  <1>4. OnTheWay("none")  BY DEF Init, OnTheWay
  <1>5. InService("none", q)  BY DEF Init, InService
  <1>6. ComingBack("none", 0)
    <2>1. \A m \in 1 .. Len(ring) : FALSE  BY DEF Init
    <2>2. inbox = Nothing  BY DEF Init
    <2> QED BY <1>a, <2>1, <2>2 DEF ComingBack
  <1>7. Fetching("none")
    <2>1. \A m \in 1 .. Len(ring) : FALSE  BY DEF Init
    <2> QED BY <1>1, <1>a, <2>1 DEF Init, Fetching
  <1>8. Flow("none", q, 0)  BY <1>3, <1>4, <1>5, <1>6, <1>7 DEF Flow
  <1> QED BY <1>2, <1>8 DEF SifInv, Stage

LEMMA SifNextHolds ==
  ASSUME Concurrent = FALSE, SifInv, Next
  PROVE  SifInv'
  <1>1. ASSUME NEW c \in Client,
               \/ FetchFile(c) \/ FileFetched(c) \/ InitRpc(c) \/ InitRpcAgain(c)
               \/ CallRpc(c) \/ \E s \in Server : BindRpc(c, s)
        PROVE  SifInv'
    BY <1>1, ClientAsks, FileFetchedKeeps, InitRpcAgainKeeps
  <1>2. ASSUME NEW q \in RpcQueue, Thread(q)
        PROVE  SifInv'
    BY <1>2, TakePendingKeeps, SleepKeeps, RunFunctionKeeps, FillEndKeeps, SendEndKeeps
    DEF Thread
  <1> QED BY <1>1, <1>2, StartKeeps, MeetKeeps, NewProgramKeeps, TakePacketKeeps,
             PacketLandsKeeps, ServePacketKeeps, ChannelSendsKeeps, SendFinishedKeeps,
             SendCommandKeeps
          DEF Next

LEMMA SifStutterHolds ==
  ASSUME SifInv, UNCHANGED sifVars
  PROVE  SifInv'
  <1> PICK st \in Stage, q \in QueueOrNone, n \in Nat : Flow(st, q, n)  BY DEF SifInv
  <1> USE DEF sifVars, eeVars, flagVars, rpcVars, threadVars, ringVars, inVars, backVars,
              keptVars
  <1>1. SifType'  BY DEF SifInv, SifType
  <1>2. Alone'  BY AloneKept DEF Flow
  <1>3. OnTheWay(st)'  BY OnTheWayKept DEF Flow
  <1>4. InService(st, q)'  BY InServiceKept DEF Flow
  <1>5. ComingBack(st, n)'  BY ComingBackKept DEF Flow
  <1>6. Fetching(st)'  BY FetchingKept DEF Flow
  <1> QED BY <1>1, <1>2, <1>3, <1>4, <1>5, <1>6, FlowNext

LEMMA SifInvAnswers ==
  ASSUME SifInv
  PROVE  AnswerIsOwn
  <1> PICK st \in Stage, q \in QueueOrNone, n \in Nat : Flow(st, q, n)  BY DEF SifInv
  <1>1. ASSUME inbox.kind = "End"
        PROVE  LET asked == want[inbox.client]
               IN  /\ asked.kind = inbox.cid /\ asked.id = inbox.id
                   /\ inbox.cid = "Call" => /\ received[inbox.client] = asked.id
                                            /\ inbox.server = asked.server
    BY <1>1 DEF Flow, ComingBack, Ends
  <1>2. ASSUME NEW c \in Client, want[c].kind = "File", ~armed5
        PROVE  received[c] = want[c].id
    BY <1>2 DEF Flow, Fetching
  <1> QED BY <1>1, <1>2 DEF AnswerIsOwn

(* The invariant, of clients that ask one at a time.                       *)
LEMMA SifInvHolds ==
  ASSUME Concurrent = FALSE
  PROVE  Spec => []SifInv
  <1>1. Init => SifInv  BY SifInitHolds
  <1>2. SifInv /\ [Next]_sifVars => SifInv'
    BY SifNextHolds, SifStutterHolds
  <1> QED BY <1>1, <1>2, PTL DEF Spec

(* However its packets, its server's thread and the runs of SIFMAN's ring  *)
(* interleave, an END that reaches the EE names the request its client     *)
(* waits for, a call's result is in the client's buffer by then and is     *)
(* that call's, and what stops the channel under a fetch is its own        *)
(* window (takePacket, sifExchange, answerCall, sendPacket's one outgoing  *)
(* buffer), those for later programs among them: for any clients, servers  *)
(* and queues, if one client asks at a time and nothing else crosses while *)
(* a program is replaced, which Quiet assumes and no code sees to.         *)
THEOREM SifAnswerIsOwn ==
  ASSUME Concurrent = FALSE
  PROVE  Spec => []AnswerIsOwn
  <1>1. SifInv => AnswerIsOwn  BY SifInvAnswers
  <1> QED BY <1>1, SifInvHolds, PTL

-----------------------------------------------------------------------------
(* The promise of SifRpcAbs, its fairness aside.                           *)
Abs == INSTANCE SifRpcAbs WITH
    Kind <- {"File", "Init", "Bind", "Call"},
    asked <- [c \in Client |-> want[c].kind], runs <- ran

(* What does not touch want and ran is a stutter.                          *)
LEMMA AbsStutters ==
  ASSUME UNCHANGED <<want, ran>>
  PROVE  UNCHANGED Abs!absVars
  BY DEF Abs!absVars

LEMMA AskedChanges ==
  ASSUME SifType, SifType', NEW c \in Client, \A d \in Client \ {c} : want'[d] = want[d]
  PROVE  [d \in Client |-> want[d].kind]'
            = [[d \in Client |-> want[d].kind] EXCEPT ![c] = want'[c].kind]
  OBVIOUS

LEMMA AskMeets ==
  ASSUME NEW c \in Client, NEW asked, NEW kind \in {"File", "Init", "Bind", "Call"},
         asked.kind = kind, SifInv, SifInv', Ask(c, asked)
  PROVE  Abs!AbsNext
  <1>1. /\ want[c] = Nothing /\ want' = [want EXCEPT ![c] = asked]
        /\ ran' = [ran EXCEPT ![c] = 0]
    BY DEF Ask
  <1>2. want[c].kind = "Nothing"  BY <1>1 DEF Nothing
  <1>3. want'[c] = asked /\ \A d \in Client \ {c} : want'[d] = want[d]
    BY <1>1 DEF SifInv, SifType
  <1>4. [d \in Client |-> want[d].kind]'
            = [[d \in Client |-> want[d].kind] EXCEPT ![c] = kind]
    BY <1>3, AskedChanges DEF SifInv
  <1>5. Abs!AbsAsk(c, kind)  BY <1>1, <1>2, <1>4 DEF Abs!AbsAsk
  <1> QED BY <1>5 DEF Abs!AbsNext

LEMMA AnswerMeets ==
  ASSUME NEW c \in Client, SifInv, SifInv', ran' = ran, want'[c] = Nothing,
         want[c].kind \in {"File", "InitRpc", "Bind", "Call"},
         want[c].kind = "Call" => ran[c] = 1,
         \A d \in Client \ {c} : want'[d] = want[d]
  PROVE  Abs!AbsNext
  <1>1. want'[c].kind = "Nothing"  BY DEF Nothing
  <1>2. [d \in Client |-> want[d].kind]'
            = [[d \in Client |-> want[d].kind] EXCEPT ![c] = "Nothing"]
    BY <1>1, AskedChanges DEF SifInv
  <1>3. Abs!AbsAnswer(c)  BY <1>2 DEF Abs!AbsAnswer
  <1> QED BY <1>3 DEF Abs!AbsNext

LEMMA ClientMeets ==
  ASSUME SifInv, SifInv', NEW c \in Client,
         \/ FetchFile(c) \/ FileFetched(c) \/ InitRpc(c) \/ InitRpcAgain(c)
         \/ CallRpc(c) \/ \E s \in Server : BindRpc(c, s)
  PROVE  Abs!AbsNext
  <1>1. CASE FetchFile(c)  BY <1>1, AskMeets DEF FetchFile
  <1>2. CASE InitRpc(c)  BY <1>2, AskMeets DEF InitRpc
  <1>3. CASE CallRpc(c)  BY <1>3, AskMeets DEF CallRpc
  <1>4. CASE \E s \in Server : BindRpc(c, s)  BY <1>4, AskMeets DEF BindRpc
  <1>5. CASE FileFetched(c)
    <2>1. want[c].kind = "File" /\ want' = [want EXCEPT ![c] = Nothing] /\ ran' = ran
      BY <1>5 DEF FileFetched
    <2>2. want'[c] = Nothing /\ \A d \in Client \ {c} : want'[d] = want[d]
      BY <2>1 DEF SifInv, SifType
    <2> QED BY <2>1, <2>2, AnswerMeets
  <1>6. CASE InitRpcAgain(c)
    <2>1. /\ want[c].kind = "Init" /\ want' = [want EXCEPT ![c].kind = "InitRpc"]
          /\ ran' = ran
      BY <1>6 DEF InitRpcAgain
    <2>2. \A d \in Client \ {c} : want'[d] = want[d]  BY <2>1 DEF SifInv, SifType
    <2>3. want'[c].kind = "InitRpc"
      <3>1. want[c] \in Asked  BY <2>1 DEF SifInv, SifType, Nothing
      <3>2. want'[c] = [want[c] EXCEPT !.kind = "InitRpc"]  BY <2>1 DEF SifInv, SifType
      <3> QED BY <3>1, <3>2 DEF Asked
    <2>4. [d \in Client |-> want[d].kind]'
              = [[d \in Client |-> want[d].kind] EXCEPT ![c] = "InitRpc"]
      BY <2>2, <2>3, AskedChanges DEF SifInv
    <2>5. Abs!AbsGoOn(c)  BY <2>1, <2>4 DEF Abs!AbsGoOn
    <2> QED BY <2>5 DEF Abs!AbsNext
  <1> QED BY <1>1, <1>2, <1>3, <1>4, <1>5, <1>6

LEMMA TakePacketMeets ==
  ASSUME SifInv, SifInv', TakePacket
  PROVE  Abs!AbsNext \/ UNCHANGED Abs!absVars
  <1> PICK st \in Stage, q \in QueueOrNone, n \in Nat : Flow(st, q, n)  BY DEF SifInv
  <1>a. Nothing.kind = "Nothing"  BY DEF Nothing
  <1>1. inbox \in Packet /\ ran' = ran
    BY DEF TakePacket, SifInv, SifType
  <1>2. CASE inbox.kind = "End"
    <2> PICK c \in Client : c = inbox.client  BY <1>1, <1>2, PacketParts
    <2>1. /\ want[c].kind \in {"Bind", "Call"} /\ (want[c].kind = "Call" => ran[c] = 1)
      BY <1>1, <1>2, PacketParts DEF Flow, ComingBack, Ends
    <2>2. want' = [want EXCEPT ![c] = Nothing]  BY <1>2 DEF TakePacket
    <2>3. want'[c] = Nothing /\ \A d \in Client \ {c} : want'[d] = want[d]
      BY <2>2 DEF SifInv, SifType
    <2> QED BY <1>1, <2>1, <2>3, AnswerMeets
  <1>3. CASE inbox.kind = "SetSreg"
    <2>1. Greeted  BY <1>3 DEF Flow, ComingBack
    <2> PICK c \in Client : want[c].kind = "InitRpc"  BY <2>1 DEF Greeted
    <2>2. \A d \in Client \ {c} : want[d] = Nothing  BY <1>a DEF Flow, Alone
    <2>3. want' = [d \in Client |-> IF want[d].kind = "InitRpc" THEN Nothing ELSE want[d]]
      BY <1>3 DEF TakePacket
    <2>4. want'[c] = Nothing /\ \A d \in Client \ {c} : want'[d] = want[d]
      BY <1>a, <2>2, <2>3
    <2> QED BY <1>1, <2>4, AnswerMeets
  <1>4. CASE inbox.kind = "Command"
    <2>1. want' = [d \in Client |-> want[d]]  BY <1>4 DEF TakePacket
    <2>2. want' = want  BY <2>1 DEF SifInv, SifType
    <2> QED BY <1>1, <2>2, AbsStutters
  <1> QED BY <1>1, <1>2, <1>3, <1>4, PacketParts

LEMMA RunFunctionMeets ==
  ASSUME SifInv, NEW p \in RpcQueue, RunFunction(p)
  PROVE  Abs!AbsNext
  <1> PICK st \in Stage, q \in QueueOrNone, n \in Nat : Flow(st, q, n)  BY DEF SifInv
  <1>1. /\ phase[p] = "Serve" /\ UNCHANGED want
        /\ ran' = [ran EXCEPT ![request[serving[p]].client] = @ + 1]
    BY DEF RunFunction
  <1> PICK c \in Client : /\ c = request[serving[p]].client
                          /\ want[c].kind = "Call" /\ ran[c] = 0
    BY <1>1, ServingParts DEF Called, SifInv
  <1>2. ran' = [ran EXCEPT ![c] = 1]
    <2>1. ran' = [ran EXCEPT ![c] = ran[c] + 1]  BY <1>1
    <2>2. ran[c] + 1 = 1  OBVIOUS
    <2> QED BY <2>1, <2>2
  <1>3. Abs!AbsRun(c)  BY <1>1, <1>2 DEF Abs!AbsRun
  <1> QED BY <1>3 DEF Abs!AbsNext

LEMMA SifStepMeets ==
  ASSUME SifInv, SifInv', [Next]_sifVars
  PROVE  Abs!AbsNext \/ UNCHANGED Abs!absVars
  <1> USE DEF eeVars
  <1>1. CASE UNCHANGED sifVars  BY <1>1, AbsStutters DEF sifVars
  <1>2. CASE \/ PublishReceive \/ SifInit \/ StartSifcmd \/ StartEesync
             \/ RaiseBit \/ TakeAnswer \/ NewProgram \/ PacketLands \/ ServePacket
             \/ ChannelSends \/ SendFinished
    <2>1. UNCHANGED <<want, ran>>
      BY <1>2 DEF PublishReceive, SifInit, StartSifcmd, StartEesync, RaiseBit, TakeAnswer,
                  NewProgram, PacketLands, ServePacket, ChannelSends, SendFinished
    <2> QED BY <2>1, AbsStutters
  <1>3. CASE TakePacket  BY <1>3, TakePacketMeets
  <1>4. ASSUME NEW c \in Client,
               \/ FetchFile(c) \/ FileFetched(c) \/ InitRpc(c) \/ InitRpcAgain(c)
               \/ CallRpc(c) \/ \E s \in Server : BindRpc(c, s)
        PROVE  Abs!AbsNext
    BY <1>4, ClientMeets
  <1>5. ASSUME NEW s \in Server, RegisterRpc(s)
        PROVE  UNCHANGED Abs!absVars
    <2>1. UNCHANGED <<want, ran>>  BY <1>5 DEF RegisterRpc
    <2> QED BY <2>1, AbsStutters
  <1>6. ASSUME NEW m \in Sender, SendCommand(m)
        PROVE  UNCHANGED Abs!absVars
    <2>1. UNCHANGED <<want, ran>>  BY <1>6 DEF SendCommand
    <2> QED BY <2>1, AbsStutters
  <1>7. ASSUME NEW q \in RpcQueue, Thread(q)
        PROVE  Abs!AbsNext \/ UNCHANGED Abs!absVars
    <2>1. CASE RunFunction(q)  BY <2>1, RunFunctionMeets
    <2>2. CASE TakePending(q) \/ Sleep(q) \/ FillEnd(q) \/ SendEnd(q)
      <3>1. UNCHANGED <<want, ran>>
        BY <2>2 DEF TakePending, Sleep, FillEnd, SendEnd
      <3> QED BY <3>1, AbsStutters
    <2> QED BY <1>7, <2>1, <2>2 DEF Thread
  <1> QED BY <1>1, <1>2, <1>3, <1>4, <1>5, <1>6, <1>7 DEF Next

(* A call's function runs exactly once between the call and its answer and *)
(* never otherwise, and nobody is answered who did not ask: every step of  *)
(* both processors' code is a step of SifRpcAbs or leaves it alone.  This  *)
(* is the safety part of ImplementsRpc.                                    *)
THEOREM SifImplementsRpc ==
  ASSUME Concurrent = FALSE
  PROVE  Spec => Abs!AbsInit /\ [][Abs!AbsNext]_(Abs!absVars)
  <1>1. Init => Abs!AbsInit
    <2>1. Init => [c \in Client |-> want[c].kind] = [c \in Client |-> "Nothing"]
      BY DEF Init, Nothing
    <2> QED BY <2>1 DEF Init, Abs!AbsInit
  <1>2. SifInv /\ SifInv' /\ [Next]_sifVars => [Abs!AbsNext]_(Abs!absVars)
    BY SifStepMeets
  <1>3. Spec => []SifInv  BY SifInvHolds
  <1> QED BY <1>1, <1>2, <1>3, PTL DEF Spec

-----------------------------------------------------------------------------
(***************************************************************************)
(* A read of FILEIO's answers what it did, for any files, buffers, request *)
(* and size of a block, and no descriptor or handle is left behind.  The   *)
(* descriptors in use are the client's and the one that a thread is on its *)
(* way with, each with a handle of its own.  The bytes up to total are in  *)
(* the EE's memory, or in the one block that is to be sent or on its way;  *)
(* and what part comes next says how much that is.                         *)
(***************************************************************************)
(* A set of naturals that is not empty has a least member.                 *)
LEMMA MinOfNaturals ==
  ASSUME NEW S \in SUBSET Nat, S # {}
  PROVE  Min(S) \in S /\ \A y \in S : Min(S) <= y
  <1> DEFINE Less == {ss \in Nat \X Nat : ss[1] < ss[2]}
  <1>1. IsWellFoundedOn(Less, Nat)
    BY NatLessThanWellFounded, Zenon DEF OpToRel
  <1>2. PICK x \in S : \A y \in S : ~ (<<y, x>> \in Less)
    <2> HIDE DEF Less
    <2> QED BY <1>1, WFMin
  <1>3. ASSUME NEW y \in S, y < x
        PROVE  FALSE
    <2>1. <<y, x>> \in Nat \X Nat
      OBVIOUS
    <2>2. <<y, x>>[1] < <<y, x>>[2]
      BY <1>3
    <2> QED BY <1>2, <2>1, <2>2, Zenon
  <1>4. \E m \in S : \A y \in S : m <= y
    BY <1>3
  <1> QED BY <1>4 DEF Min

(* The lesser of two.                                                      *)
LEMMA MinOfTwo ==
  ASSUME NEW a \in Nat, NEW b \in Nat
  PROVE  Min({a, b}) \in Nat /\ Min({a, b}) <= a /\ Min({a, b}) <= b
  BY MinOfNaturals

FilePart == {"small", "head", "middle", "tail", "end"}

FileBlock == [from : {"edge", "bounce", "stat"}, to : Int, size : Int]

ReadRequest ==
  [at : {"fetch", "send", "wait", "answer"}, call : {"read"}, fd : Fd,
   dest : Dests, length : Lengths \ {0}, start : Nat, total : Nat, done : Nat,
   part : FilePart, block : FileBlock \cup {Zero}]

StatRequest ==
  [at : {"send", "wait", "answer"}, call : {"getstat"}, part : {"end"},
   block : FileBlock]

OpenRequest == [at : {"open"}, fd : Fd, name : FileName \cup {Missing}]

LoadRequest ==
  [at : {"load", "close"}, fd : Fd, name : FileName \cup {Missing}]

FileType ==
  /\ files \in [Fd -> [taken : BOOLEAN, privdata : RomHandle]]
  /\ romHandles \in [RomHandle -> [used : BOOLEAN,
                                   name : FileName \cup {Missing},
                                   position : Nat]]
  /\ DOMAIN fio = FileThreads
  /\ fio["server"] \in {Idling} \cup OpenRequest \cup ReadRequest \cup StatRequest
  /\ fio["heap"] \in {Idling} \cup OpenRequest \cup LoadRequest
  /\ eeFds \subseteq Fd
  /\ DOMAIN edge = 0..2 * Block - 1 /\ DOMAIN bounce = 0..Bounce - 1

(* Thread t is on its way with a descriptor. *)
HasFd(t) == fio[t].at \in {"open", "load", "close"}

FdsHeld ==
  /\ \A fd \in Fd : files[fd].taken <=>
       fd \in eeFds \/ \E t \in FileThreads : HasFd(t) /\ fio[t].fd = fd
  /\ \A t \in FileThreads : HasFd(t) => fio[t].fd \notin eeFds
  /\ HasFd("server") /\ HasFd("heap") => fio["server"].fd # fio["heap"].fd

OpenFds ==
  eeFds \cup {fd \in Fd : fio["heap"].at \in {"load", "close"}
                            /\ fd = fio["heap"].fd}

HandlesHeld ==
  /\ \A f, g \in OpenFds : files[f].privdata = files[g].privdata => f = g
  /\ \A h \in RomHandle : romHandles[h].used <=>
       \E f \in OpenFds : files[f].privdata = h
  /\ \A h \in RomHandle : romHandles[h].used =>
       /\ romHandles[h].name \in FileName
       /\ romHandles[h].position <= LengthOf[romHandles[h].name]

Serves(call) ==
  fio["server"].at \in {"fetch", "send", "wait", "answer"}
    /\ fio["server"].call = call

(* What is known of the request c when part is the one it comes to next. *)
PartFits(c) ==
  /\ c.part = "small" => c.total = 0 /\ c.length < Block
  /\ c.part # "small" /\ c.at = "fetch" => c.length >= Block
  /\ c.part = "head" => c.total = 0 /\ HeadOf(c) # 0 /\ c.length >= Block
  /\ c.part = "middle" => /\ c.length >= Block
                          /\ c.total = HeadOf(c) + c.done
                          /\ c.done < MiddleOf(c)
  /\ c.part = "tail" => /\ c.length >= Block
                        /\ c.total = HeadOf(c) + MiddleOf(c)
                        /\ TailOf(c) # 0

(* The request's block is yet to be taken by the channel, whose ring is w. *)
Outstanding(c, w) == c.at = "send" \/ w # <<>>

Covers(b, n) == b.to <= n /\ n < b.to + b.size

(* Of a read c of the file that handle is of: the ring w, the buffers e and *)
(* b and the EE's memory m have what they should.                           *)
ReadSound(c, handle, w, e, b, m) ==
  /\ c.total <= c.length /\ PartFits(c)
  /\ handle.position = c.start + c.total
  /\ c.at = "fetch" => c.part # "end"
  /\ c.at # "wait" => w = <<>>
  /\ c.at = "wait" => w = <<>> \/ w = <<c.block>>
  /\ Outstanding(c, w) =>
       /\ c.block \in FileBlock /\ c.block.from # "stat"
       /\ c.block.to >= c.dest - OffsetOf(c)
       /\ c.block.to + c.block.size <= AlignUp(c.dest + c.length)
  /\ \A k \in 0..c.total - 1 :
       IF Outstanding(c, w) /\ Covers(c.block, c.dest + k)
       THEN (IF c.block.from = "edge" THEN e ELSE b)[c.dest + k - c.block.to]
              = <<handle.name, c.start + k>>
       ELSE m[c.dest + k] = <<handle.name, c.start + k>>
  /\ \A k \in 0..EETop :
       k < c.dest - OffsetOf(c) \/ k >= AlignUp(c.dest + c.length)
         => m[k] = Old

ReadHeld ==
  /\ fio["server"].fd \in eeFds
  /\ ReadSound(fio["server"], romHandles[files[fio["server"].fd].privdata],
               wire, edge, bounce, eeMemory)

ServerHeld ==
  /\ Serves("read") => ReadHeld
  /\ Serves("getstat") =>
       /\ fio["server"].at # "wait" => wire = <<>>
       /\ wire = <<>> \/ wire = <<fio["server"].block>>
  /\ fio["server"].at \in {"idle", "open"} => wire = <<>> /\ eeMemory = Untouched

FileInv == FileType /\ FdsHeld /\ HandlesHeld /\ ServerHeld

(* A quotient and a remainder make the number, and no other remainder does. *)
LEMMA RemainderOf ==
  ASSUME NEW b \in Nat \ {0}, NEW x \in Int
  PROVE  x % b \in 0..b - 1 /\ x \div b \in Int /\ x = b * (x \div b) + (x % b)
  <1>1. x % b \in Int /\ x % b >= 0  OBVIOUS
  <1>2. x % b < b  OBVIOUS
  <1>3. x \div b \in Int  OBVIOUS
  <1>4. x = b * (x \div b) + (x % b)  OBVIOUS
  <1> QED BY <1>1, <1>2, <1>3, <1>4

LEMMA RemainderIs ==
  ASSUME NEW b \in Nat \ {0}, NEW q \in Int, NEW r \in 0..b - 1
  PROVE  (b * q + r) % b = r
  <1> DEFINE x == b * q + r
             d == x \div b
             m == x % b
  <1>1. b * q \in Int /\ x \in Int  OBVIOUS
  <1>2. m \in 0..b - 1 /\ d \in Int /\ x = b * d + m  BY <1>1, RemainderOf
  <1> HIDE DEF d, m
  <1>3. b * q - b * d = m - r  BY <1>2
  <1>4. b * (q - d) = b * q - b * d  BY <1>2
  <1>5. q - d \in Int  BY <1>2
  <1>6. CASE q - d >= 1
    <2>1. b * (q - d) >= b  BY <1>5, <1>6
    <2> QED BY <2>1, <1>2, <1>3, <1>4
  <1>7. CASE q - d <= -1
    <2>1. b * (q - d) <= -b  BY <1>5, <1>7
    <2> QED BY <2>1, <1>2, <1>3, <1>4
  <1>8. CASE q = d
    BY <1>2, <1>8
  <1> QED BY <1>5, <1>6, <1>7, <1>8, <1>2 DEF m

(* AlignUp goes to the end of the block that n is in.                      *)
LEMMA AlignedUp ==
  ASSUME FileIoAssumption, NEW n \in Nat
  PROVE  /\ AlignUp(n) = IF n % Block = 0 THEN n ELSE n + Block - (n % Block)
         /\ AlignUp(n) \in Nat /\ n <= AlignUp(n) /\ AlignUp(n) < n + Block
  <1>1. Block \in Nat \ {0}  BY DEF FileIoAssumption
  <1>2. n % Block \in 0..Block - 1  BY <1>1, RemainderOf
  <1>3. ASSUME n % Block = 0 PROVE (Block - (n % Block)) % Block = 0
    <2>1. (Block * 1 + 0) % Block = 0  BY <1>1, RemainderIs
    <2>2. Block * 1 + 0 = Block - (n % Block)  BY <1>1, <1>3
    <2> QED BY <2>1, <2>2
  <1>4. ASSUME n % Block # 0
        PROVE  (Block - (n % Block)) % Block = Block - (n % Block)
    <2> DEFINE r == Block - (n % Block)
    <2>1. r \in 0..Block - 1  BY <1>1, <1>2, <1>4
    <2> HIDE DEF r
    <2>2. (Block * 0 + r) % Block = r  BY <1>1, <2>1, RemainderIs
    <2>3. Block * 0 + r = r  BY <1>1, <2>1
    <2>4. r % Block = r  BY <2>2, <2>3
    <2> QED BY <2>4 DEF r
  <1>5. AlignUp(n) = IF n % Block = 0 THEN n ELSE n + Block - (n % Block)
    BY <1>1, <1>2, <1>3, <1>4 DEF AlignUp
  <1> QED BY <1>1, <1>2, <1>5

(* doRead's parts: the head up to a block's end, a middle of whole blocks, *)
(* the tail; and where the last block ends.                                *)
LEMMA PartsOfRead ==
  ASSUME FileIoAssumption, NEW c, c.dest \in Nat, c.length \in Nat
  PROVE  /\ OffsetOf(c) \in 0..Block - 1 /\ HeadOf(c) \in 0..Block - 1
         /\ HeadOf(c) = IF OffsetOf(c) = 0 THEN 0 ELSE Block - OffsetOf(c)
         /\ c.length >= Block =>
              /\ MiddleOf(c) \in Nat /\ TailOf(c) \in 0..Block - 1
              /\ HeadOf(c) + MiddleOf(c) + TailOf(c) = c.length
              /\ HeadOf(c) = 0 => MiddleOf(c) > 0
              /\ TailOf(c) # 0 =>
                   AlignUp(c.dest + c.length)
                     = c.dest + HeadOf(c) + MiddleOf(c) + Block
         /\ AlignUp(c.dest + c.length)
              = c.dest - OffsetOf(c) + AlignUp(OffsetOf(c) + c.length)
         /\ AlignUp(c.dest + c.length) \in Nat
         /\ AlignUp(c.dest + c.length) >= c.dest + c.length
  <1>a. PICK d \in Nat : d = c.dest  OBVIOUS
  <1>b. PICK n \in Nat : n = c.length  OBVIOUS
  <1>c. d \in Int /\ d + n \in Nat  OBVIOUS
  <1> DEFINE o == d % Block
             q == d \div Block
             hd == HeadOf(c)
             left == n - hd
             mi == left - (left % Block)
             ta == left % Block
  <1>1. Block \in Nat \ {0}  BY DEF FileIoAssumption
  <1>2. o \in 0..Block - 1 /\ q \in Int /\ d = Block * q + o
    BY <1>1, <1>c, RemainderOf
  <1> HIDE DEF o, q
  <1>3. HeadOf(c) = (Block - o) % Block  BY <1>a DEF HeadOf, OffsetOf, o
  <1>4. ASSUME o = 0 PROVE hd = 0
    <2>1. (Block * 1 + 0) % Block = 0  BY <1>1, RemainderIs
    <2>2. Block * 1 + 0 = Block - o  BY <1>1, <1>4
    <2> QED BY <1>3, <2>1, <2>2
  <1>5. ASSUME o # 0 PROVE hd = Block - o
    <2> DEFINE r == Block - o
    <2>1. r \in 0..Block - 1  BY <1>1, <1>2, <1>5
    <2> HIDE DEF r
    <2>2. (Block * 0 + r) % Block = r  BY <1>1, <2>1, RemainderIs
    <2>3. Block * 0 + r = r  BY <1>1, <2>1
    <2>4. r % Block = r  BY <2>2, <2>3
    <2> QED BY <1>3, <2>4 DEF r
  <1>6. hd \in 0..Block - 1  BY <1>1, <1>2, <1>4, <1>5
  <1>7. AlignUp(d + n) \in Nat
        /\ AlignUp(d + n) >= d + n
    BY <1>c, AlignedUp
  <1> HIDE DEF hd
  <1>8. left \in Int  BY <1>6
  <1>9. PICK p \in Int : p = left \div Block  BY <1>1, <1>8, RemainderOf
  <1>10. ta \in 0..Block - 1 /\ left = Block * p + ta
    BY <1>1, <1>8, <1>9, RemainderOf
  <1> HIDE DEF ta, left
  <1>11. ASSUME n >= Block PROVE mi \in Nat /\ (hd = 0 => mi > 0)
    <2>1. left > 0 /\ (hd = 0 => left >= Block)  BY <1>1, <1>6, <1>11 DEF left
    <2>2. mi = Block * p  BY <1>1, <1>8, <1>9, <1>10 DEF ta
    <2>3. Block * p \in Int  BY <1>1, <1>9
    <2>4. CASE p <= -1
      <3>1. Block * p <= -Block  BY <1>1, <1>9, <2>4
      <3> QED BY <1>1, <1>8, <1>10, <2>1, <2>3, <3>1
    <2>5. CASE p >= 0
      <3>1. Block * p >= 0  BY <1>1, <1>9, <2>5
      <3> QED BY <1>1, <1>8, <1>10, <2>1, <2>2, <2>3, <3>1
    <2> QED BY <1>9, <2>4, <2>5
  <1>12. hd + mi + ta = n  BY <1>6, <1>8, <1>10 DEF ta, left
  <1>13. MiddleOf(c) = mi /\ TailOf(c) = ta
    BY <1>b DEF MiddleOf, TailOf, hd, ta, left
  <1>14. \E x \in Int : d + hd = Block * x
    <2>1. CASE o = 0
      BY <1>1, <1>2, <1>4, <2>1
    <2>2. CASE o # 0
      <3>1. d + hd = Block * q + Block  BY <1>1, <1>2, <1>5, <2>2
      <3>2. Block * q + Block = Block * (q + 1)  BY <1>1, <1>2
      <3>3. q + 1 \in Int  BY <1>2
      <3> QED BY <3>1, <3>2, <3>3
    <2> QED BY <2>1, <2>2
  <1>15. ASSUME ta # 0
         PROVE  AlignUp(d + n) = d + hd + mi + Block
    <2>1. PICK x \in Int : d + hd = Block * x  BY <1>14
    <2>2. d + n = Block * x + (Block * p + ta)
      BY <1>6, <1>10, <2>1 DEF left
    <2>3. Block * x + (Block * p + ta) = Block * (x + p) + ta
      BY <1>1, <1>9, <1>10, <2>1
    <2>4. x + p \in Int  BY <1>9, <2>1
    <2>5. (Block * (x + p) + ta) % Block = ta  BY <1>1, <1>10, <2>4, RemainderIs
    <2>6. (d + n) % Block = ta  BY <2>2, <2>3, <2>5
    <2>7. AlignUp(d + n) = d + n + Block - ta
      BY <1>c, <1>15, <2>6, AlignedUp
    <2>8. mi \in Int  BY <1>8, <1>10 DEF ta
    <2> HIDE DEF mi
    <2> QED BY <1>1, <1>6, <1>10, <1>12, <2>7, <2>8
  <1>16. AlignUp(d + n) = d - o + AlignUp(o + n)
    <2> DEFINE y == o + n
               r == y % Block
               z == y \div Block
    <2>1. y \in Nat /\ y \in Int  BY <1>2
    <2>2. r \in 0..Block - 1 /\ z \in Int /\ y = Block * z + r
      BY <1>1, <2>1, RemainderOf
    <2>3. AlignUp(y) = IF r = 0 THEN y ELSE y + Block - r  BY <2>1, AlignedUp
    <2> HIDE DEF r, z
    <2>4. d + n = Block * q + (Block * z + r)
      BY <1>1, <1>2, <2>2
    <2>5. Block * q + (Block * z + r) = Block * (q + z) + r
      BY <1>1, <1>2, <2>2
    <2>6. q + z \in Int  BY <1>2, <2>2
    <2>7. (Block * (q + z) + r) % Block = r  BY <1>1, <2>2, <2>6, RemainderIs
    <2>8. (d + n) % Block = r  BY <2>4, <2>5, <2>7
    <2>9. AlignUp(d + n)
            = IF r = 0 THEN d + n ELSE d + n + Block - r
      BY <1>c, <2>8, AlignedUp
    <2> QED BY <1>1, <1>2, <2>2, <2>3, <2>9
  <1>17. OffsetOf(c) = o  BY <1>a DEF OffsetOf, o
  <1> HIDE DEF mi
  <1>18. HeadOf(c) = hd  BY DEF hd
  <1>19. c.dest = d /\ c.length = n  BY <1>a, <1>b
  <1>20. HeadOf(c) = IF OffsetOf(c) = 0 THEN 0 ELSE Block - OffsetOf(c)
    BY <1>4, <1>5, <1>17, <1>18
  <1>21. ASSUME n >= Block
         PROVE  /\ mi \in Nat /\ ta \in 0..Block - 1 /\ hd + mi + ta = n
                /\ hd = 0 => mi > 0
                /\ ta # 0 => AlignUp(d + n) = d + hd + mi + Block
    BY <1>10, <1>11, <1>12, <1>15, <1>21
  <1> QED BY <1>2, <1>6, <1>7, <1>13, <1>16, <1>17, <1>18, <1>19, <1>20, <1>21

LEMMA MinMaxOfTwo ==
  ASSUME NEW a \in Int, NEW b \in Int
  PROVE  /\ Min({a, b}) = IF a <= b THEN a ELSE b
         /\ Max({a, b}) = IF a <= b THEN b ELSE a
  <1>1. CASE a <= b
    <2>1. \A y \in {a, b} : a <= y /\ y <= b  BY <1>1
    <2>2. \A x \in {a, b} : (\A y \in {a, b} : x <= y) => x = a  BY <1>1
    <2>3. \A x \in {a, b} : (\A y \in {a, b} : x >= y) => x = b  BY <1>1
    <2>4. Min({a, b}) = a  BY <2>1, <2>2 DEF Min
    <2>5. Max({a, b}) = b  BY <2>1, <2>3 DEF Max
    <2> QED BY <1>1, <2>4, <2>5
  <1>2. CASE ~(a <= b)
    <2>1. \A y \in {a, b} : b <= y /\ y <= a  BY <1>2
    <2>2. \A x \in {a, b} : (\A y \in {a, b} : x <= y) => x = b  BY <1>2
    <2>3. \A x \in {a, b} : (\A y \in {a, b} : x >= y) => x = a  BY <1>2
    <2>4. Min({a, b}) = b  BY <2>1, <2>2 DEF Min
    <2>5. Max({a, b}) = a  BY <2>1, <2>3 DEF Max
    <2> QED BY <1>2, <2>4, <2>5
  <1> QED BY <1>1, <1>2

LEMMA FileInitHolds == FileIoAssumption /\ FileIoInit => FileInv
  <1> SUFFICES ASSUME FileIoAssumption, FileIoInit PROVE FileInv  OBVIOUS
  <1>1. 0 \in RomHandle  BY DEF FileIoAssumption, RomHandle
  <1>2. fio["server"] = Idling /\ fio["heap"] = Idling
    BY DEF FileIoInit, FileThreads
  <1>3. FileType
    BY <1>1, <1>2
    DEF FileIoInit, FileType, Free, Unused, FileThreads, Zeros, Fd
  <1>4. FdsHeld
    BY DEF FileIoInit, FdsHeld, HasFd, Idling, Free, FileThreads
  <1>5. HandlesHeld
    BY DEF FileIoInit, HandlesHeld, OpenFds, Idling, Unused, FileThreads
  <1>6. ServerHeld
    BY <1>2 DEF FileIoInit, ServerHeld, Serves, Idling
  <1> QED BY <1>3, <1>4, <1>5, <1>6 DEF FileInv

(* Nobody comes by a descriptor or lets one go.                            *)
LEMMA FdsStay ==
  ASSUME FdsHeld, files' = files, eeFds' = eeFds,
         \A t \in FileThreads :
           /\ HasFd(t)' <=> HasFd(t)
           /\ HasFd(t) => fio'[t].fd = fio[t].fd,
         fio'["heap"].at \in {"load", "close"}
           <=> fio["heap"].at \in {"load", "close"}
  PROVE  FdsHeld' /\ OpenFds' = OpenFds
  <1>1. "server" \in FileThreads /\ "heap" \in FileThreads  BY DEF FileThreads
  <1>2. FdsHeld'  BY <1>1 DEF FdsHeld
  <1>3. fio["heap"].at \in {"load", "close"} => fio'["heap"].fd = fio["heap"].fd
    BY <1>1 DEF HasFd
  <1> QED BY <1>2, <1>3 DEF OpenFds

(* Handles change their positions at most, within their files.             *)
LEMMA HandlesMove ==
  ASSUME HandlesHeld, OpenFds' = OpenFds,
         \A f \in OpenFds : files'[f].privdata = files[f].privdata,
         \A h \in RomHandle :
           /\ romHandles'[h].used = romHandles[h].used
           /\ romHandles[h].used =>
                /\ romHandles'[h].name = romHandles[h].name
                /\ romHandles'[h].position <= LengthOf[romHandles[h].name]
  PROVE  HandlesHeld'
  BY DEF HandlesHeld

(* The server's request stands while it and what it is about stay.         *)
LEMMA ServerStays ==
  ASSUME ServerHeld, fio'["server"] = fio["server"],
         UNCHANGED <<wire, eeMemory, edge, bounce>>,
         Serves("read") =>
           LET fd == fio["server"].fd
           IN  /\ fd \in eeFds'
               /\ files'[fd].privdata = files[fd].privdata
               /\ romHandles'[files[fd].privdata] = romHandles[files[fd].privdata]
  PROVE  ServerHeld'
  <1>1. Serves("read")' <=> Serves("read")  BY DEF Serves
  <1>2. Serves("getstat")' <=> Serves("getstat")  BY DEF Serves
  <1>3. ASSUME Serves("read") PROVE ReadHeld'
    <2>1. ReadHeld  BY <1>3 DEF ServerHeld
    <2>2. romHandles'[files'[fio'["server"].fd].privdata]
            = romHandles[files[fio["server"].fd].privdata]
      BY <1>3
    <2>3. fio'["server"].fd \in eeFds'  BY <1>3
    <2> QED BY <2>1, <2>2, <2>3 DEF ReadHeld
  <1>4. Serves("getstat") =>
          /\ fio'["server"].at # "wait" => wire' = <<>>
          /\ wire' = <<>> \/ wire' = <<fio'["server"].block>>
    BY DEF ServerHeld
  <1>5. fio'["server"].at \in {"idle", "open"} =>
          wire' = <<>> /\ eeMemory' = Untouched
    BY DEF ServerHeld
  <1>6. Untouched' = Untouched  BY DEF Untouched
  <1> QED BY <1>1, <1>2, <1>3, <1>4, <1>5, <1>6 DEF ServerHeld

(* What the server reads of is open.                                       *)
LEMMA ReadsOpen ==
  ASSUME FileInv, Serves("read")
  PROVE  LET c == fio["server"]
             h == files[c.fd].privdata
         IN  /\ c \in ReadRequest /\ c.fd \in eeFds /\ c.fd \in OpenFds
             /\ h \in RomHandle /\ romHandles[h].used
             /\ romHandles[h].name \in FileName
  <1>1. fio["server"] \in ReadRequest
    BY DEF FileInv, FileType, Serves, Idling, OpenRequest, ReadRequest, StatRequest
  <1>2. fio["server"].fd \in eeFds  BY DEF FileInv, ServerHeld, ReadHeld
  <1>3. fio["server"].fd \in OpenFds /\ fio["server"].fd \in Fd
    BY <1>2 DEF OpenFds, FileInv, FileType
  <1>4. files[fio["server"].fd].privdata \in RomHandle
    BY <1>3 DEF FileInv, FileType
  <1> QED BY <1>1, <1>2, <1>3, <1>4 DEF FileInv, HandlesHeld

(* An open gives a free record to the thread.                              *)
LEMMA IomanOpenHolds ==
  ASSUME FileIoAssumption, FileInv, NEW t \in FileThreads,
         NEW name \in FileName \cup {Missing}, IomanOpen(t, name)
  PROVE  FileInv'
  <1>1. PICK fd \in Fd : fd = Min(FreeFds) /\ ~files[fd].taken
    <2>1. FreeFds \in SUBSET Nat /\ FreeFds # {}  BY DEF IomanOpen, FreeFds, Fd
    <2> QED BY <2>1, MinOfNaturals DEF FreeFds
  <1>2. /\ fio[t].at = "idle"
        /\ files' = [files EXCEPT ![fd] = [taken |-> TRUE, privdata |-> 0]]
        /\ fio' = [fio EXCEPT ![t] = [at |-> "open", fd |-> fd, name |-> name]]
        /\ UNCHANGED <<romHandles, eeFds, edge, bounce, wire, eeMemory>>
    BY <1>1 DEF IomanOpen
  <1>3. 0 \in RomHandle  BY DEF FileIoAssumption, RomHandle
  <1>4. "server" \in FileThreads /\ "heap" \in FileThreads  BY DEF FileThreads
  <1>5. FileType /\ FdsHeld /\ HandlesHeld /\ ServerHeld  BY DEF FileInv
  <1>6. [at |-> "open", fd |-> fd, name |-> name] \in OpenRequest
    BY DEF OpenRequest
  <1>7. FileType'
    <2>1. files' \in [Fd -> [taken : BOOLEAN, privdata : RomHandle]]
      BY <1>2, <1>3, <1>5 DEF FileType
    <2>2. DOMAIN fio' = FileThreads
          /\ fio'[t] \in OpenRequest
          /\ \A u \in FileThreads \ {t} : fio'[u] = fio[u]
      BY <1>2, <1>5, <1>6 DEF FileType
    <2>3. fio'["server"] \in {Idling} \cup OpenRequest \cup ReadRequest \cup StatRequest
          /\ fio'["heap"] \in {Idling} \cup OpenRequest \cup LoadRequest
      BY <1>4, <1>5, <2>2 DEF FileType
    <2> QED BY <1>2, <1>5, <2>1, <2>2, <2>3 DEF FileType
  <1>8. /\ fio'[t].at = "open" /\ fio'[t].fd = fd
        /\ \A u \in FileThreads \ {t} : fio'[u] = fio[u]
    BY <1>2, <1>5 DEF FileType
  <1>9. /\ files'[fd].taken
        /\ \A f \in Fd \ {fd} : files'[f] = files[f]
    BY <1>2, <1>5 DEF FileType
  <1>10. fd \notin eeFds
         /\ \A u \in FileThreads : HasFd(u) => fio[u].fd # fd
    BY <1>1, <1>5 DEF FdsHeld
  <1>11. FdsHeld'
    BY <1>2, <1>4, <1>5, <1>8, <1>9, <1>10 DEF FdsHeld, HasFd, FileThreads
  <1>12. OpenFds' = OpenFds /\ fd \notin OpenFds /\ OpenFds \subseteq Fd
    BY <1>2, <1>4, <1>5, <1>8, <1>10 DEF OpenFds, HasFd, FileType
  <1>13. HandlesHeld'
    BY <1>2, <1>5, <1>9, <1>12 DEF HandlesHeld
  <1>14. ServerHeld'
    <2>1. CASE t = "server"
      BY <1>2, <1>5, <1>8, <2>1 DEF ServerHeld, Serves, Untouched
    <2>2. CASE t # "server"
      <3>1. fio'["server"] = fio["server"]  BY <1>4, <1>8, <2>2
      <3>2. ASSUME Serves("read")
            PROVE  fio["server"].fd \in eeFds /\ fio["server"].fd # fd
                   /\ fio["server"].fd \in Fd
        BY <1>5, <1>10, <3>2 DEF ServerHeld, ReadHeld, FileType
      <3> QED BY <1>2, <1>5, <1>9, <3>1, <3>2, ServerStays
    <2> QED BY <2>1, <2>2
  <1> QED BY <1>7, <1>11, <1>13, <1>14 DEF FileInv

(* The driver's answer: a handle for the descriptor, or its end.           *)
LEMMA RomOpenHolds ==
  ASSUME FileIoAssumption, FileInv, NEW t \in FileThreads, RomOpen(t)
  PROVE  FileInv'
  <1> DEFINE h == Min(FreeRomHandles)
             opened == /\ fio[t].name \in FileName /\ romBound
                       /\ FreeRomHandles # {}
  <1>1. FileType /\ FdsHeld /\ HandlesHeld /\ ServerHeld  BY DEF FileInv
  <1>2. "server" \in FileThreads /\ "heap" \in FileThreads
        /\ FileThreads = {"server", "heap"}
    BY DEF FileThreads
  <1>3. fio[t].at = "open" /\ HasFd(t)  BY DEF RomOpen, HasFd
  <1>4. fio[t] \in OpenRequest
    BY <1>1, <1>2, <1>3
    DEF FileType, Idling, OpenRequest, ReadRequest, StatRequest, LoadRequest
  <1>5. PICK fd \in Fd : fd = fio[t].fd  BY <1>4 DEF OpenRequest
  <1>6. files[fd].taken /\ fd \notin eeFds
        /\ \A u \in FileThreads \ {t} : HasFd(u) => fio[u].fd # fd
    BY <1>1, <1>2, <1>3, <1>5 DEF FdsHeld
  <1>7. fd \notin OpenFds /\ OpenFds \subseteq Fd
    BY <1>1, <1>2, <1>3, <1>5, <1>6 DEF OpenFds, HasFd, FileType
  <1>8. \A u \in FileThreads \ {t} : fio'[u] = fio[u]
    BY <1>1 DEF RomOpen, FileType
  <1>9. DOMAIN fio' = FileThreads  BY <1>1 DEF RomOpen, FileType
  <1>10. UNCHANGED <<edge, bounce, wire, eeMemory>>  BY DEF RomOpen
  <1>11. ASSUME Serves("read")
         PROVE  /\ fio["server"].fd \in eeFds /\ fio["server"].fd # fd
                /\ fio["server"].fd \in OpenFds
                /\ files[fio["server"].fd].privdata \in RomHandle
                /\ romHandles[files[fio["server"].fd].privdata].used
    BY <1>6, <1>11, ReadsOpen
  <1>12. t = "server" => ~Serves("read") /\ ~Serves("getstat")
                         /\ wire = <<>> /\ eeMemory = Untouched
    BY <1>1, <1>3 DEF Serves, ServerHeld
  <1>13. CASE opened
    <2>1. PICK k \in RomHandle : k = h /\ ~romHandles[k].used
      <3>1. FreeRomHandles \in SUBSET Nat /\ FreeRomHandles # {}
        BY <1>13 DEF FreeRomHandles, RomHandle
      <3> QED BY <3>1, MinOfNaturals DEF FreeRomHandles
    <2>2. /\ romHandles' = [romHandles EXCEPT ![k] =
                 [used |-> TRUE, name |-> fio[t].name, position |-> 0]]
          /\ files' = [files EXCEPT ![fd].privdata = k]
          /\ eeFds' = IF t = "server" THEN eeFds \cup {fd} ELSE eeFds
          /\ fio' = [fio EXCEPT ![t] = IF t = "heap" THEN [@ EXCEPT !.at = "load"]
                                       ELSE Idling]
      BY <1>5, <1>13, <2>1 DEF RomOpen
    <2>3. \A j \in RomHandle \ {k} : romHandles'[j] = romHandles[j]
      BY <1>1, <2>2 DEF FileType
    <2>4. romHandles'[k] = [used |-> TRUE, name |-> fio[t].name, position |-> 0]
      BY <1>1, <2>2 DEF FileType
    <2>5. files'[fd].taken /\ files'[fd].privdata = k
          /\ \A f \in Fd \ {fd} : files'[f] = files[f]
      BY <1>1, <1>6, <2>2 DEF FileType
    <2>6. t = "server" => fio'["server"] = Idling
      BY <1>1, <1>2, <2>2 DEF FileType
    <2>7. t = "heap" => fio'["heap"] = [fio["heap"] EXCEPT !.at = "load"]
      BY <1>1, <1>2, <2>2 DEF FileType
    <2>8. t = "heap" => fio'["heap"] \in LoadRequest /\ fio'["heap"].at = "load"
                        /\ fio'["heap"].fd = fd
      BY <1>4, <1>5, <2>7 DEF OpenRequest, LoadRequest
    <2>9. OpenFds' = OpenFds \cup {fd}
      <3>1. CASE t = "server"
        BY <1>2, <1>5, <1>8, <2>2, <3>1 DEF OpenFds
      <3>2. CASE t = "heap"
        BY <1>2, <1>3, <1>5, <2>2, <2>8, <3>2 DEF OpenFds
      <3> QED BY <1>2, <3>1, <3>2
    <2>10. FileType'
      <3>1. files' \in [Fd -> [taken : BOOLEAN, privdata : RomHandle]]
        BY <1>1, <2>2 DEF FileType
      <3>2. [used |-> TRUE, name |-> fio[t].name, position |-> 0]
              \in [used : BOOLEAN, name : FileName \cup {Missing}, position : Nat]
        BY <1>13
      <3>3. romHandles' \in [RomHandle -> [used : BOOLEAN,
                                           name : FileName \cup {Missing},
                                           position : Nat]]
        BY <1>1, <2>2, <3>2 DEF FileType
      <3>4. fio'["server"] \in {Idling} \cup OpenRequest \cup ReadRequest \cup StatRequest
            /\ fio'["heap"] \in {Idling} \cup OpenRequest \cup LoadRequest
        BY <1>1, <1>2, <1>8, <2>6, <2>8 DEF FileType
      <3>5. eeFds' \subseteq Fd  BY <1>1, <2>2 DEF FileType
      <3> QED BY <1>1, <1>9, <1>10, <3>1, <3>3, <3>4, <3>5 DEF FileType
    <2>11. FdsHeld'
      <3>1. CASE t = "server"
        BY <1>1, <1>2, <1>3, <1>5, <1>6, <1>8, <2>2, <2>5, <2>6, <3>1
        DEF FdsHeld, HasFd, Idling
      <3>2. CASE t = "heap"
        BY <1>1, <1>2, <1>3, <1>5, <1>6, <1>8, <2>2, <2>5, <2>8, <3>2
        DEF FdsHeld, HasFd, Idling
      <3> QED BY <1>2, <3>1, <3>2
    <2>12. \A f \in OpenFds : files[f].privdata # k
      BY <1>1, <2>1 DEF HandlesHeld
    <2>13. HandlesHeld'
      <3>1. \A f, g \in OpenFds' : files'[f].privdata = files'[g].privdata => f = g
        BY <1>1, <1>7, <2>5, <2>9, <2>12 DEF HandlesHeld
      <3>2. \A j \in RomHandle : romHandles'[j].used <=>
              \E f \in OpenFds' : files'[f].privdata = j
        <4> TAKE j \in RomHandle
        <4>1. CASE j = k
          BY <2>4, <2>5, <2>9, <4>1
        <4>2. CASE j # k
          BY <1>1, <1>7, <2>3, <2>5, <2>9, <4>2 DEF HandlesHeld
        <4> QED BY <4>1, <4>2
      <3>3. LengthOf[fio[t].name] \in Nat  BY <1>13 DEF FileIoAssumption
      <3>4. \A j \in RomHandle : romHandles'[j].used =>
              /\ romHandles'[j].name \in FileName
              /\ romHandles'[j].position <= LengthOf[romHandles'[j].name]
        <4> TAKE j \in RomHandle
        <4>1. CASE j = k
          BY <1>13, <2>4, <3>3, <4>1
        <4>2. CASE j # k
          BY <1>1, <2>3, <4>2 DEF HandlesHeld
        <4> QED BY <4>1, <4>2
      <3> QED BY <3>1, <3>2, <3>4 DEF HandlesHeld
    <2>14. ServerHeld'
      <3>1. CASE t = "server"
        BY <1>10, <1>12, <2>6, <3>1 DEF ServerHeld, Serves, Idling, Untouched
      <3>2. CASE t = "heap"
        <4>1. fio'["server"] = fio["server"]  BY <1>2, <1>8, <3>2
        <4>2. ASSUME Serves("read")
              PROVE  LET f == fio["server"].fd
                     IN  /\ f \in eeFds'
                         /\ files'[f].privdata = files[f].privdata
                         /\ romHandles'[files[f].privdata]
                              = romHandles[files[f].privdata]
          BY <1>7, <1>11, <2>1, <2>2, <2>3, <2>5, <3>2, <4>2
        <4> QED BY <1>1, <1>10, <4>1, <4>2, ServerStays
      <3> QED BY <1>2, <3>1, <3>2
    <2> QED BY <2>10, <2>11, <2>13, <2>14 DEF FileInv
  <1>14. CASE ~opened
    <2>1. /\ files' = [files EXCEPT ![fd] = Free]
          /\ UNCHANGED <<romHandles, eeFds>>
          /\ fio' = [fio EXCEPT ![t] = Idling]
      BY <1>5, <1>14 DEF RomOpen
    <2>2. fio'[t] = Idling  BY <1>1, <1>9, <2>1 DEF FileType
    <2>3. ~files'[fd].taken /\ \A f \in Fd \ {fd} : files'[f] = files[f]
      BY <1>1, <2>1 DEF FileType, Free
    <2>4. FileType'
      <3>1. Free \in [taken : BOOLEAN, privdata : RomHandle]
        BY DEF Free, FileIoAssumption, RomHandle
      <3>2. files' \in [Fd -> [taken : BOOLEAN, privdata : RomHandle]]
        BY <1>1, <2>1, <3>1 DEF FileType
      <3>3. fio'["server"] \in {Idling} \cup OpenRequest \cup ReadRequest \cup StatRequest
            /\ fio'["heap"] \in {Idling} \cup OpenRequest \cup LoadRequest
        BY <1>1, <1>2, <1>8, <2>2 DEF FileType
      <3> QED BY <1>1, <1>9, <1>10, <2>1, <3>2, <3>3 DEF FileType
    <2>5. FdsHeld'
      BY <1>1, <1>2, <1>3, <1>5, <1>6, <1>8, <2>1, <2>2, <2>3
      DEF FdsHeld, HasFd, Idling
    <2>6. OpenFds' = OpenFds
      BY <1>2, <1>3, <1>8, <2>1, <2>2 DEF OpenFds, Idling
    <2>7. HandlesHeld'
      BY <1>1, <1>7, <2>1, <2>3, <2>6 DEF HandlesHeld
    <2>8. ServerHeld'
      <3>1. CASE t = "server"
        BY <1>10, <1>12, <2>2, <3>1 DEF ServerHeld, Serves, Idling, Untouched
      <3>2. CASE t = "heap"
        <4>1. fio'["server"] = fio["server"]  BY <1>2, <1>8, <3>2
        <4>2. ASSUME Serves("read")
              PROVE  LET f == fio["server"].fd
                     IN  /\ f \in eeFds'
                         /\ files'[f].privdata = files[f].privdata
                         /\ romHandles'[files[f].privdata]
                              = romHandles[files[f].privdata]
          BY <1>7, <1>11, <2>1, <2>3, <4>2
        <4> QED BY <1>1, <1>10, <4>1, <4>2, ServerStays
      <3> QED BY <1>2, <3>1, <3>2
    <2> QED BY <2>4, <2>5, <2>7, <2>8 DEF FileInv
  <1> QED BY <1>13, <1>14

(* A descriptor's end, of the client's or of the loader's.                 *)
LEMMA CloseHolds ==
  ASSUME FileIoAssumption, FileInv, NEW fd \in OpenFds, IomanClose(fd),
         OpenFds' = OpenFds \ {fd}
  PROVE  /\ files' \in [Fd -> [taken : BOOLEAN, privdata : RomHandle]]
         /\ romHandles' \in [RomHandle -> [used : BOOLEAN,
                                           name : FileName \cup {Missing},
                                           position : Nat]]
         /\ ~files'[fd].taken /\ \A f \in Fd \ {fd} : files'[f] = files[f]
         /\ HandlesHeld'
         /\ \A f \in OpenFds \ {fd} :
              romHandles'[files[f].privdata] = romHandles[files[f].privdata]
  <1>1. FileType /\ HandlesHeld  BY DEF FileInv
  <1>2. OpenFds \subseteq Fd  BY <1>1 DEF OpenFds, FileType
  <1>3. PICK h \in RomHandle : h = files[fd].privdata  BY <1>1, <1>2 DEF FileType
  <1>4. /\ files' = [files EXCEPT ![fd] = Free]
        /\ romHandles' = [romHandles EXCEPT ![h] = Unused]
    BY <1>3 DEF IomanClose
  <1>5. Free \in [taken : BOOLEAN, privdata : RomHandle] /\ ~Free.taken
    BY DEF Free, FileIoAssumption, RomHandle
  <1>6. Unused \in [used : BOOLEAN, name : FileName \cup {Missing}, position : Nat]
        /\ ~Unused.used
    BY DEF Unused
  <1>7. ~files'[fd].taken /\ \A f \in Fd \ {fd} : files'[f] = files[f]
    BY <1>1, <1>2, <1>4, <1>5 DEF FileType
  <1>8. ~romHandles'[h].used
        /\ \A j \in RomHandle \ {h} : romHandles'[j] = romHandles[j]
    BY <1>1, <1>4, <1>6 DEF FileType
  <1>9. \A f \in OpenFds \ {fd} : files[f].privdata \in RomHandle \ {h}
    BY <1>1, <1>2, <1>3 DEF HandlesHeld, FileType
  <1>10. HandlesHeld'
    <2>1. \A f, g \in OpenFds' : files'[f].privdata = files'[g].privdata => f = g
      BY <1>1, <1>2, <1>7 DEF HandlesHeld
    <2>2. \A j \in RomHandle : romHandles'[j].used <=>
            \E f \in OpenFds' : files'[f].privdata = j
      <3> TAKE j \in RomHandle
      <3>1. CASE j = h
        BY <1>2, <1>7, <1>8, <1>9, <3>1
      <3>2. CASE j # h
        BY <1>1, <1>2, <1>3, <1>7, <1>8, <3>2 DEF HandlesHeld
      <3> QED BY <3>1, <3>2
    <2>3. \A j \in RomHandle : romHandles'[j].used =>
            /\ romHandles'[j].name \in FileName
            /\ romHandles'[j].position <= LengthOf[romHandles'[j].name]
      BY <1>1, <1>8 DEF HandlesHeld
    <2> QED BY <2>1, <2>2, <2>3 DEF HandlesHeld
  <1>11. files' \in [Fd -> [taken : BOOLEAN, privdata : RomHandle]]
    BY <1>1, <1>4, <1>5 DEF FileType
  <1>12. romHandles' \in [RomHandle -> [used : BOOLEAN,
                                        name : FileName \cup {Missing},
                                        position : Nat]]
    BY <1>1, <1>4, <1>6 DEF FileType
  <1> QED BY <1>7, <1>8, <1>9, <1>10, <1>11, <1>12

LEMMA ServeCloseHolds ==
  ASSUME FileIoAssumption, FileInv, NEW fd \in Fd, ServeClose(fd)
  PROVE  FileInv'
  <1>1. FileType /\ FdsHeld /\ HandlesHeld /\ ServerHeld  BY DEF FileInv
  <1>2. /\ fio["server"].at = "idle" /\ fd \in eeFds /\ IomanClose(fd)
        /\ eeFds' = eeFds \ {fd}
        /\ UNCHANGED <<fio, edge, bounce, wire, eeMemory>>
    BY DEF ServeClose
  <1>3. fio["heap"].at \in {"load", "close"} => fio["heap"].fd # fd
    BY <1>1, <1>2 DEF FdsHeld, HasFd, FileThreads
  <1>4. fd \in OpenFds /\ OpenFds' = OpenFds \ {fd}
    BY <1>2, <1>3 DEF OpenFds
  <1>5. /\ files' \in [Fd -> [taken : BOOLEAN, privdata : RomHandle]]
        /\ romHandles' \in [RomHandle -> [used : BOOLEAN,
                                          name : FileName \cup {Missing},
                                          position : Nat]]
        /\ ~files'[fd].taken /\ \A f \in Fd \ {fd} : files'[f] = files[f]
        /\ HandlesHeld'
    BY <1>2, <1>4, CloseHolds
  <1>6. FileType'  BY <1>1, <1>2, <1>5 DEF FileType
  <1>7. FdsHeld'  BY <1>1, <1>2, <1>5 DEF FdsHeld, HasFd
  <1>8. ServerHeld'
    BY <1>1, <1>2 DEF ServerHeld, Serves, Untouched
  <1> QED BY <1>5, <1>6, <1>7, <1>8 DEF FileInv

LEMMA HeapCloseHolds ==
  ASSUME FileIoAssumption, FileInv, HeapClose
  PROVE  FileInv'
  <1>1. FileType /\ FdsHeld /\ HandlesHeld /\ ServerHeld  BY DEF FileInv
  <1>2. /\ fio["heap"].at = "close" /\ IomanClose(fio["heap"].fd)
        /\ fio' = [fio EXCEPT !["heap"] = Idling]
        /\ UNCHANGED <<eeFds, edge, bounce, wire, eeMemory>>
    BY DEF HeapClose
  <1>3. "heap" \in FileThreads /\ "server" \in FileThreads  BY DEF FileThreads
  <1>4. fio["heap"] \in LoadRequest
    BY <1>1, <1>2 DEF FileType, Idling, OpenRequest, LoadRequest
  <1>5. PICK fd \in Fd : fd = fio["heap"].fd  BY <1>4 DEF LoadRequest
  <1>6. fio'["heap"] = Idling /\ fio'["server"] = fio["server"]
        /\ DOMAIN fio' = FileThreads
    BY <1>1, <1>2, <1>3 DEF FileType
  <1>7. fd \in OpenFds /\ fd \notin eeFds
        /\ (HasFd("server") => fio["server"].fd # fd)
    BY <1>1, <1>2, <1>3, <1>5 DEF OpenFds, FdsHeld, HasFd
  <1>8. OpenFds' = OpenFds \ {fd}
    BY <1>2, <1>5, <1>6, <1>7 DEF OpenFds, Idling
  <1>9. /\ files' \in [Fd -> [taken : BOOLEAN, privdata : RomHandle]]
        /\ romHandles' \in [RomHandle -> [used : BOOLEAN,
                                          name : FileName \cup {Missing},
                                          position : Nat]]
        /\ ~files'[fd].taken /\ \A f \in Fd \ {fd} : files'[f] = files[f]
        /\ HandlesHeld'
        /\ \A f \in OpenFds \ {fd} :
             romHandles'[files[f].privdata] = romHandles[files[f].privdata]
    BY <1>2, <1>5, <1>7, <1>8, CloseHolds
  <1>10. FileType'  BY <1>1, <1>2, <1>6, <1>9 DEF FileType
  <1>11. FdsHeld'
    BY <1>1, <1>2, <1>3, <1>5, <1>6, <1>7, <1>9
    DEF FdsHeld, HasFd, Idling, FileThreads
  <1>12. ServerHeld'
    <2>1. ASSUME Serves("read")
          PROVE  /\ fio["server"].fd \in eeFds' /\ fio["server"].fd \in Fd \ {fd}
                 /\ fio["server"].fd \in OpenFds \ {fd}
      BY <1>1, <1>2, <1>7, <2>1, ReadsOpen DEF FileType
    <2>2. ASSUME Serves("read")
          PROVE  LET f == fio["server"].fd
                 IN  /\ f \in eeFds'
                     /\ files'[f].privdata = files[f].privdata
                     /\ romHandles'[files[f].privdata]
                          = romHandles[files[f].privdata]
      BY <1>9, <2>1, <2>2
    <2> QED BY <1>1, <1>2, <1>6, <2>2, ServerStays
  <1> QED BY <1>9, <1>10, <1>11, <1>12 DEF FileInv

(* lseek stays within the file.                                            *)
LEMMA LseekHolds ==
  ASSUME FileIoAssumption, FileInv, NEW fd \in Fd, NEW offset \in {-1, 2},
         NEW whence \in 0..2, ServeLseek(fd, offset, whence)
  PROVE  FileInv'
  <1>1. FileType /\ FdsHeld /\ HandlesHeld /\ ServerHeld  BY DEF FileInv
  <1>2. fd \in eeFds /\ fio["server"].at = "idle" /\ fd \in OpenFds
    BY DEF ServeLseek, OpenFds
  <1>3. PICK h \in RomHandle : h = files[fd].privdata  BY <1>1 DEF FileType
  <1>4. romHandles[h].used /\ romHandles[h].name \in FileName
    BY <1>1, <1>2, <1>3 DEF HandlesHeld
  <1> DEFINE size == LengthOf[romHandles[h].name]
             from == CASE whence = 0 -> 0
                       [] whence = 1 -> romHandles[h].position
                       [] whence = 2 -> size
             sought == Max({0, Min({from + offset, size})})
  <1>5. size \in Nat /\ romHandles[h].position \in Nat
    BY <1>1, <1>4 DEF FileIoAssumption, FileType
  <1>6. from + offset \in Int
    <2>1. CASE whence = 0  BY <2>1
    <2>2. CASE whence = 1  BY <1>5, <2>2
    <2>3. CASE whence = 2  BY <1>5, <2>3
    <2> QED BY <2>1, <2>2, <2>3
  <1>7. sought \in Nat /\ sought <= size
    <2> HIDE DEF from, size
    <2> DEFINE low == Min({from + offset, size})
    <2>1. low \in Int /\ low <= size  BY <1>5, <1>6, MinMaxOfTwo
    <2> HIDE DEF low
    <2>2. Max({0, low}) \in Nat /\ Max({0, low}) <= size
      <3>0. 0 \in Int  OBVIOUS
      <3>1. Max({0, low}) = IF 0 <= low THEN low ELSE 0
        BY <2>1, <3>0, MinMaxOfTwo, Zenon
      <3> QED BY <1>5, <2>1, <3>1
    <2> QED BY <2>2 DEF low
  <1>8. /\ romHandles' = [romHandles EXCEPT ![h].position = sought]
        /\ UNCHANGED <<files, fio, eeFds, edge, bounce, wire, eeMemory>>
    BY <1>3 DEF ServeLseek
  <1> HIDE DEF sought
  <1>9. FileType'
    <2>1. romHandles' \in [RomHandle -> [used : BOOLEAN,
                                         name : FileName \cup {Missing},
                                         position : Nat]]
      BY <1>1, <1>7, <1>8 DEF FileType
    <2> QED BY <1>1, <1>8, <2>1 DEF FileType
  <1>10. FdsHeld' /\ OpenFds' = OpenFds
    BY <1>1, <1>8 DEF FdsHeld, HasFd, OpenFds
  <1>11. HandlesHeld'
    <2>1. OpenFds \subseteq Fd  BY <1>1 DEF OpenFds, FileType
    <2>2. \A j \in RomHandle : j # h => romHandles'[j] = romHandles[j]
      BY <1>1, <1>8 DEF FileType
    <2>3. /\ romHandles'[h].used = romHandles[h].used
          /\ romHandles'[h].name = romHandles[h].name
          /\ romHandles'[h].position <= size
      BY <1>1, <1>7, <1>8 DEF FileType
    <2>4. \A j \in RomHandle :
            /\ romHandles'[j].used = romHandles[j].used
            /\ romHandles[j].used =>
                 /\ romHandles'[j].name = romHandles[j].name
                 /\ romHandles'[j].position <= LengthOf[romHandles[j].name]
      <3> TAKE j \in RomHandle
      <3>1. CASE j = h  BY <2>3, <3>1
      <3>2. CASE j # h  BY <1>1, <2>2, <3>2 DEF HandlesHeld
      <3> QED BY <3>1, <3>2
    <2>5. \A f \in OpenFds : files'[f].privdata = files[f].privdata  BY <1>8
    <2> QED BY <1>1, <1>10, <2>4, <2>5, HandlesMove
  <1>12. ServerHeld'
    BY <1>1, <1>2, <1>8 DEF ServerHeld, Serves, Untouched
  <1> QED BY <1>9, <1>10, <1>11, <1>12 DEF FileInv

(* A read gives no more than was wanted and than there is.                 *)
LEMMA GivesWithin ==
  ASSUME FileIoAssumption, FileType, HandlesHeld, NEW h \in RomHandle,
         romHandles[h].used, NEW wanted \in Nat, NEW got \in Gives(h, wanted)
  PROVE  /\ got \in Nat /\ got <= wanted
         /\ romHandles[h].position + got <= LengthOf[romHandles[h].name]
  <1> DEFINE rest == LengthOf[romHandles[h].name] - romHandles[h].position
             there == Min({wanted, rest})
  <1>1. /\ romHandles[h].position \in Nat
        /\ romHandles[h].name \in FileName
        /\ romHandles[h].position <= LengthOf[romHandles[h].name]
    BY DEF FileType, HandlesHeld
  <1>2. LengthOf[romHandles[h].name] \in Nat  BY <1>1 DEF FileIoAssumption
  <1>3. rest \in Nat  BY <1>1, <1>2
  <1>4. got \in {there, there \div 2}  BY DEF Gives
  <1>5. there \in Nat /\ there <= wanted /\ there <= rest
    <2> HIDE DEF rest
    <2> QED BY <1>3, MinMaxOfTwo
  <1> HIDE DEF there
  <1>6. there \div 2 \in Nat /\ there \div 2 <= there  BY <1>5
  <1>7. got \in Nat /\ got <= there  BY <1>4, <1>5, <1>6
  <1> QED BY <1>1, <1>2, <1>5, <1>7

(* What a read does to the handles.                                        *)
LEMMA MovedHolds ==
  ASSUME FileIoAssumption, FileInv, NEW h \in RomHandle, romHandles[h].used,
         NEW got \in Nat,
         romHandles[h].position + got <= LengthOf[romHandles[h].name],
         romHandles' = Moved(h, got)
  PROVE  /\ romHandles' \in [RomHandle -> [used : BOOLEAN,
                                           name : FileName \cup {Missing},
                                           position : Nat]]
         /\ romHandles'[h].name = romHandles[h].name
         /\ romHandles'[h].position = romHandles[h].position + got
         /\ \A j \in RomHandle \ {h} : romHandles'[j] = romHandles[j]
         /\ files' = files /\ OpenFds' = OpenFds => HandlesHeld'
  <1>1. FileType /\ HandlesHeld  BY DEF FileInv
  <1>0. romHandles \in [RomHandle -> [used : BOOLEAN,
                                      name : FileName \cup {Missing},
                                      position : Nat]]
    BY <1>1 DEF FileType
  <1>2. PICK p \in Nat : p = romHandles[h].position + got
    BY <1>0
  <1>3. romHandles' = [romHandles EXCEPT ![h].position = p]
    BY <1>2 DEF Moved
  <1>4. romHandles' \in [RomHandle -> [used : BOOLEAN,
                                       name : FileName \cup {Missing},
                                       position : Nat]]
    BY <1>0, <1>2, <1>3
  <1>5. /\ romHandles'[h].used = romHandles[h].used
        /\ romHandles'[h].name = romHandles[h].name
        /\ romHandles'[h].position = romHandles[h].position + got
    <2>0. romHandles'[h] = [romHandles[h] EXCEPT !.position = p]  BY <1>0, <1>3
    <2>1. /\ romHandles'[h].used = romHandles[h].used
          /\ romHandles'[h].name = romHandles[h].name
          /\ romHandles'[h].position = p
      BY <1>0, <2>0
    <2> QED BY <1>2, <2>1
  <1>6. \A j \in RomHandle \ {h} : romHandles'[j] = romHandles[j]
    BY <1>0, <1>3
  <1>7. \A j \in RomHandle :
          /\ romHandles'[j].used = romHandles[j].used
          /\ romHandles[j].used =>
               /\ romHandles'[j].name = romHandles[j].name
               /\ romHandles'[j].position <= LengthOf[romHandles[j].name]
    <2> TAKE j \in RomHandle
    <2>1. CASE j = h  BY <1>5, <2>1
    <2>2. CASE j # h  BY <1>1, <1>6, <2>2 DEF HandlesHeld
    <2> QED BY <2>1, <2>2
  <1>8. ASSUME files' = files, OpenFds' = OpenFds PROVE HandlesHeld'
    <2>1. \A f \in OpenFds : files'[f].privdata = files[f].privdata  BY <1>8
    <2> QED BY <1>1, <1>7, <1>8, <2>1, HandlesMove
  <1> QED BY <1>4, <1>5, <1>6, <1>8

(* The other server's read is of its own handle.                           *)
LEMMA LoadHolds ==
  ASSUME FileIoAssumption, FileInv, NEW got, LoadIntoHeap(got)
  PROVE  FileInv'
  <1>1. FileType /\ FdsHeld /\ HandlesHeld /\ ServerHeld  BY DEF FileInv
  <1>2. "heap" \in FileThreads /\ "server" \in FileThreads  BY DEF FileThreads
  <1>3. fio["heap"].at = "load"  BY DEF LoadIntoHeap
  <1>4. fio["heap"] \in LoadRequest
    BY <1>1, <1>3 DEF FileType, Idling, OpenRequest, LoadRequest
  <1>5. PICK fd \in Fd : fd = fio["heap"].fd  BY <1>4 DEF LoadRequest
  <1>6. fd \in OpenFds /\ fd \notin eeFds
    BY <1>1, <1>2, <1>3, <1>5 DEF OpenFds, FdsHeld, HasFd
  <1>7. PICK h \in RomHandle : h = files[fd].privdata  BY <1>1 DEF FileType
  <1>8. romHandles[h].used /\ romHandles[h].name \in FileName
    BY <1>1, <1>6, <1>7 DEF HandlesHeld
  <1>9. /\ got \in Gives(h, LengthOf[romHandles[h].name])
        /\ romHandles' = Moved(h, got)
        /\ fio' = [fio EXCEPT !["heap"].at = "close"]
        /\ UNCHANGED <<files, eeFds, edge, bounce, wire, eeMemory>>
    BY <1>5, <1>7 DEF LoadIntoHeap
  <1>10. LengthOf[romHandles[h].name] \in Nat  BY <1>8 DEF FileIoAssumption
  <1>11. got \in Nat
         /\ romHandles[h].position + got <= LengthOf[romHandles[h].name]
    BY <1>1, <1>8, <1>9, <1>10, GivesWithin
  <1>12. /\ fio'["heap"] \in LoadRequest /\ fio'["heap"].at = "close"
         /\ fio'["heap"].fd = fio["heap"].fd
         /\ fio'["server"] = fio["server"] /\ DOMAIN fio' = FileThreads
    BY <1>1, <1>2, <1>4, <1>9 DEF LoadRequest, FileType
  <1>13. FdsHeld' /\ OpenFds' = OpenFds
    <2>1. \A t \in FileThreads :
            /\ HasFd(t)' <=> HasFd(t)
            /\ HasFd(t) => fio'[t].fd = fio[t].fd
      BY <1>3, <1>12 DEF FileThreads, HasFd
    <2> QED BY <1>1, <1>3, <1>9, <1>12, <2>1, FdsStay
  <1>14. /\ romHandles' \in [RomHandle -> [used : BOOLEAN,
                                           name : FileName \cup {Missing},
                                           position : Nat]]
         /\ \A j \in RomHandle \ {h} : romHandles'[j] = romHandles[j]
         /\ HandlesHeld'
    BY <1>8, <1>9, <1>11, <1>13, MovedHolds
  <1>15. FileType'  BY <1>1, <1>9, <1>12, <1>14 DEF FileType
  <1>16. ServerHeld'
    <2>1. ASSUME Serves("read")
          PROVE  LET f == fio["server"].fd
                 IN  /\ f \in eeFds'
                     /\ files'[f].privdata = files[f].privdata
                     /\ romHandles'[files[f].privdata]
                          = romHandles[files[f].privdata]
      <3>1. fio["server"].fd \in eeFds /\ fio["server"].fd \in OpenFds
            /\ files[fio["server"].fd].privdata \in RomHandle
        BY <2>1, ReadsOpen
      <3>2. files[fio["server"].fd].privdata # h
        BY <1>1, <1>6, <1>7, <3>1 DEF HandlesHeld
      <3> QED BY <1>9, <1>14, <3>1, <3>2
    <2> QED BY <1>1, <1>9, <1>12, <2>1, ServerStays
  <1> QED BY <1>13, <1>14, <1>15, <1>16 DEF FileInv

(* The unit comes and goes.                                                *)
LEMMA RomBoundHolds ==
  ASSUME FileInv, RomDelDevice \/ RomAddDevice
  PROVE  FileInv'
  <1>1. FileType /\ FdsHeld /\ HandlesHeld /\ ServerHeld  BY DEF FileInv
  <1>2. UNCHANGED <<files, romHandles, fio, eeFds, edge, bounce, wire, eeMemory>>
    BY DEF RomDelDevice, RomAddDevice
  <1>3. FileType'  BY <1>1, <1>2 DEF FileType
  <1>4. FdsHeld' /\ OpenFds' = OpenFds
    BY <1>1, <1>2 DEF FdsHeld, HasFd, OpenFds
  <1>5. HandlesHeld'  BY <1>1, <1>2, <1>4 DEF HandlesHeld
  <1>6. ServerHeld'
    BY <1>1, <1>2 DEF ServerHeld, Serves, ReadHeld, Untouched
  <1> QED BY <1>3, <1>4, <1>5, <1>6 DEF FileInv

(* The server alone goes on, with its own part of the state.               *)
LEMMA ServerAlone ==
  ASSUME FileInv, files' = files, eeFds' = eeFds, DOMAIN fio' = FileThreads,
         fio'["heap"] = fio["heap"],
         ~HasFd("server"), ~HasFd("server")'
  PROVE  FdsHeld' /\ OpenFds' = OpenFds
         /\ (romHandles' = romHandles => HandlesHeld')
  <1>1. FdsHeld /\ HandlesHeld  BY DEF FileInv
  <1>2. \A t \in FileThreads :
          /\ HasFd(t)' <=> HasFd(t)
          /\ HasFd(t) => fio'[t].fd = fio[t].fd
    BY DEF FileThreads, HasFd
  <1>3. FdsHeld' /\ OpenFds' = OpenFds  BY <1>1, <1>2, FdsStay
  <1> QED BY <1>1, <1>3 DEF HandlesHeld

(* The parts depend on where the read goes and how long it is only.        *)
LEMMA SameParts ==
  ASSUME NEW c, NEW e, e.dest = c.dest, e.length = c.length
  PROVE  /\ OffsetOf(e) = OffsetOf(c) /\ HeadOf(e) = HeadOf(c)
         /\ MiddleOf(e) = MiddleOf(c) /\ TailOf(e) = TailOf(c)
  BY DEF OffsetOf, HeadOf, MiddleOf, TailOf

(* The server's own state changes, and it holds no descriptor then.        *)
LEMMA ServerGoesOn ==
  ASSUME FileInv, UNCHANGED <<files, romHandles, eeFds>>,
         fio' = [fio EXCEPT !["server"] = fio'["server"]],
         fio["server"].at # "open",
         fio'["server"] \in {Idling} \cup ReadRequest \cup StatRequest,
         DOMAIN edge' = 0..2 * Block - 1, DOMAIN bounce' = 0..Bounce - 1,
         ServerHeld'
  PROVE  FileInv'
  <1>1. FileType  BY DEF FileInv
  <1>2. "heap" \in FileThreads /\ "server" \in FileThreads  BY DEF FileThreads
  <1>3. DOMAIN fio' = FileThreads /\ fio'["heap"] = fio["heap"]
    BY <1>1, <1>2 DEF FileType
  <1>4. ~HasFd("server")
    BY <1>1 DEF FileType, HasFd, Idling, OpenRequest, ReadRequest, StatRequest
  <1>5. ~HasFd("server")'
    BY DEF HasFd, Idling, ReadRequest, StatRequest
  <1>6. FdsHeld' /\ HandlesHeld'  BY <1>3, <1>4, <1>5, ServerAlone
  <1>7. FileType'  BY <1>1, <1>3 DEF FileType
  <1> QED BY <1>6, <1>7 DEF FileInv

(* A read is begun with the part that comes first.                         *)
LEMMA ServeReadHolds ==
  ASSUME FileIoAssumption, FileInv, NEW fd \in Fd, NEW dest \in Dests,
         NEW length \in Lengths, ServeRead(fd, dest, length)
  PROVE  FileInv'
  <1>1. FileType /\ HandlesHeld /\ ServerHeld  BY DEF FileInv
  <1>2. PICK h \in RomHandle : h = files[fd].privdata  BY <1>1 DEF FileType
  <1> DEFINE c == [at |-> "fetch", call |-> "read", fd |-> fd, dest |-> dest,
                   length |-> length, start |-> romHandles[h].position,
                   total |-> 0, done |-> 0, part |-> "small", block |-> Zero]
             p == IF length < Block THEN "small"
                  ELSE IF HeadOf(c) # 0 THEN "head" ELSE PartAfter(c, 0)
  <1>3. /\ fio["server"].at = "idle" /\ fd \in eeFds /\ length > 0
        /\ fio' = [fio EXCEPT !["server"] =
                     IF length < Block THEN c
                     ELSE [c EXCEPT !.part = IF HeadOf(c) # 0 THEN "head"
                                             ELSE PartAfter(c, 0)]]
        /\ UNCHANGED <<files, romHandles, eeFds, edge, bounce, wire, eeMemory>>
    BY <1>2 DEF ServeRead
  <1>4. PICK e : e = fio'["server"]  OBVIOUS
  <1>5. e = [c EXCEPT !.part = p]
    <2>1. e = IF length < Block THEN c
              ELSE [c EXCEPT !.part = IF HeadOf(c) # 0 THEN "head"
                                      ELSE PartAfter(c, 0)]
      <3> HIDE DEF c
      <3> QED BY <1>1, <1>3, <1>4 DEF FileType, FileThreads
    <2> QED BY <2>1
  <1>6. dest \in Nat /\ length \in Nat /\ Block \in Nat \ {0}
    BY DEF FileIoAssumption
  <1>7. romHandles[h].position \in Nat  BY <1>1 DEF FileType
  <1>8. /\ e.at = "fetch" /\ e.call = "read" /\ e.fd = fd /\ e.dest = dest
        /\ e.length = length /\ e.start = romHandles[h].position
        /\ e.total = 0 /\ e.done = 0 /\ e.part = p
    BY <1>5
  <1>9. /\ HeadOf(e) = HeadOf(c) /\ MiddleOf(e) = MiddleOf(c)
        /\ TailOf(e) = TailOf(c)
    BY <1>8, SameParts
  <1>10. p \in FilePart
    BY DEF FilePart, PartAfter
  <1>11. e \in ReadRequest
    <2>1. c \in ReadRequest
      BY <1>3, <1>6, <1>7 DEF ReadRequest, FilePart
    <2> HIDE DEF c, p
    <2> QED BY <1>5, <1>10, <2>1 DEF ReadRequest
  <1>12. /\ HeadOf(e) \in 0..Block - 1
         /\ length >= Block =>
              /\ MiddleOf(e) \in Nat
              /\ HeadOf(e) = 0 => MiddleOf(e) > 0
    BY <1>6, <1>8, PartsOfRead
  <1>13. p = IF length < Block THEN "small"
             ELSE IF HeadOf(e) # 0 THEN "head" ELSE "middle"
    BY <1>6, <1>9, <1>12 DEF PartAfter
  <1> HIDE DEF c, p
  <1>14. PartFits(e) /\ e.part # "end"
    BY <1>6, <1>8, <1>12, <1>13 DEF PartFits
  <1>15. wire = <<>> /\ eeMemory = Untouched
    BY <1>1, <1>3 DEF ServerHeld
  <1>16. ReadSound(e, romHandles[h], wire, edge, bounce, eeMemory)
    <2>1. ~Outstanding(e, wire)  BY <1>8, <1>15 DEF Outstanding
    <2>2. \A k \in 0..EETop : eeMemory[k] = Old  BY <1>15 DEF Untouched
    <2>3. romHandles[h].position = e.start + e.total  BY <1>7, <1>8
    <2>4. e.total <= e.length  BY <1>6, <1>8
    <2>5. 0..e.total - 1 = {}  BY <1>8
    <2> QED BY <1>8, <1>14, <1>15, <2>1, <2>2, <2>3, <2>4, <2>5 DEF ReadSound
  <1>17. ServerHeld'
    <2>1. ReadHeld'
      <3>1. fio'["server"].fd \in eeFds'
            /\ romHandles'[files'[fio'["server"].fd].privdata] = romHandles[h]
        BY <1>2, <1>3, <1>4, <1>8
      <3>2. ReadSound(fio'["server"], romHandles'[files'[fio'["server"].fd].privdata],
                      wire', edge', bounce', eeMemory')
        BY <1>3, <1>4, <1>16, <3>1
      <3> QED BY <3>1, <3>2 DEF ReadHeld
    <2>2. fio'["server"].at = "fetch" /\ fio'["server"].call = "read"
      BY <1>4, <1>8
    <2> QED BY <2>1, <2>2 DEF ServerHeld, Serves
  <1>18. fio' = [fio EXCEPT !["server"] = fio'["server"]]
    BY <1>1, <1>3, <1>4 DEF FileType, FileThreads
  <1> QED BY <1>1, <1>3, <1>4, <1>11, <1>17, <1>18, ServerGoesOn DEF FileType

LEMMA PlaceInBlock ==
  ASSUME NEW d \in Nat, NEW t \in Nat, NEW got \in Nat, NEW at \in Nat,
         NEW to \in Int, NEW size \in Int, NEW k \in 0..t + got - 1,
         to + at = d + t, at + got <= size, t = 0 \/ at = 0
  PROVE  /\ to <= d + k /\ d + k < to + size <=> k >= t
         /\ k >= t => k - t \in 0..got - 1 /\ d + k - to = at + (k - t)
         /\ k < t => k \in 0..t - 1
  OBVIOUS

(* Request e is c after a fetch of got bytes: its block has them, from the *)
(* index at on of buffer u or v; r and s are the handle before and after.  *)
Fetched(c, e, r, s, u, v, got, at) ==
  /\ c \in ReadRequest /\ e \in ReadRequest /\ got \in Nat /\ at \in Nat
  /\ c.at = "fetch" /\ e.at = "send"
  /\ e.dest = c.dest /\ e.length = c.length /\ e.start = c.start
  /\ e.total = c.total + got /\ e.total <= e.length /\ PartFits(e)
  /\ s.name = r.name /\ s.position = r.position + got
  /\ e.block \in FileBlock /\ e.block.from # "stat"
  /\ e.block.to >= e.dest - OffsetOf(e)
  /\ e.block.to + e.block.size <= AlignUp(e.dest + e.length)
  /\ e.block.to + at = c.dest + c.total /\ at + got <= e.block.size
  /\ c.total = 0 \/ at = 0
  /\ \A j \in 0..got - 1 :
       (IF e.block.from = "edge" THEN u ELSE v)[at + j]
         = <<r.name, r.position + j>>

LEMMA FetchSound ==
  ASSUME FileIoAssumption, NEW c, NEW e, NEW r, NEW s, NEW m,
         NEW x, NEW y, NEW u, NEW v, NEW got, NEW at,
         Fetched(c, e, r, s, u, v, got, at), ReadSound(c, r, <<>>, x, y, m)
  PROVE  ReadSound(e, s, <<>>, u, v, m)
  <1>a. /\ c \in ReadRequest /\ e \in ReadRequest /\ got \in Nat /\ at \in Nat
        /\ c.at = "fetch" /\ e.at = "send"
        /\ e.dest = c.dest /\ e.length = c.length /\ e.start = c.start
        /\ e.total = c.total + got /\ e.total <= e.length /\ PartFits(e)
        /\ s.name = r.name /\ s.position = r.position + got
        /\ e.block \in FileBlock /\ e.block.from # "stat"
        /\ e.block.to >= e.dest - OffsetOf(e)
        /\ e.block.to + e.block.size <= AlignUp(e.dest + e.length)
        /\ e.block.to + at = c.dest + c.total /\ at + got <= e.block.size
        /\ c.total = 0 \/ at = 0
    BY DEF Fetched
  <1>b. \A j \in 0..got - 1 :
          (IF e.block.from = "edge" THEN u ELSE v)[at + j]
            = <<r.name, r.position + j>>
    BY DEF Fetched
  <1>1. PICK d \in Nat, t \in Nat, b \in Nat :
          d = c.dest /\ t = c.total /\ b = c.start
    BY <1>a DEF ReadRequest, FileIoAssumption
  <1>2. PICK to \in Int, size \in Int : to = e.block.to /\ size = e.block.size
    BY <1>a DEF FileBlock
  <1>3. Outstanding(e, <<>>) /\ ~Outstanding(c, <<>>)  BY <1>a DEF Outstanding
  <1>4. e.dest = d /\ e.start = b /\ e.total = t + got /\ to + at = d + t
        /\ at + got <= size /\ (t = 0 \/ at = 0)
    BY <1>a, <1>1, <1>2
  <1>5. r.position = b + t /\ s.position = b + (t + got)
    <2>1. r.position = b + t  BY <1>1 DEF ReadSound
    <2> QED BY <1>a, <1>1, <2>1
  <1>6. ASSUME NEW k \in 0..t + got - 1
        PROVE  /\ to <= d + k /\ d + k < to + size <=> k >= t
               /\ k >= t => k - t \in 0..got - 1 /\ d + k - to = at + (k - t)
               /\ k < t => k \in 0..t - 1
    <2>1. got \in Nat /\ at \in Nat  BY <1>a
    <2>2. t \in Nat /\ d \in Nat /\ to \in Int /\ size \in Int
      BY <1>1, <1>2
    <2>3. k \in Nat /\ k <= t + got - 1  BY <1>6, <2>1, <2>2
    <2>4. to + at = d + t /\ at + got <= size /\ (t = 0 \/ at = 0)
      BY <1>4
    <2>5. to <= d + k /\ d + k < to + size <=> k >= t
      BY <2>1, <2>2, <2>3, <2>4
    <2>6. k >= t => k - t \in 0..got - 1 /\ d + k - to = at + (k - t)
      BY <2>1, <2>2, <2>3, <2>4
    <2> QED BY <2>2, <2>3, <2>5, <2>6
  <1>7. ASSUME NEW k \in 0..t + got - 1
        PROVE  IF to <= d + k /\ d + k < to + size
               THEN (IF e.block.from = "edge" THEN u ELSE v)[d + k - to]
                      = <<s.name, b + k>>
               ELSE m[d + k] = <<s.name, b + k>>
    <2>1. CASE k >= t
      <3>1. PICK j \in 0..got - 1 : j = k - t /\ d + k - to = at + j
        BY <1>6, <2>1
      <3>2. r.position = b + t /\ k \in Int /\ j \in Int  BY <1>5, <3>1
      <3>3. r.position + j = b + k
        <4> HIDE <1>4
        <4> QED BY <3>1, <3>2
      <3> QED BY <1>a, <1>b, <1>6, <2>1, <3>1, <3>3
    <2>2. CASE k < t
      <3>1. k \in 0..c.total - 1  BY <1>1, <1>6, <2>2
      <3>2. m[c.dest + k] = <<r.name, c.start + k>>
        BY <1>3, <3>1 DEF ReadSound
      <3>3. ~(k >= t)  BY <2>2
      <3> QED BY <1>a, <1>1, <1>6, <3>2, <3>3
    <2> QED BY <2>1, <2>2
  <1>8. \A k \in 0..EETop :
          k < e.dest - OffsetOf(e) \/ k >= AlignUp(e.dest + e.length)
            => m[k] = Old
    <2>1. OffsetOf(e) = OffsetOf(c)  BY <1>a, SameParts
    <2> QED BY <1>a, <2>1 DEF ReadSound
  <1>9. \A k \in 0..e.total - 1 :
          IF Covers(e.block, e.dest + k)
          THEN (IF e.block.from = "edge" THEN u ELSE v)[e.dest + k - e.block.to]
                 = <<s.name, e.start + k>>
          ELSE m[e.dest + k] = <<s.name, e.start + k>>
    <2>1. e.total = t + got  BY <1>4
    <2>2. 0..e.total - 1 = 0..t + got - 1  BY <1>a, <2>1
    <2>3. \A k \in 0..t + got - 1 :
            IF Covers(e.block, e.dest + k)
            THEN (IF e.block.from = "edge" THEN u ELSE v)[e.dest + k - e.block.to]
                   = <<s.name, e.start + k>>
            ELSE m[e.dest + k] = <<s.name, e.start + k>>
      BY <1>2, <1>4, <1>7 DEF Covers
    <2> QED BY <2>2, <2>3
  <1> QED BY <1>a, <1>3, <1>4, <1>5, <1>8, <1>9 DEF ReadSound

(* Part by part: what is fetched fits its buffer and its block lies within *)
(* the blocks of the read's range; and so does what comes next.            *)
LEMMA FetchHolds ==
  ASSUME FileIoAssumption, FileInv, NEW got, Fetch(got)
  PROVE  FileInv'
  <1>1. FileType /\ HandlesHeld /\ ServerHeld  BY DEF FileInv
  <1>2. PICK c : c = fio["server"]  OBVIOUS
  <1>3. c.at = "fetch"  BY <1>2 DEF Fetch
  <1>4. c \in ReadRequest /\ c.call = "read"
    BY <1>1, <1>2, <1>3
    DEF FileType, Idling, OpenRequest, ReadRequest, StatRequest
  <1>5. Serves("read")  BY <1>2, <1>3, <1>4 DEF Serves
  <1>6. PICK h \in RomHandle : h = files[c.fd].privdata /\ romHandles[h].used
    BY <1>2, <1>5, ReadsOpen
  <1>7. c.fd \in eeFds /\ ReadSound(c, romHandles[h], wire, edge, bounce, eeMemory)
    BY <1>1, <1>2, <1>5, <1>6 DEF ServerHeld, ReadHeld
  <1>8. wire = <<>> /\ c.part # "end" /\ PartFits(c) /\ c.total <= c.length
    BY <1>3, <1>7 DEF ReadSound
  <1> DEFINE wanted == CASE c.part = "small" -> c.length
                         [] c.part = "head" -> HeadOf(c)
                         [] c.part = "middle" -> Min({MiddleOf(c) - c.done, Bounce})
                         [] c.part = "tail" -> TailOf(c)
             first == c.part \in {"small", "head"}
             block == CASE c.part = "small" ->
                             [from |-> "edge", to |-> c.dest - OffsetOf(c),
                              size |-> AlignUp(OffsetOf(c) + c.length)]
                        [] c.part = "middle" ->
                             [from |-> "bounce", to |-> c.dest + c.total,
                              size |-> got]
                        [] OTHER ->
                             [from |-> "edge", size |-> Block,
                              to |-> c.dest + c.total - (IF first THEN OffsetOf(c)
                                                         ELSE 0)]
             done == IF c.part = "middle" THEN c.done + got ELSE 0
             part == IF c.part \in {"small", "tail"} \/ got < wanted
                     THEN "end" ELSE PartAfter(c, done)
             at == IF first THEN OffsetOf(c) ELSE 0
  <1>9. /\ got \in Gives(h, wanted)
        /\ IF c.part = "middle"
           THEN bounce' = Filled(bounce, h, 0, got) /\ UNCHANGED edge
           ELSE /\ edge' = Filled(Zeros(2 * Block), h, at, got)
                /\ UNCHANGED bounce
        /\ romHandles' = Moved(h, got)
        /\ fio' = [fio EXCEPT !["server"] =
             [c EXCEPT !.at = "send", !.block = block, !.done = done,
                       !.total = c.total + got, !.part = part]]
        /\ UNCHANGED <<files, romBound, eeFds, wire, eeMemory>>
    BY <1>2, <1>6 DEF Fetch
  <1>10. /\ c.dest \in Nat /\ c.length \in Nat /\ c.total \in Nat
         /\ c.done \in Nat /\ c.start \in Nat
         /\ Block \in Nat \ {0} /\ Bounce \in Nat \ {0}
    BY <1>4 DEF ReadRequest, FileIoAssumption
  <1>11. /\ OffsetOf(c) \in 0..Block - 1 /\ HeadOf(c) \in 0..Block - 1
         /\ HeadOf(c) = IF OffsetOf(c) = 0 THEN 0 ELSE Block - OffsetOf(c)
         /\ c.length >= Block =>
              /\ MiddleOf(c) \in Nat /\ TailOf(c) \in 0..Block - 1
              /\ HeadOf(c) + MiddleOf(c) + TailOf(c) = c.length
              /\ TailOf(c) # 0 =>
                   AlignUp(c.dest + c.length)
                     = c.dest + HeadOf(c) + MiddleOf(c) + Block
         /\ AlignUp(c.dest + c.length)
              = c.dest - OffsetOf(c) + AlignUp(OffsetOf(c) + c.length)
         /\ AlignUp(c.dest + c.length) \in Nat
         /\ AlignUp(c.dest + c.length) >= c.dest + c.length
    BY <1>10, PartsOfRead
  <1>12. c.part \in {"small", "head", "middle", "tail"}
    BY <1>4, <1>8 DEF ReadRequest, FilePart
  <1>13. wanted \in Nat
    <2>1. CASE c.part = "small"  BY <1>10, <2>1
    <2>2. CASE c.part = "head"  BY <1>10, <1>11, <2>2
    <2>3. CASE c.part = "middle"
      <3>1. c.done < MiddleOf(c) /\ MiddleOf(c) \in Nat
        BY <1>8, <1>11, <2>3 DEF PartFits
      <3>2. MiddleOf(c) - c.done \in Nat  BY <1>10, <3>1
      <3>3. Min({MiddleOf(c) - c.done, Bounce}) \in Nat
        BY <1>10, <3>2, MinOfTwo
      <3> QED BY <2>3, <3>3
    <2>4. CASE c.part = "tail"
      BY <1>8, <1>10, <1>11, <2>4 DEF PartFits
    <2> QED BY <1>12, <2>1, <2>2, <2>3, <2>4
  <1>14. got \in Nat /\ got <= wanted
         /\ romHandles[h].position + got <= LengthOf[romHandles[h].name]
    <2> HIDE DEF wanted
    <2> QED BY <1>1, <1>6, <1>9, <1>13, GivesWithin
  <1> HIDE DEF block, done, part
  (* The four parts. *)
  <1>15. /\ at \in Nat /\ done \in Nat /\ part \in {"middle", "tail", "end"}
         /\ c.total + got <= c.length
         /\ block.from \in {"edge", "bounce"} /\ block \in FileBlock
         /\ block.to >= c.dest - OffsetOf(c)
         /\ block.to + block.size <= AlignUp(c.dest + c.length)
         /\ block.to + at = c.dest + c.total /\ at + got <= block.size
         /\ c.total = 0 \/ at = 0
         /\ IF block.from = "edge" THEN c.part # "middle" /\ at + got <= 2 * Block
            ELSE c.part = "middle" /\ at + got <= Bounce
         /\ part = "middle" => /\ c.length >= Block
                               /\ c.total + got = HeadOf(c) + done
                               /\ done < MiddleOf(c)
         /\ part = "tail" => /\ c.length >= Block
                             /\ c.total + got = HeadOf(c) + MiddleOf(c)
                             /\ TailOf(c) # 0
    <2>1. CASE c.part = "small"
      <3>1. c.total = 0 /\ c.length < Block  BY <1>8, <2>1 DEF PartFits
      <3>2. at = OffsetOf(c) /\ wanted = c.length /\ done = 0 /\ part = "end"
        BY <2>1 DEF done, part
      <3>3. block = [from |-> "edge", to |-> c.dest - OffsetOf(c),
                     size |-> AlignUp(OffsetOf(c) + c.length)]
        BY <2>1 DEF block
      <3>4. OffsetOf(c) + c.length \in Nat  BY <1>10, <1>11
      <3>5. AlignUp(OffsetOf(c) + c.length) \in Nat
            /\ OffsetOf(c) + c.length <= AlignUp(OffsetOf(c) + c.length)
        BY <3>4, AlignedUp
      <3>6. block.from = "edge" /\ block.to = c.dest - OffsetOf(c)
            /\ block.size = AlignUp(OffsetOf(c) + c.length)
        BY <3>3
      <3>7. block \in FileBlock  BY <1>10, <1>11, <3>3, <3>5 DEF FileBlock
      <3> HIDE DEF wanted, at
      <3> QED BY <1>10, <1>11, <1>14, <2>1, <3>1, <3>2, <3>5, <3>6, <3>7
    <2>2. CASE c.part = "head"
      <3>1. c.total = 0 /\ c.length >= Block /\ HeadOf(c) # 0
        BY <1>8, <2>2 DEF PartFits
      <3>2. at = OffsetOf(c) /\ wanted = HeadOf(c) /\ done = 0
            /\ part = IF got < HeadOf(c) THEN "end" ELSE PartAfter(c, 0)
        BY <2>2 DEF done, part
      <3>3. block = [from |-> "edge", size |-> Block,
                     to |-> c.dest + c.total - OffsetOf(c)]
        BY <2>2 DEF block
      <3>4. block.from = "edge" /\ block.to = c.dest - OffsetOf(c)
            /\ block.size = Block
        BY <1>10, <1>11, <3>1, <3>3
      <3>5. block \in FileBlock  BY <1>10, <1>11, <3>1, <3>3 DEF FileBlock
      <3>6. part \in {"middle", "tail", "end"}
            /\ (part # "end" => got = HeadOf(c))
            /\ (part = "middle" => 0 < MiddleOf(c))
            /\ (part = "tail" => MiddleOf(c) = 0 /\ TailOf(c) # 0)
        <4> HIDE DEF wanted
        <4> QED BY <1>10, <1>11, <1>14, <3>1, <3>2 DEF PartAfter
      <3>7. HeadOf(c) = Block - OffsetOf(c)  BY <1>11, <3>1
      <3> HIDE DEF wanted, at
      <3> QED BY <1>10, <1>11, <1>14, <2>2, <3>1, <3>2, <3>4, <3>5, <3>6, <3>7
    <2>3. CASE c.part = "middle"
      <3>1. c.length >= Block /\ c.total = HeadOf(c) + c.done
            /\ c.done < MiddleOf(c)
        BY <1>8, <2>3 DEF PartFits
      <3>2. at = 0 /\ wanted = Min({MiddleOf(c) - c.done, Bounce})
            /\ done = c.done + got
            /\ part = IF got < wanted THEN "end" ELSE PartAfter(c, c.done + got)
        BY <2>3 DEF done, part
      <3>3. block = [from |-> "bounce", to |-> c.dest + c.total, size |-> got]
        BY <2>3 DEF block
      <3>4. block.from = "bounce" /\ block.to = c.dest + c.total
            /\ block.size = got
        BY <3>3
      <3>5. block \in FileBlock  BY <1>10, <1>14, <3>3 DEF FileBlock
      <3>6. MiddleOf(c) - c.done \in Nat  BY <1>10, <1>11, <3>1
      <3>7. wanted <= MiddleOf(c) - c.done /\ wanted <= Bounce
        BY <1>10, <3>2, <3>6, MinOfTwo
      <3> HIDE DEF wanted, at
      <3>8. done \in Nat /\ done <= MiddleOf(c) /\ got <= Bounce
        BY <1>10, <1>11, <1>13, <1>14, <3>1, <3>2, <3>7
      <3>9. part \in {"middle", "tail", "end"}
            /\ (part = "middle" => done < MiddleOf(c))
            /\ (part = "tail" => done = MiddleOf(c) /\ TailOf(c) # 0)
        BY <1>10, <1>11, <3>1, <3>2, <3>8 DEF PartAfter
      <3>10. c.total + got = HeadOf(c) + done
        BY <1>10, <1>11, <1>14, <3>1, <3>2
      <3> QED BY <1>10, <1>11, <1>14, <2>3, <3>1, <3>2, <3>4, <3>5, <3>8, <3>9,
                 <3>10
    <2>4. CASE c.part = "tail"
      <3>1. c.length >= Block /\ c.total = HeadOf(c) + MiddleOf(c)
            /\ TailOf(c) # 0
        BY <1>8, <2>4 DEF PartFits
      <3>2. at = 0 /\ wanted = TailOf(c) /\ done = 0 /\ part = "end"
        BY <2>4 DEF done, part
      <3>3. block = [from |-> "edge", size |-> Block, to |-> c.dest + c.total - 0]
        BY <2>4 DEF block
      <3>4. block.from = "edge" /\ block.to = c.dest + c.total
            /\ block.size = Block
        BY <1>10, <3>3
      <3>5. block \in FileBlock  BY <1>10, <3>3 DEF FileBlock
      <3> HIDE DEF wanted, at
      <3> QED BY <1>10, <1>11, <1>14, <2>4, <3>1, <3>2, <3>4, <3>5
    <2> QED BY <1>12, <2>1, <2>2, <2>3, <2>4
  <1>16. PICK e : e = fio'["server"]  OBVIOUS
  <1>17. e = [c EXCEPT !.at = "send", !.block = block, !.done = done,
                       !.total = c.total + got, !.part = part]
    BY <1>1, <1>9, <1>16 DEF FileType, FileThreads
  <1>18. /\ e.at = "send" /\ e.block = block /\ e.done = done /\ e.part = part
         /\ e.total = c.total + got /\ e.call = "read" /\ e.fd = c.fd
         /\ e.dest = c.dest /\ e.length = c.length /\ e.start = c.start
    BY <1>4, <1>17 DEF ReadRequest
  <1>19. e \in ReadRequest
    <2>1. c.total + got \in Nat  BY <1>10, <1>14
    <2>2. part \in FilePart  BY <1>15 DEF FilePart
    <2> QED BY <1>4, <1>15, <1>17, <2>1, <2>2 DEF ReadRequest
  <1>20. /\ OffsetOf(e) = OffsetOf(c) /\ HeadOf(e) = HeadOf(c)
         /\ MiddleOf(e) = MiddleOf(c) /\ TailOf(e) = TailOf(c)
    BY <1>18, SameParts
  <1>21. PartFits(e)
    BY <1>15, <1>18, <1>20 DEF PartFits
  <1> HIDE DEF at, wanted
  <1>22. \A j \in 0..got - 1 :
           (IF block.from = "edge" THEN edge' ELSE bounce')[at + j]
             = <<romHandles[h].name, romHandles[h].position + j>>
    <2> SUFFICES ASSUME NEW j \in 0..got - 1
                 PROVE  (IF block.from = "edge" THEN edge' ELSE bounce')[at + j]
                          = <<romHandles[h].name, romHandles[h].position + j>>
      OBVIOUS
    <2>1. j \in Int /\ 0 <= j /\ j < got  BY <1>14
    <2>2. PICK n \in Int : n = at + j  BY <1>15, <2>1
    <2>3. at <= n /\ n < at + got /\ romHandles[h].position + n - at
                                       = romHandles[h].position + j
      <3>1. at \in Int /\ got \in Int  BY <1>14, <1>15
      <3>2. romHandles[h].position \in Int  BY <1>1 DEF FileType
      <3>3. \A p, a, g, k, m \in Int : 0 <= k /\ k < g /\ m = a + k =>
              a <= m /\ m < a + g /\ p + m - a = p + k
        OBVIOUS
      <3> QED BY ONLY <2>1, <2>2, <3>1, <3>2, <3>3
    <2>4. CASE block.from = "edge"
      <3>1. n \in DOMAIN Zeros(2 * Block)
        BY <1>10, <1>14, <1>15, <2>3, <2>4 DEF Zeros
      <3>2. edge' = Filled(Zeros(2 * Block), h, at, got)  BY <1>9, <1>15, <2>4
      <3>3. edge'[n] = <<romHandles[h].name, romHandles[h].position + n - at>>
        <4> DEFINE z == Zeros(2 * Block)
        <4> HIDE DEF z
        <4> QED BY <2>3, <3>1, <3>2 DEF Filled, z
      <3> QED BY <2>2, <2>3, <2>4, <3>3
    <2>5. CASE block.from # "edge"
      <3>1. at = 0  BY <1>15, <2>5 DEF at
      <3>2. n \in DOMAIN bounce
        BY <1>1, <1>10, <1>14, <1>15, <2>3, <2>5 DEF FileType
      <3>3. bounce' = Filled(bounce, h, at, got)  BY <1>9, <1>15, <2>5, <3>1
      <3>4. bounce'[n] = <<romHandles[h].name, romHandles[h].position + n - at>>
        BY <2>3, <3>2, <3>3 DEF Filled
      <3> QED BY <2>2, <2>3, <2>5, <3>4
    <2> QED BY <2>4, <2>5
  <1>23. fio' = [fio EXCEPT !["server"] = e] /\ "server" \in FileThreads
         /\ "heap" \in FileThreads
    BY <1>9, <1>17 DEF FileThreads
  <1>24. DOMAIN fio' = FileThreads /\ fio'["heap"] = fio["heap"]
    BY <1>1, <1>23 DEF FileType
  <1>25. ~HasFd("server") /\ ~HasFd("server")'
    BY <1>2, <1>3, <1>16, <1>18 DEF HasFd
  <1>26. FdsHeld' /\ OpenFds' = OpenFds
    BY <1>9, <1>24, <1>25, ServerAlone
  <1>27. /\ romHandles' \in [RomHandle -> [used : BOOLEAN,
                                           name : FileName \cup {Missing},
                                           position : Nat]]
         /\ romHandles'[h].name = romHandles[h].name
         /\ romHandles'[h].position = romHandles[h].position + got
         /\ HandlesHeld'
    BY <1>6, <1>9, <1>14, <1>26, MovedHolds
  <1>28. ReadSound(e, romHandles'[h], <<>>, edge', bounce', eeMemory)
    <2>1. PICK r, t, u, v, m : /\ r = romHandles[h] /\ t = romHandles'[h]
                               /\ u = edge' /\ v = bounce' /\ m = eeMemory
      OBVIOUS
    <2>2. ReadSound(c, r, <<>>, edge, bounce, m)
      BY <1>7, <1>8, <2>1
    <2>3. /\ e.block \in FileBlock /\ e.block.from # "stat"
          /\ e.block.to >= e.dest - OffsetOf(e)
          /\ e.block.to + e.block.size <= AlignUp(e.dest + e.length)
          /\ e.block.to + at = c.dest + c.total /\ at + got <= e.block.size
          /\ e.total <= e.length
      BY <1>15, <1>18, <1>20
    <2>4. \A j \in 0..got - 1 :
            (IF e.block.from = "edge" THEN u ELSE v)[at + j]
              = <<r.name, r.position + j>>
      BY <1>18, <1>22, <2>1
    <2>5. /\ e.at = "send" /\ e.dest = c.dest /\ e.length = c.length
          /\ e.start = c.start /\ e.total = c.total + got
      BY <1>18
    <2>6. at \in Nat /\ got \in Nat /\ (c.total = 0 \/ at = 0)
      BY <1>14, <1>15
    <2>7. t.name = r.name /\ t.position = r.position + got
      BY <1>27, <2>1
    <2>8. Fetched(c, e, r, t, u, v, got, at)
      BY <1>3, <1>4, <1>19, <1>21, <2>3, <2>4, <2>5, <2>6, <2>7 DEF Fetched
    <2>9. ReadSound(e, t, <<>>, u, v, m)
      BY <2>2, <2>8, FetchSound
    <2> QED BY <2>1, <2>9
  <1>29. ServerHeld'
    <2>1. fio'["server"].fd \in eeFds'
          /\ romHandles'[files'[fio'["server"].fd].privdata] = romHandles'[h]
      BY <1>6, <1>7, <1>9, <1>16, <1>18
    <2>2. ReadHeld'
      BY <1>8, <1>9, <1>16, <1>28, <2>1 DEF ReadHeld
    <2>3. fio'["server"].at = "send" /\ fio'["server"].call = "read"
      BY <1>16, <1>18
    <2> QED BY <2>2, <2>3 DEF ServerHeld, Serves
  <1>30. FileType'
    <2>1. DOMAIN edge' = 0..2 * Block - 1 /\ DOMAIN bounce' = 0..Bounce - 1
      BY <1>1, <1>9 DEF FileType, Filled, Zeros
    <2> QED BY <1>1, <1>9, <1>16, <1>19, <1>24, <1>27, <2>1 DEF FileType
  <1> QED BY <1>26, <1>27, <1>29, <1>30 DEF FileInv

(* The ring takes the block.                                               *)
LEMMA SendToEeHolds ==
  ASSUME FileIoAssumption, FileInv, SendToEe
  PROVE  FileInv'
  <1>1. FileType /\ ServerHeld  BY DEF FileInv
  <1>2. PICK c : c = fio["server"]  OBVIOUS
  <1>3. c.at = "send" /\ wire' = Append(wire, c.block)
        /\ fio' = [fio EXCEPT !["server"].at = "wait"]
        /\ UNCHANGED <<files, romHandles, eeFds, edge, bounce, eeMemory>>
    BY <1>2 DEF SendToEe
  <1>4. c \in ReadRequest \cup StatRequest
    BY <1>1, <1>2, <1>3 DEF FileType, Idling, OpenRequest
  <1>5. PICK e : e = fio'["server"]  OBVIOUS
  <1>6. e = [c EXCEPT !.at = "wait"] /\ fio' = [fio EXCEPT !["server"] = e]
    BY <1>1, <1>2, <1>3, <1>5 DEF FileType, FileThreads
  <1>7. wire = <<>> /\ c.call \in {"read", "getstat"}
    BY <1>1, <1>2, <1>3, <1>4
    DEF ServerHeld, Serves, ReadHeld, ReadSound, ReadRequest, StatRequest
  <1>8. wire' = <<c.block>>  BY <1>3, <1>7
  <1>9. CASE c \in ReadRequest
    <2>1. c.call = "read"  BY <1>9 DEF ReadRequest
    <2>2. e \in ReadRequest  BY <1>6, <1>9 DEF ReadRequest
    <2>3. /\ e.at = "wait" /\ e.call = "read" /\ e.fd = c.fd /\ e.dest = c.dest
          /\ e.length = c.length /\ e.start = c.start /\ e.total = c.total
          /\ e.done = c.done /\ e.part = c.part /\ e.block = c.block
      BY <1>6, <1>9 DEF ReadRequest
    <2>4. /\ OffsetOf(e) = OffsetOf(c) /\ HeadOf(e) = HeadOf(c)
          /\ MiddleOf(e) = MiddleOf(c) /\ TailOf(e) = TailOf(c)
      BY <2>3, SameParts
    <2>5. PICK r : r = romHandles[files[c.fd].privdata]  OBVIOUS
    <2>6. c.fd \in eeFds /\ ReadSound(c, r, wire, edge, bounce, eeMemory)
      BY <1>1, <1>2, <1>3, <2>1, <2>5 DEF ServerHeld, Serves, ReadHeld
    <2>7. PartFits(e)  BY <2>3, <2>4, <2>6 DEF ReadSound, PartFits
    <2>8. Outstanding(c, wire) /\ Outstanding(e, wire')
      BY <1>3, <1>8 DEF Outstanding
    <2>9. ReadSound(e, r, wire', edge, bounce, eeMemory)
      BY <1>8, <2>3, <2>4, <2>6, <2>7, <2>8 DEF ReadSound
    <2>10. romHandles'[files'[e.fd].privdata] = r /\ e.fd \in eeFds'
      BY <1>3, <2>3, <2>5, <2>6
    <2>11. ReadHeld'  BY <1>3, <1>5, <2>9, <2>10 DEF ReadHeld
    <2>12. ServerHeld'  BY <1>5, <2>3, <2>11 DEF ServerHeld, Serves
    <2> QED BY <1>1, <1>2, <1>3, <1>5, <1>6, <2>2, <2>12, ServerGoesOn DEF FileType
  <1>10. CASE c \in StatRequest
    <2>1. e \in StatRequest /\ e.at = "wait" /\ e.call = "getstat"
          /\ e.block = c.block
      BY <1>6, <1>10 DEF StatRequest
    <2>2. ServerHeld'
      BY <1>5, <1>8, <2>1 DEF ServerHeld, Serves
    <2> QED BY <1>1, <1>2, <1>3, <1>5, <1>6, <2>1, <2>2, ServerGoesOn DEF FileType
  <1> QED BY <1>4, <1>9, <1>10

(* The channel has the block, and its bytes are where it went.             *)
LEMMA DmaLandsHolds ==
  ASSUME FileIoAssumption, FileInv, DmaLands
  PROVE  FileInv'
  <1>1. FileType /\ FdsHeld /\ HandlesHeld /\ ServerHeld  BY DEF FileInv
  <1>2. PICK c : c = fio["server"]  OBVIOUS
  <1>3. wire # <<>> /\ wire' = Tail(wire)
        /\ UNCHANGED <<files, romHandles, fio, eeFds, edge, bounce>>
    BY DEF DmaLands
  <1>4. c.at = "wait" /\ c \in ReadRequest \cup StatRequest
        /\ wire = <<c.block>>
    BY <1>1, <1>2, <1>3
    DEF ServerHeld, Serves, ReadHeld, ReadSound, FileType, Idling, OpenRequest,
        ReadRequest, StatRequest
  <1>5. wire' = <<>> /\ Head(wire) = c.block  BY <1>3, <1>4
  <1>6. PICK b : b = c.block  OBVIOUS
  <1>7. FileType'  BY <1>1, <1>3 DEF FileType
  <1>8. FdsHeld' /\ OpenFds' = OpenFds
    BY <1>1, <1>3 DEF FdsHeld, HasFd, OpenFds
  <1>9. HandlesHeld'  BY <1>1, <1>3, <1>8 DEF HandlesHeld
  <1>10. CASE c \in StatRequest
    <2>1. ServerHeld'
      BY <1>2, <1>3, <1>4, <1>5, <1>10 DEF ServerHeld, Serves, StatRequest
    <2> QED BY <1>7, <1>8, <1>9, <2>1 DEF FileInv
  <1>11. CASE c \in ReadRequest
    <2>1. c.call = "read" /\ c.dest \in Dests /\ c.length \in Lengths
          /\ c.dest \in Nat /\ c.length \in Nat /\ c.total \in Nat
      BY <1>11 DEF ReadRequest, FileIoAssumption
    <2>2. PICK r : r = romHandles[files[c.fd].privdata]  OBVIOUS
    <2>3. c.fd \in eeFds /\ ReadSound(c, r, wire, edge, bounce, eeMemory)
      BY <1>1, <1>2, <1>4, <2>1, <2>2 DEF ServerHeld, Serves, ReadHeld
    <2>4. Outstanding(c, wire) /\ ~Outstanding(c, wire')
      BY <1>3, <1>4, <1>5 DEF Outstanding
    <2>5. /\ b \in FileBlock /\ b.from # "stat"
          /\ b.to >= c.dest - OffsetOf(c)
          /\ b.to + b.size <= AlignUp(c.dest + c.length)
          /\ c.total <= c.length
      BY <1>6, <2>3, <2>4 DEF ReadSound
    <2>6. b.to \in Int /\ b.size \in Int /\ b.from \in {"edge", "bounce"}
      BY <2>5 DEF FileBlock
    <2>7. eeMemory' = [n \in 0..EETop |->
                         IF b.to <= n /\ n < b.to + b.size
                         THEN (IF b.from = "edge" THEN edge ELSE bounce)[n - b.to]
                         ELSE eeMemory[n]]
      BY <1>5, <1>6, <2>6 DEF DmaLands
    <2>8. c.dest + c.length <= EETop /\ EETop \in Nat
      BY <2>1 DEF FileIoAssumption
    <2>9. ASSUME NEW k \in 0..c.total - 1
          PROVE  eeMemory'[c.dest + k] = <<r.name, c.start + k>>
      <3>1. PICK n \in 0..EETop : n = c.dest + k
        BY <2>1, <2>5, <2>8, <2>9
      <3>2. eeMemory'[n] =
              IF b.to <= n /\ n < b.to + b.size
              THEN (IF b.from = "edge" THEN edge ELSE bounce)[n - b.to]
              ELSE eeMemory[n]
        BY <2>7
      <3>3. IF b.to <= n /\ n < b.to + b.size
            THEN (IF b.from = "edge" THEN edge ELSE bounce)[n - b.to]
                   = <<r.name, c.start + k>>
            ELSE eeMemory[n] = <<r.name, c.start + k>>
        <4>1. IF Covers(c.block, c.dest + k)
              THEN (IF c.block.from = "edge" THEN edge ELSE bounce)
                     [c.dest + k - c.block.to] = <<r.name, c.start + k>>
              ELSE eeMemory[c.dest + k] = <<r.name, c.start + k>>
          BY <2>3, <2>4, <2>9 DEF ReadSound
        <4>2. k \in Int /\ c.dest \in Int /\ c.block.to \in Int
          BY <1>6, <2>1, <2>6, <2>9
        <4>3. c.dest + k - c.block.to = (c.dest + k) - c.block.to  BY <4>2
        <4> QED BY <1>6, <3>1, <4>1, <4>3 DEF Covers
      <3> QED BY <3>1, <3>2, <3>3
    <2>10. ASSUME NEW k \in 0..EETop,
                  k < c.dest - OffsetOf(c) \/ k >= AlignUp(c.dest + c.length)
           PROVE  eeMemory'[k] = Old
      <3>0. OffsetOf(c) \in 0..Block - 1 /\ AlignUp(c.dest + c.length) \in Nat
        BY <2>1, PartsOfRead
      <3>1. OffsetOf(c) \in Int /\ AlignUp(c.dest + c.length) \in Int
        BY <3>0 DEF FileIoAssumption
      <3>2. ~(b.to <= k /\ k < b.to + b.size)
        BY <2>1, <2>5, <2>6, <2>8, <2>10, <3>1
      <3>3. eeMemory'[k] = eeMemory[k]  BY <2>7, <3>2
      <3> QED BY <2>3, <2>10, <3>3 DEF ReadSound
    <2>11. ReadSound(c, r, wire', edge, bounce, eeMemory')
      BY <1>4, <1>5, <2>3, <2>4, <2>9, <2>10 DEF ReadSound
    <2>12. ReadHeld'  BY <1>2, <1>3, <2>2, <2>3, <2>11 DEF ReadHeld
    <2>13. ServerHeld'
      BY <1>2, <1>3, <1>4, <2>1, <2>12 DEF ServerHeld, Serves
    <2> QED BY <1>7, <1>8, <1>9, <2>13 DEF FileInv
  <1> QED BY <1>4, <1>10, <1>11

(* The ring is seen empty: all that was read so far is in memory.          *)
LEMMA SentHolds ==
  ASSUME FileIoAssumption, FileInv, Sent
  PROVE  FileInv'
  <1>1. FileType /\ ServerHeld  BY DEF FileInv
  <1>2. PICK c : c = fio["server"]  OBVIOUS
  <1> DEFINE stage == IF c.part = "end" THEN "answer" ELSE "fetch"
  <1>3. c.at = "wait" /\ wire = <<>>
        /\ fio' = [fio EXCEPT !["server"].at = stage]
        /\ UNCHANGED <<files, romHandles, eeFds, edge, bounce, wire, eeMemory>>
    BY <1>2 DEF Sent
  <1>4. c \in ReadRequest \cup StatRequest
    BY <1>1, <1>2, <1>3 DEF FileType, Idling, OpenRequest
  <1>5. PICK e : e = fio'["server"]  OBVIOUS
  <1>6. e = [c EXCEPT !.at = stage] /\ fio' = [fio EXCEPT !["server"] = e]
    BY <1>1, <1>2, <1>3, <1>5 DEF FileType, FileThreads
  <1>7. CASE c \in ReadRequest
    <2>1. c.call = "read"  BY <1>7 DEF ReadRequest
    <2>2. e \in ReadRequest  BY <1>6, <1>7 DEF ReadRequest
    <2>3. /\ e.at = stage /\ e.call = "read" /\ e.fd = c.fd /\ e.dest = c.dest
          /\ e.length = c.length /\ e.start = c.start /\ e.total = c.total
          /\ e.done = c.done /\ e.part = c.part /\ e.block = c.block
      BY <1>6, <1>7 DEF ReadRequest
    <2>4. /\ OffsetOf(e) = OffsetOf(c) /\ HeadOf(e) = HeadOf(c)
          /\ MiddleOf(e) = MiddleOf(c) /\ TailOf(e) = TailOf(c)
      BY <2>3, SameParts
    <2>5. PICK r : r = romHandles[files[c.fd].privdata]  OBVIOUS
    <2>6. c.fd \in eeFds /\ ReadSound(c, r, wire, edge, bounce, eeMemory)
      BY <1>1, <1>2, <1>3, <2>1, <2>5 DEF ServerHeld, Serves, ReadHeld
    <2>7. c.part \in FilePart /\ c.length \in Nat /\ Block \in Nat
      BY <1>7 DEF ReadRequest, FileIoAssumption
    <2>8. PartFits(e)
      BY <2>3, <2>4, <2>6, <2>7 DEF ReadSound, PartFits, FilePart
    <2>9. ~Outstanding(c, wire) /\ ~Outstanding(e, wire)
      BY <1>3, <2>3 DEF Outstanding
    <2>10. ReadSound(e, r, wire, edge, bounce, eeMemory)
      BY <1>3, <2>3, <2>4, <2>6, <2>8, <2>9 DEF ReadSound
    <2>11. romHandles'[files'[e.fd].privdata] = r /\ e.fd \in eeFds'
      BY <1>3, <2>3, <2>5, <2>6
    <2>12. ReadHeld'  BY <1>3, <1>5, <2>10, <2>11 DEF ReadHeld
    <2>13. ServerHeld'  BY <1>5, <2>3, <2>12 DEF ServerHeld, Serves
    <2> QED BY <1>1, <1>2, <1>3, <1>5, <1>6, <2>2, <2>13, ServerGoesOn DEF FileType
  <1>8. CASE c \in StatRequest
    <2>1. e \in StatRequest /\ e.at = "answer" /\ e.call = "getstat"
      BY <1>6, <1>8 DEF StatRequest
    <2>2. ServerHeld'
      BY <1>3, <1>5, <2>1 DEF ServerHeld, Serves
    <2> QED BY <1>1, <1>2, <1>3, <1>5, <1>6, <2>1, <2>2, ServerGoesOn DEF FileType
  <1> QED BY <1>4, <1>7, <1>8

LEMMA AnswerKeeps ==
  ASSUME FileIoAssumption, FileInv, Answer
  PROVE  FileInv'
  <1>1. FileType /\ ServerHeld  BY DEF FileInv
  <1>2. /\ fio["server"].at = "answer"
        /\ fio' = [fio EXCEPT !["server"] = Idling]
        /\ edge' = Zeros(2 * Block) /\ bounce' = Zeros(Bounce)
        /\ eeMemory' = Untouched
        /\ UNCHANGED <<files, romHandles, eeFds, wire>>
    BY DEF Answer
  <1>3. fio'["server"] = Idling  BY <1>1, <1>2 DEF FileType, FileThreads
  <1>4. wire = <<>>
    BY <1>1, <1>2
    DEF ServerHeld, Serves, ReadHeld, ReadSound, FileType, Idling, OpenRequest,
        ReadRequest, StatRequest
  <1>5. ServerHeld'
    BY <1>2, <1>3, <1>4 DEF ServerHeld, Serves, Idling, Untouched
  <1>6. DOMAIN edge' = 0..2 * Block - 1 /\ DOMAIN bounce' = 0..Bounce - 1
    BY <1>2 DEF Zeros
  <1> QED BY <1>2, <1>3, <1>5, <1>6, ServerGoesOn

LEMMA GetstatHolds ==
  ASSUME FileIoAssumption, FileInv, NEW dest \in Dests, ServeGetstat(dest)
  PROVE  FileInv'
  <1>1. FileType /\ ServerHeld  BY DEF FileInv
  <1> DEFINE e == [at |-> "send", call |-> "getstat", part |-> "end",
                   block |-> [from |-> "stat", to |-> dest, size |-> Block]]
  <1>2. /\ fio["server"].at = "idle"
        /\ fio' = [fio EXCEPT !["server"] = e]
        /\ UNCHANGED <<files, romHandles, eeFds, edge, bounce, wire, eeMemory>>
    BY DEF ServeGetstat
  <1>3. fio'["server"] = e  BY <1>1, <1>2 DEF FileType, FileThreads
  <1>4. e \in StatRequest /\ e.at = "send" /\ e.call = "getstat"
    BY DEF StatRequest, FileBlock, FileIoAssumption
  <1> HIDE DEF e
  <1>5. wire = <<>>  BY <1>1, <1>2 DEF ServerHeld
  <1>6. ServerHeld'
    BY <1>2, <1>3, <1>4, <1>5 DEF ServerHeld, Serves
  <1> QED BY <1>1, <1>2, <1>3, <1>4, <1>6, ServerGoesOn DEF FileType

LEMMA FileStepHolds ==
  FileIoAssumption /\ FileInv /\ [FileIoNext]_fileIoVars => FileInv'
  <1> SUFFICES ASSUME FileIoAssumption, FileInv, [FileIoNext]_fileIoVars
               PROVE  FileInv'
    OBVIOUS
  <1>1. ASSUME NEW t \in FileThreads, RomOpen(t) PROVE FileInv'
    BY <1>1, RomOpenHolds
  <1>2. ASSUME NEW t \in FileThreads, NEW name \in FileName \cup {Missing},
               IomanOpen(t, name)
        PROVE  FileInv'
    BY <1>2, IomanOpenHolds
  <1>3. ASSUME NEW fd \in Fd, ServeClose(fd) PROVE FileInv'
    BY <1>3, ServeCloseHolds
  <1>4. ASSUME NEW fd \in Fd, NEW offset \in {-1, 2}, NEW whence \in 0..2,
               ServeLseek(fd, offset, whence)
        PROVE  FileInv'
    BY <1>4, LseekHolds
  <1>5. ASSUME NEW fd \in Fd, NEW d \in Dests, NEW n \in Lengths,
               ServeRead(fd, d, n)
        PROVE  FileInv'
    BY <1>5, ServeReadHolds
  <1>6. ASSUME RomDelDevice \/ RomAddDevice PROVE FileInv'
    BY <1>6, RomBoundHolds
  <1>7. ASSUME NEW got, Fetch(got) PROVE FileInv'
    BY <1>7, FetchHolds
  <1>8. ASSUME NEW got, LoadIntoHeap(got) PROVE FileInv'
    BY <1>8, LoadHolds
  <1>9. ASSUME SendToEe PROVE FileInv'
    BY <1>9, SendToEeHolds
  <1>10. ASSUME DmaLands PROVE FileInv'
    BY <1>10, DmaLandsHolds
  <1>11. ASSUME Sent PROVE FileInv'
    BY <1>11, SentHolds
  <1>12. ASSUME Answer PROVE FileInv'
    BY <1>12, AnswerKeeps
  <1>13. ASSUME NEW d \in Dests, ServeGetstat(d) PROVE FileInv'
    BY <1>13, GetstatHolds
  <1>14. ASSUME HeapClose PROVE FileInv'
    BY <1>14, HeapCloseHolds
  <1>15. ASSUME UNCHANGED fileIoVars PROVE FileInv'
    <2>1. UNCHANGED <<files, romHandles, romBound, fio, eeFds, edge, bounce,
                      wire, eeMemory>>
      BY <1>15 DEF fileIoVars
    <2>2. FileType /\ FdsHeld /\ HandlesHeld /\ ServerHeld  BY DEF FileInv
    <2>3. FileType'  BY <2>1, <2>2 DEF FileType
    <2>4. FdsHeld' /\ OpenFds' = OpenFds
      BY <2>1, <2>2 DEF FdsHeld, HasFd, OpenFds
    <2>5. HandlesHeld'  BY <2>1, <2>2, <2>4 DEF HandlesHeld
    <2>6. ServerHeld'
      BY <2>1, <2>2 DEF ServerHeld, Serves, ReadHeld, Untouched
    <2> QED BY <2>3, <2>4, <2>5, <2>6 DEF FileInv
  <1> QED
    BY <1>1, <1>2, <1>3, <1>4, <1>5, <1>6, <1>7, <1>8, <1>9, <1>10, <1>11,
       <1>12, <1>13, <1>14, <1>15
    DEF FileIoNext

(* What the invariant says when a read is answered, and of descriptors.    *)
LEMMA FileInvGives == FileIoAssumption /\ FileInv => ReadArrives
  <1> SUFFICES ASSUME FileIoAssumption, FileInv PROVE ReadArrives  OBVIOUS
  <1>1. FileType /\ FdsHeld /\ HandlesHeld /\ ServerHeld  BY DEF FileInv
  <1>2. ASSUME fio["server"].at = "answer", fio["server"].call = "read"
        PROVE  LET c == fio["server"]
                   handle == romHandles[files[c.fd].privdata]
               IN  /\ \A k \in 0..c.total - 1 :
                        eeMemory[c.dest + k] = <<handle.name, c.start + k>>
                   /\ handle.position = c.start + c.total
                   /\ \A k \in 0..EETop :
                        k < c.dest - OffsetOf(c) \/ k >= AlignUp(c.dest + c.length)
                          => eeMemory[k] = Old
    <2>1. PICK c : c = fio["server"]  OBVIOUS
    <2>2. ReadSound(c, romHandles[files[c.fd].privdata], wire, edge, bounce,
                    eeMemory)
      BY <1>1, <1>2, <2>1 DEF ServerHeld, Serves, ReadHeld
    <2>3. c.at = "answer"  BY <1>2, <2>1
    <2>4. ~Outstanding(c, wire)  BY <2>2, <2>3 DEF ReadSound, Outstanding
    <2>5. /\ \A k \in 0..c.total - 1 :
               eeMemory[c.dest + k]
                 = <<romHandles[files[c.fd].privdata].name, c.start + k>>
          /\ romHandles[files[c.fd].privdata].position = c.start + c.total
          /\ \A k \in 0..EETop :
               k < c.dest - OffsetOf(c) \/ k >= AlignUp(c.dest + c.length)
                 => eeMemory[k] = Old
      BY <2>2, <2>4 DEF ReadSound
    <2> QED BY <2>1, <2>5
  <1> DEFINE opening == {fio[t].fd : t \in {u \in FileThreads : fio[u].at = "open"}}
             open == {fd \in Fd : files[fd].taken} \ opening
             loading == {fio[t].fd : t \in {u \in FileThreads :
                                              fio[u].at \in {"load", "close"}}}
  <1>3. FileThreads = {"server", "heap"}  BY DEF FileThreads
  <1>4. fio["server"].at \notin {"load", "close"}
    BY <1>1 DEF FileType, Idling, OpenRequest, ReadRequest, StatRequest
  <1>5. fio["heap"].at \in {"load", "close"} => fio["heap"].fd \in Fd
    BY <1>1 DEF FileType, Idling, OpenRequest, LoadRequest
  <1>6. loading = {fd \in Fd : fio["heap"].at \in {"load", "close"}
                                 /\ fd = fio["heap"].fd}
    BY <1>3, <1>4, <1>5
  <1>7. OpenFds = eeFds \cup loading
    <2> HIDE DEF loading
    <2> QED BY <1>6 DEF OpenFds
  <1>8. open = OpenFds
    <2> SUFFICES ASSUME NEW fd \in Fd
                 PROVE  fd \in open <=> fd \in OpenFds
      BY <1>1 DEF OpenFds, FileType
    <2>1. fd \in opening <=> \E t \in FileThreads :
                               fio[t].at = "open" /\ fio[t].fd = fd
      OBVIOUS
    <2>2. fd \in OpenFds <=> \/ fd \in eeFds
                             \/ fio["heap"].at \in {"load", "close"}
                                  /\ fd = fio["heap"].fd
      BY DEF OpenFds
    <2>3. fd \in open <=> files[fd].taken /\ fd \notin opening
      OBVIOUS
    <2> HIDE DEF opening, open
    <2> QED BY <1>1, <1>3, <1>4, <2>1, <2>2, <2>3 DEF FdsHeld, HasFd
  <1> HIDE DEF open, loading
  <1>9. \A h \in RomHandle : romHandles[h].used =>
          Cardinality({fd \in open : files[fd].privdata = h}) = 1
    <2> SUFFICES ASSUME NEW h \in RomHandle, romHandles[h].used
                 PROVE  Cardinality({fd \in open : files[fd].privdata = h}) = 1
      OBVIOUS
    <2>1. PICK f \in OpenFds : files[f].privdata = h  BY <1>1 DEF HandlesHeld
    <2>2. {fd \in open : files[fd].privdata = h} = {f}
      BY <1>1, <1>8, <2>1 DEF HandlesHeld
    <2> QED BY <2>2, FS_Singleton
  <1>10. \A fd \in open : romHandles[files[fd].privdata].used
    <2> SUFFICES ASSUME NEW fd \in OpenFds
                 PROVE  romHandles[files[fd].privdata].used
      BY <1>8
    <2>1. fd \in Fd  BY <1>1 DEF OpenFds, FileType
    <2>2. files[fd].privdata \in RomHandle  BY <1>1, <2>1 DEF FileType
    <2> QED BY <1>1, <2>2 DEF HandlesHeld
  <1> QED BY <1>2, <1>7, <1>8, <1>9, <1>10 DEF ReadArrives, open, loading

(* A read's answer is what arrived, and descriptors and handles match, for *)
(* any files, descriptors, handles, buffers, destinations and lengths      *)
(* (fileio.cpp:131-224, ioman.cpp:132-162, romdrv.cpp:113-157).            *)
THEOREM ReadsArrive ==
  FileIoInit /\ [][FileIoNext]_fileIoVars => []ReadArrives
  <1>1. FileIoInit => FileInv  BY FileInitHolds, FileIoAssumption
  <1>2. FileInv /\ [FileIoNext]_fileIoVars => FileInv'
    BY FileStepHolds, FileIoAssumption
  <1>3. FileInv => ReadArrives  BY FileInvGives, FileIoAssumption
  <1> QED BY <1>1, <1>2, <1>3, PTL

-----------------------------------------------------------------------------
(***************************************************************************)
(* What relocation makes of a module's words, for halves of any width.  A  *)
(* word that is done has what the assembler would have left in it for the  *)
(* address counted from the base, and a word that is not, or a HI16 that   *)
(* is held, still has what it left for the address itself.                 *)
(***************************************************************************)

LEMMA QuotientIs ==
  ASSUME NEW b \in Nat \ {0}, NEW q \in Int, NEW r \in 0..b - 1
  PROVE  (b * q + r) \div b = q
  <1> DEFINE x == b * q + r
             d == x \div b
  <1>1. b * q \in Int /\ x \in Int  OBVIOUS
  <1>2. x % b = r  BY RemainderIs
  <1>3. x % b \in 0..b - 1 /\ d \in Int /\ x = b * d + (x % b)
    BY <1>1, RemainderOf
  <1>4. b * q + r = b * d + r  BY <1>2, <1>3
  <1> HIDE DEF d, x
  <1>5. q - d \in Int /\ b * d \in Int  BY <1>3
  <1>6. b * (q - d) = 0
    <2>1. b * (q - d) = b * q - b * d  BY <1>3
    <2> QED BY <1>1, <1>4, <1>5, <2>1
  <1>7. ASSUME q - d >= 1 PROVE FALSE
    <2>1. b * (q - d) >= b  BY <1>5, <1>7
    <2> QED BY <1>6, <2>1
  <1>8. ASSUME q - d <= -1 PROVE FALSE
    <2>1. b * (q - d) <= -b  BY <1>5, <1>8
    <2> QED BY <1>6, <2>1
  <1>9. q = d
    <2>1. q - d = 0
      <3>1. PICK e : e = q - d  OBVIOUS
      <3>2. e \in Int /\ ~(e >= 1) /\ ~(e <= -1)
        <4>1. e \in Int  BY ONLY <1>5, <3>1
        <4> QED BY <1>7, <1>8, <3>1, <4>1
      <3>3. e = 0  BY ONLY <3>2
      <3> QED BY ONLY <3>1, <3>3
    <2>2. q \in Int /\ d \in Int  BY <1>3
    <2> QED BY ONLY <2>1, <2>2
  <1> QED BY <1>9 DEF d, x

(* Adding whole turns does not change a remainder.                         *)
LEMMA RemainderShift ==
  ASSUME NEW b \in Nat \ {0}, NEW x \in Int, NEW k \in Int
  PROVE  (x + b * k) % b = x % b
  <1> DEFINE q == x \div b
             r == x % b
  <1>1. r \in 0..b - 1 /\ q \in Int /\ x = b * q + r  BY RemainderOf
  <1> HIDE DEF q, r
  <1>2. q + k \in Int /\ b * (q + k) = b * q + b * k /\ b * q \in Int /\ b * k \in Int
    BY <1>1
  <1>3. (b * (q + k) + r) % b = r  BY <1>1, <1>2, RemainderIs
  <1>4. x + b * k = b * (q + k) + r  BY <1>1, <1>2
  <1> QED BY <1>3, <1>4 DEF r

LEMMA Halves ==
  ASSUME base \in Bases
  PROVE  /\ Half \in Nat \ {0} /\ Whole \in Nat \ {0} /\ Half * Half = Whole
         /\ base \in 0 .. Whole - 1 /\ Targets \subseteq 0 .. Whole - 1
         /\ \E h \in Nat \ {0} : Half = 2 * h /\ Half \div 2 = h
         /\ \E w \in Nat \ {0}, b \in Nat :
              Whole = 4 * w /\ Whole \div 4 = w /\ base = 4 * b
  <1>1. Half \in Nat /\ Half % 8 = 0 /\ base \in 0 .. Whole - 1 /\ base % 4 = 0
        /\ Targets \subseteq 0 .. Whole - 1
    BY RelocateAssumption
  <1>2. Whole \in Nat /\ Whole # 0
    <2>1. Whole \in Nat  BY <1>1 DEF Whole
    <2> QED BY <1>1, <2>1
  <1>3. Half # 0  BY <1>2 DEF Whole
  <1>4. PICK t \in Nat : Half = 8 * t
    <2>1. Half \div 8 \in Nat /\ Half = 8 * (Half \div 8)  BY <1>1
    <2> QED BY <2>1
  <1>5. 4 * t \in Nat \ {0} /\ Half = 2 * (4 * t) /\ Half \div 2 = 4 * t
    BY <1>3, <1>4
  <1>6. \E w \in Nat \ {0}, b \in Nat : Whole = 4 * w /\ Whole \div 4 = w /\ base = 4 * b
    <2>1. PICK w : w = 2 * t * Half  OBVIOUS
    <2>2. w \in Nat /\ Whole = 4 * w
      <3>1. w \in Nat  BY <1>1, <2>1
      <3>2. Half * Half = (8 * t) * Half  BY <1>4
      <3>3. (8 * t) * Half = 4 * (2 * t * Half)  BY <1>1
      <3> QED BY <2>1, <3>1, <3>2, <3>3 DEF Whole
    <2>3. w # 0 /\ Whole \div 4 = w  BY <1>2, <2>2
    <2>4. base \div 4 \in Nat /\ base = 4 * (base \div 4)  BY <1>1
    <2> QED BY <2>2, <2>3, <2>4
  <1> QED BY <1>1, <1>2, <1>3, <1>5, <1>6 DEF Whole

(* The halves of an address: a high one that makes up for the sign of the  *)
(* low one.                                                                *)
LEMMA HalvesOf ==
  ASSUME base \in Bases, NEW a \in 0 .. Whole - 1
  PROVE  /\ Stored("lo", a) \in 0 .. Half - 1
         /\ Signed(Stored("lo", a)) \in Int
         /\ \E k \in {0, 1} :
              Stored("hi", a) * Half + Signed(Stored("lo", a)) = a - Whole * k
         /\ \E j \in Int : Half * j \in Int /\ Signed(Stored("lo", a)) = a + Half * j
         /\ Stored("hi", a)
              = (a \div Half + (IF a % Half >= Half \div 2 THEN 1 ELSE 0)) % Half
  <1>1. Half \in Nat \ {0} /\ Whole \in Nat \ {0} /\ Half * Half = Whole
    BY Halves
  <1>2. PICK h \in Nat \ {0} : Half = 2 * h /\ Half \div 2 = h  BY Halves
  <1>3. PICK x, y : x = a \div Half /\ y = a % Half  OBVIOUS
  <1>4. a \in Int  BY <1>1
  <1>5. y \in 0 .. Half - 1 /\ x \in Int /\ a = Half * x + y
    BY <1>1, <1>3, <1>4, RemainderOf
  <1>6. x \in 0 .. Half - 1
    <2>1. Half * x \in Int /\ -Half < Half * x /\ Half * x < Half * Half
      BY <1>1, <1>5
    <2>2. x >= 0
      <3>1. CASE x <= -1
        <4>1. Half * x <= -Half  BY <1>1, <1>5, <3>1
        <4> QED BY <1>1, <2>1, <4>1
      <3> QED BY <1>5, <3>1
    <2>3. x < Half
      <3>1. CASE x >= Half
        <4>1. Half * x >= Half * Half  BY <1>1, <1>5, <3>1, Z3
        <4> QED BY <1>1, <2>1, <4>1
      <3> QED BY <1>1, <1>5, <3>1
    <2>4. x \in Int /\ Half \in Int  BY <1>1, <1>5
    <2> QED BY ONLY <2>2, <2>3, <2>4
  <1>7. Stored("lo", a) = y  BY <1>3 DEF Stored
  <1>8. PICK c : c = IF y >= h THEN 1 ELSE 0  OBVIOUS
  <1>9. c \in {0, 1}  BY <1>8
  <1>10. c \in {0, 1} /\ Signed(y) = y - c * Half /\ Signed(y) = y - Half * c
    BY <1>1, <1>2, <1>5, <1>8 DEF Signed
  <1>11. (a + h) \div Half = x + c
    <2>1. PICK z : z = y + h - Half * c  OBVIOUS
    <2>2. z \in 0 .. Half - 1  BY <1>1, <1>2, <1>5, <1>8, <2>1
    <2>3. x + c \in Int /\ Half * (x + c) = Half * x + Half * c
          /\ Half * x \in Int /\ Half * c \in Int
      BY <1>1, <1>5, <1>10
    <2>4. a + h = Half * (x + c) + z  BY <1>2, <1>5, <2>1, <2>2, <2>3
    <2>5. (Half * (x + c) + z) \div Half = x + c
      BY <1>1, <2>2, <2>3, QuotientIs
    <2> QED BY <2>4, <2>5
  <1>12. Stored("hi", a) = (x + c) % Half  BY <1>2, <1>11 DEF Stored
  <1>13. Half \in Nat /\ Half > 0 /\ c \in {0, 1}  BY ONLY <1>1, <1>9
  <1>14. PICK k \in {0, 1} : (x + c) % Half = x + c - Half * k
    <2>1. CASE x + c < Half
      <3>1. x + c \in 0 .. Half - 1  BY ONLY <1>6, <1>13, <2>1
      <3>2. (Half * 0 + (x + c)) % Half = x + c  BY <1>1, <3>1, RemainderIs
      <3>3. Half * 0 + (x + c) = x + c /\ x + c - Half * 0 = x + c
        BY ONLY <1>6, <1>13
      <3> QED BY <3>2, <3>3
    <2>2. CASE x + c >= Half
      <3>1. x + c = Half /\ 0 \in 0 .. Half - 1
        BY ONLY <1>6, <1>13, <2>2
      <3>2. (Half * 1 + 0) % Half = 0  BY <1>1, <3>1, RemainderIs
      <3>3. Half * 1 + 0 = x + c /\ x + c - Half * 1 = 0
        BY ONLY <1>6, <1>13, <3>1
      <3> QED BY <3>2, <3>3
    <2> QED BY <1>6, <1>13, <2>1, <2>2
  <1>15. Stored("hi", a) * Half + Signed(y) = a - Whole * k
    <2>1. PICK s : s = x + c - Half * k  OBVIOUS
    <2>2. /\ Half * x \in Int /\ Half * c \in Int /\ Whole * k \in Int
          /\ s * Half = Half * x + Half * c - Whole * k
      <3>1. CASE k = 0  BY <1>1, <1>6, <1>10, <2>1, <3>1
      <3>2. CASE k = 1
        <4>1. s = x + c - Half  BY <1>1, <2>1, <3>2
        <4>2. s * Half = Half * x + Half * c - Half * Half  BY <1>1, <1>6, <1>10, <4>1
        <4>3. Whole * k = Whole  BY <1>1, <3>2
        <4> QED BY <1>1, <1>6, <1>10, <4>2, <4>3
      <3> QED BY <3>1, <3>2
    <2>3. Stored("hi", a) = s  BY <1>12, <1>14, <2>1
    <2> QED BY <1>5, <1>10, <2>2, <2>3
  <1>16. \E j \in Int : Half * j \in Int /\ Signed(y) = a + Half * j
    <2>1. PICK j : j = -x - c  OBVIOUS
    <2>2. j \in Int /\ Half * j = -(Half * x) - Half * c
          /\ Half * x \in Int /\ Half * c \in Int
      BY <1>1, <1>6, <1>10, <2>1
    <2> QED BY <1>5, <1>10, <2>2
  <1>17. Signed(y) \in Int  BY <1>1, <1>5, <1>10
  <1> QED BY <1>2, <1>3, <1>5, <1>7, <1>8, <1>12, <1>15, <1>16, <1>17

(* What the loader makes of a word for address a is what the assembler     *)
(* would have left for the address the module has come to have.            *)
LEMMA FixupsMove ==
  ASSUME base \in Bases, NEW a \in 0 .. Whole - 1
  PROVE  LET there == (a + base) % Whole
             low == Signed(Stored("lo", a)) + base
         IN  /\ there \in 0 .. Whole - 1
             /\ (Stored("32", a) + base) % Whole = Stored("32", there)
             /\ ((Stored("26", a) * 4 + base) \div 4) % (Whole \div 4)
                  = Stored("26", there)
             /\ low % Half = Stored("lo", there)
             /\ (Stored("hi", a) * Half + low) % Whole = there
  <1> DEFINE there == (a + base) % Whole
             low == Signed(Stored("lo", a)) + base
  <1>1. /\ Half \in Nat \ {0} /\ Whole \in Nat \ {0} /\ Half * Half = Whole
        /\ base \in Int /\ a \in Int /\ a + base \in Int /\ base \in 0 .. Whole - 1
    BY Halves
  <1>2. PICK e : e = (a + base) \div Whole  OBVIOUS
  <1>3. there \in 0 .. Whole - 1 /\ e \in Int /\ a + base = Whole * e + there
    BY ONLY <1>1, <1>2, RemainderOf
  <1>4. (Stored("32", a) + base) % Whole = Stored("32", there)  BY DEF Stored
  <1>5. ((Stored("26", a) * 4 + base) \div 4) % (Whole \div 4) = Stored("26", there)
    <2>1. PICK w \in Nat \ {0}, b \in Nat :
            Whole = 4 * w /\ Whole \div 4 = w /\ base = 4 * b
      BY Halves
    <2>2. PICK q \in Int, r \in 0 .. 3 : a = 4 * q + r /\ a \div 4 = q
      <3>1. 4 \in Nat \ {0} /\ 4 - 1 = 3  OBVIOUS
      <3>2. a % 4 \in 0 .. 3 /\ a \div 4 \in Int /\ a = 4 * (a \div 4) + (a % 4)
        BY ONLY <1>1, <3>1, RemainderOf
      <3> QED BY <3>2
    <2>3. PICK f \in 0 .. w - 1, g \in Int : q + b = w * g + f /\ (q + b) % w = f
      <3>1. q + b \in Int /\ w \in Nat \ {0}  OBVIOUS
      <3>2. /\ (q + b) % w \in 0 .. w - 1 /\ (q + b) \div w \in Int
            /\ q + b = w * ((q + b) \div w) + ((q + b) % w)
        BY ONLY <3>1, RemainderOf
      <3> QED BY <3>2
    <2>4. Stored("26", a) * 4 + base = 4 * (q + b) + 0  BY <2>1, <2>2 DEF Stored
    <2>5. (4 * (q + b) + 0) \div 4 = q + b
      <3>1. 4 \in Nat \ {0} /\ q + b \in Int /\ 0 \in 0 .. 4 - 1  OBVIOUS
      <3> QED BY ONLY <3>1, QuotientIs
    <2>6. there = 4 * f + r
      <3>1. w * g \in Int /\ Whole * g = 4 * (w * g)  BY <2>1, <2>3
      <3>2. a + base = Whole * g + (4 * f + r)
        <4>1. PICK v : v = w * g  OBVIOUS
        <4>2. v \in Int /\ q + b = v + f /\ Whole * g = 4 * v  BY ONLY <2>3, <3>1, <4>1
        <4>3. a = 4 * q + r /\ base = 4 * b  BY ONLY <2>1, <2>2
        <4> QED BY ONLY <4>2, <4>3
      <3>3. 4 * f + r \in 0 .. Whole - 1
        <4>1. f \in 0 .. w - 1 /\ r \in 0 .. 3 /\ w \in Nat /\ Whole = 4 * w
          BY ONLY <2>1, <2>3, <2>2
        <4> QED BY ONLY <4>1
      <3>4. g \in Int /\ Whole \in Nat \ {0}  BY <1>1
      <3>5. (Whole * g + (4 * f + r)) % Whole = 4 * f + r
        BY ONLY <3>3, <3>4, RemainderIs
      <3> QED BY <3>2, <3>5
    <2>7. (4 * f + r) \div 4 = f
      <3>1. 4 \in Nat \ {0} /\ f \in Int /\ r \in 0 .. 4 - 1  OBVIOUS
      <3> QED BY ONLY <3>1, QuotientIs
    <2>8. Stored("26", there) = f  BY <2>6, <2>7 DEF Stored
    <2> QED BY ONLY <2>1, <2>3, <2>4, <2>5, <2>8
  <1>6. low % Half = Stored("lo", there)
    <2>1. PICK j \in Int : Half * j \in Int /\ Signed(Stored("lo", a)) = a + Half * j
      BY HalvesOf
    <2>2. low = (a + base) + Half * j  BY <1>1, <2>1
    <2>3. low % Half = (a + base) % Half
      <3>1. ((a + base) + Half * j) % Half = (a + base) % Half
        BY ONLY <1>1, RemainderShift
      <3> QED BY ONLY <2>2, <3>1
    <2>4. there = (a + base) + Half * (-(Half * e))
      <3>1. Half * e \in Int  BY ONLY <1>1, <1>3
      <3>2. Half * (-(Half * e)) = -(Half * (Half * e))  BY ONLY <1>1, <3>1
      <3>3. Half * (Half * e) = (Half * Half) * e  BY ONLY <1>1, <1>3
      <3>4. (Half * Half) * e = Whole * e /\ Whole * e \in Int  BY ONLY <1>1, <1>3
      <3>5. there = (a + base) - Whole * e
        <4>1. PICK y, x, z : y = Whole * e /\ x = a + base /\ z = there  OBVIOUS
        <4>2. y \in Int /\ z \in Int /\ x = y + z /\ x \in Int
          BY ONLY <1>1, <1>3, <3>4, <4>1
        <4>3. z = x - y  BY ONLY <4>2
        <4> QED BY ONLY <4>1, <4>3
      <3>6. PICK y : y = Whole * e  OBVIOUS
      <3>7. Half * (-(Half * e)) = -y /\ y \in Int /\ there = (a + base) - y
        BY ONLY <3>2, <3>3, <3>4, <3>5, <3>6
      <3> QED BY ONLY <1>1, <3>7
    <2>5. -(Half * e) \in Int  BY ONLY <1>1, <1>3
    <2>6. there % Half = (a + base) % Half
      <3>1. ((a + base) + Half * (-(Half * e))) % Half = (a + base) % Half
        BY ONLY <1>1, <2>5, RemainderShift
      <3> QED BY ONLY <2>4, <3>1
    <2>7. Stored("lo", there) = there % Half  BY DEF Stored
    <2> QED BY ONLY <2>3, <2>6, <2>7
  <1>7. (Stored("hi", a) * Half + low) % Whole = there
    <2>1. PICK k \in {0, 1} :
            Stored("hi", a) * Half + Signed(Stored("lo", a)) = a - Whole * k
      BY HalvesOf
    <2>2. PICK m : m = -k  OBVIOUS
    <2>3. m \in Int /\ Whole * k \in Int /\ Whole * m = -(Whole * k)  BY <1>1, <2>1, <2>2
    <2>4. PICK s : s = Stored("hi", a) * Half  OBVIOUS
    <2>5. Stored("hi", a) * Half + low = (a + base) + Whole * m
      <3>1. PICK d, c : d = Signed(Stored("lo", a)) /\ c = Whole * k  OBVIOUS
      <3>2. d \in Int  BY HalvesOf, <3>1
      <3>3. s \in Int
        <4>1. Stored("hi", a) \in Int
          <5>1. PICK n : n = a \div Half + (IF a % Half >= Half \div 2 THEN 1 ELSE 0)
            OBVIOUS
          <5>2. n \in Int
            <6>1. a \div Half \in Int  BY ONLY <1>1, RemainderOf
            <6> QED BY <5>1, <6>1
          <5>3. n % Half \in 0 .. Half - 1  BY ONLY <1>1, <5>2, RemainderOf
          <5>4. Stored("hi", a) = n % Half  BY HalvesOf, <5>1
          <5> QED BY <5>3, <5>4
        <4> QED BY <1>1, <2>4, <4>1
      <3>4. s + d = a - c /\ c \in Int /\ Whole * m = -c
        BY ONLY <2>1, <2>3, <2>4, <3>1
      <3>5. s + (d + base) = (a + base) + (-c)  BY ONLY <1>1, <3>2, <3>3, <3>4
      <3> QED BY ONLY <2>4, <3>1, <3>4, <3>5
    <2>6. ((a + base) + Whole * m) % Whole = (a + base) % Whole
      BY ONLY <1>1, <2>3, RemainderShift
    <2> QED BY ONLY <2>5, <2>6
  <1> QED BY <1>3, <1>4, <1>5, <1>6, <1>7

-----------------------------------------------------------------------------
Word == {"hi", "lo", "32", "26"} \X (1 .. 2) \X Nat

(* The sections the tool that makes the modules writes: a word has one     *)
(* entry, and the entry of a HI16 is followed by that of the LO16 it was   *)
(* assembled with.                                                         *)
Paired(l) ==
  /\ l \in Seq(Seq(Word))
  /\ \A s, t \in 1 .. Len(l) : \A i \in 1 .. Len(l[s]), j \in 1 .. Len(l[t]) :
       l[s][i] = l[t][j] => s = t /\ i = j
  /\ \A s \in 1 .. Len(l) : \A i \in 1 .. Len(l[s]) :
       l[s][i][1] = "hi" =>
         /\ i + 1 \in 1 .. Len(l[s])
         /\ l[s][i + 1][1] = "lo" /\ l[s][i + 1][2] = l[s][i][2]

Remains(l, w) == \E s \in 1 .. Len(l) : \E i \in 1 .. Len(l[s]) : l[s][i] = w

(* A section that has nothing left takes no word with it.                  *)
LEMMA EmptySectionGone ==
  ASSUME NEW l, Paired(l), l # <<>>, Head(l) = <<>>
  PROVE  Paired(Tail(l)) /\ \A w : Remains(Tail(l), w) <=> Remains(l, w)
  <1> DEFINE m == Tail(l)
             L == Len(l)
  <1>1. /\ L \in Nat /\ L >= 1 /\ l[1] = Head(l) /\ Len(l[1]) = 0
        /\ m \in Seq(Seq(Word)) /\ Len(m) = L - 1
        /\ \A s \in 1 .. L - 1 : s + 1 \in 1 .. L /\ m[s] = l[s + 1]
    BY DEF Paired
  <1> HIDE DEF m
  <1>2. \A s \in 1 .. L : s = 1 \/ (s - 1 \in 1 .. L - 1 /\ (s - 1) + 1 = s)
    BY <1>1
  <1>3. Paired(m)
    <2>1. ASSUME NEW s \in 1 .. L - 1, NEW t \in 1 .. L - 1,
                 NEW i \in 1 .. Len(m[s]), NEW j \in 1 .. Len(m[t]), m[s][i] = m[t][j]
          PROVE  s = t /\ i = j
      <3>1. s + 1 \in 1 .. L /\ t + 1 \in 1 .. L /\ m[s] = l[s + 1] /\ m[t] = l[t + 1]
        BY <1>1
      <3>2. s + 1 = t + 1 /\ i = j  BY <2>1, <3>1 DEF Paired
      <3> QED BY <3>2
    <2>2. ASSUME NEW s \in 1 .. L - 1, NEW i \in 1 .. Len(m[s]), m[s][i][1] = "hi"
          PROVE  /\ i + 1 \in 1 .. Len(m[s])
                 /\ m[s][i + 1][1] = "lo" /\ m[s][i + 1][2] = m[s][i][2]
      <3>1. PICK t : t = s + 1  OBVIOUS
      <3>2. t \in 1 .. L /\ m[s] = l[t]  BY <1>1, <3>1
      <3>3. i \in 1 .. Len(l[t]) /\ l[t][i][1] = "hi"  BY <2>2, <3>2
      <3>4. /\ i + 1 \in 1 .. Len(l[t])
            /\ l[t][i + 1][1] = "lo" /\ l[t][i + 1][2] = l[t][i][2]
        BY <3>2, <3>3 DEF Paired
      <3> QED BY ONLY <3>2, <3>4
    <2> QED BY <1>1, <2>1, <2>2 DEF Paired
  <1>4. ASSUME NEW w, Remains(m, w) PROVE Remains(l, w)
    <2>1. PICK s \in 1 .. L - 1 : \E i \in 1 .. Len(m[s]) : m[s][i] = w
      BY <1>1, <1>4 DEF Remains
    <2>2. s + 1 \in 1 .. L /\ m[s] = l[s + 1]  BY <1>1
    <2> QED BY <2>1, <2>2 DEF Remains
  <1>5. ASSUME NEW w, Remains(l, w) PROVE Remains(m, w)
    <2>1. PICK s \in 1 .. L : \E i \in 1 .. Len(l[s]) : l[s][i] = w  BY <1>5 DEF Remains
    <2>2. s # 1
      <3>1. 1 .. Len(l[1]) = {}  BY <1>1
      <3> QED BY <2>1, <3>1
    <2>3. PICK t : t = s - 1  OBVIOUS
    <2>4. t \in 1 .. L - 1 /\ t + 1 = s  BY <1>2, <2>2, <2>3
    <2>5. m[t] = l[s]  BY <1>1, <2>4
    <2> QED BY <1>1, <2>1, <2>4, <2>5 DEF Remains
  <1> QED BY <1>3, <1>4, <1>5 DEF m

(* The first word of the first section is the one taken.                   *)
LEMMA WordTaken ==
  ASSUME NEW l, Paired(l), l # <<>>, Head(l) # <<>>
  PROVE  LET w == Head(Head(l))
             m == <<Tail(Head(l))>> \o Tail(l)
         IN  /\ Paired(m) /\ w \in Word /\ Remains(l, w) /\ ~Remains(m, w)
             /\ \A v : Remains(l, v) <=> v = w \/ Remains(m, v)
             /\ w[1] = "hi" =>
                  /\ m # <<>> /\ Head(m) # <<>>
                  /\ Head(Head(m))[1] = "lo" /\ Head(Head(m))[2] = w[2]
  <1> DEFINE w == Head(Head(l))
             m == <<Tail(Head(l))>> \o Tail(l)
             L == Len(l)
             K == Len(l[1])
  <1>1. /\ L \in Nat /\ L >= 1 /\ l[1] = Head(l) /\ l[1] \in Seq(Word) /\ l[1] # <<>>
        /\ Tail(l) \in Seq(Seq(Word)) /\ Len(Tail(l)) = L - 1
        /\ \A s \in 1 .. L - 1 : Tail(l)[s] = l[s + 1]
    BY DEF Paired
  <1>2. /\ K \in Nat /\ K >= 1 /\ w = l[1][1] /\ w \in Word
        /\ Tail(l[1]) \in Seq(Word) /\ Len(Tail(l[1])) = K - 1
        /\ \A i \in 1 .. K - 1 : i + 1 \in 1 .. K /\ Tail(l[1])[i] = l[1][i + 1]
    BY <1>1
  <1>3. /\ m \in Seq(Seq(Word)) /\ Len(m) = L /\ m[1] = Tail(l[1])
        /\ \A s \in 2 .. L : m[s] = l[s]
    <2>1. PICK a, b : a = <<Tail(l[1])>> /\ b = Tail(l)  OBVIOUS
    <2>2. a \in Seq(Seq(Word)) /\ b \in Seq(Seq(Word)) /\ Len(a) = 1 /\ Len(b) = L - 1
          /\ a[1] = Tail(l[1])
      BY <1>1, <1>2, <2>1
    <2>3. m = a \o b  BY <1>1, <2>1
    <2>4. PICK S : S = Seq(Word)  OBVIOUS
    <2>5. a \in Seq(S) /\ b \in Seq(S) /\ Len(a) = 1 /\ Len(b) = L - 1
      BY ONLY <2>2, <2>4
    <2>6. /\ a \o b \in Seq(S) /\ Len(a \o b) = Len(a) + Len(b)
          /\ \A s \in 1 .. Len(a) + Len(b) :
               (a \o b)[s] = IF s <= Len(a) THEN a[s] ELSE b[s - Len(a)]
      BY ONLY <2>5, ConcatProperties
    <2>7. /\ m \in Seq(S) /\ Len(m) = Len(a) + Len(b)
           /\ \A s \in 1 .. Len(a) + Len(b) :
                m[s] = IF s <= Len(a) THEN a[s] ELSE b[s - Len(a)]
      BY ONLY <2>3, <2>6
    <2>8. Len(a) = 1 /\ Len(a) + Len(b) = L /\ 1 \in 1 .. L  BY ONLY <1>1, <2>2
    <2>9. m[1] = a[1]  BY ONLY <2>8, <2>7
    <2>10. m \in Seq(Seq(Word)) /\ Len(m) = L /\ m[1] = Tail(l[1])
      BY ONLY <2>2, <2>4, <2>8, <2>7, <2>9
    <2>11. ASSUME NEW s \in 2 .. L PROVE m[s] = l[s]
      <3>1. s - 1 \in 1 .. L - 1 /\ (s - 1) + 1 = s  BY <1>1
      <3>2. m[s] = b[s - 1]
        <4>1. s \in 1 .. L /\ ~(s <= 1)  BY ONLY <1>1
        <4> QED BY ONLY <2>8, <2>7, <4>1
      <3>3. b[s - 1] = l[(s - 1) + 1]  BY <1>1, <2>1, <3>1
      <3> QED BY <3>1, <3>2, <3>3
    <2> QED BY <2>10, <2>11
  <1> HIDE DEF m, w
  (* Where the words of m stood in l.                                      *)
  <1> DEFINE at(s, i) == IF s = 1 THEN i + 1 ELSE i
  <1>4. ASSUME NEW s \in 1 .. L, NEW i \in 1 .. Len(m[s])
        PROVE  /\ at(s, i) \in 1 .. Len(l[s]) /\ m[s][i] = l[s][at(s, i)]
               /\ at(s, i) \in Nat /\ i \in Nat
               /\ s = 1 => at(s, i) = i + 1
               /\ s # 1 => at(s, i) = i /\ m[s] = l[s]
    <2>1. CASE s = 1
      <3>1. Len(m[s]) = K - 1  BY <1>2, <1>3, <2>1
      <3>2. i \in 1 .. K - 1  BY ONLY <3>1
      <3>3. i \in 1 .. K - 1 /\ i \in Nat /\ i + 1 \in Nat  BY ONLY <1>2, <3>2
      <3>4. m[s][i] = l[1][i + 1] /\ i + 1 \in 1 .. K  BY <1>2, <1>3, <2>1, <3>3
      <3>5. at(s, i) = i + 1 /\ l[s] = l[1]  BY <2>1
      <3> QED BY <2>1, <3>3, <3>4, <3>5
    <2>2. CASE s # 1
      <3>1. s \in 2 .. L  BY <1>1, <2>2
      <3> QED BY <1>3, <2>2, <3>1
    <2> QED BY <2>1, <2>2
  <1>5. Paired(m)
    <2>1. ASSUME NEW s \in 1 .. L, NEW t \in 1 .. L,
                 NEW i \in 1 .. Len(m[s]), NEW j \in 1 .. Len(m[t]), m[s][i] = m[t][j]
          PROVE  s = t /\ i = j
      <3>1. PICK n, k : n = at(s, i) /\ k = at(t, j)  OBVIOUS
      <3>2. /\ n \in 1 .. Len(l[s]) /\ m[s][i] = l[s][n]
            /\ k \in 1 .. Len(l[t]) /\ m[t][j] = l[t][k]
        BY <1>4, <3>1
      <3>3. \A x \in 1 .. Len(l[s]), y \in 1 .. Len(l[t]) :
              l[s][x] = l[t][y] => s = t /\ x = y
        BY DEF Paired
      <3>4. l[s][n] = l[t][k]  BY ONLY <2>1, <3>2
      <3>5. s = t /\ n = k  BY ONLY <3>2, <3>3, <3>4
      <3>6. s = t /\ at(s, i) = at(t, j)  BY <3>1, <3>5
      <3> QED BY <1>4, <3>6
    <2>2. ASSUME NEW s \in 1 .. L, NEW i \in 1 .. Len(m[s]), m[s][i][1] = "hi"
          PROVE  /\ i + 1 \in 1 .. Len(m[s])
                 /\ m[s][i + 1][1] = "lo" /\ m[s][i + 1][2] = m[s][i][2]
      <3>1. PICK n : n = at(s, i)  OBVIOUS
      <3>2. n \in 1 .. Len(l[s]) /\ m[s][i] = l[s][n]  BY <1>4, <3>1
      <3>3. /\ n + 1 \in 1 .. Len(l[s])
            /\ l[s][n + 1][1] = "lo" /\ l[s][n + 1][2] = l[s][n][2]
        BY <2>2, <3>2 DEF Paired
      <3>4. i + 1 \in 1 .. Len(m[s]) /\ m[s][i + 1] = l[s][n + 1]
        <4>1. CASE s = 1
          <5>1. n = i + 1 /\ i \in 1 .. K - 1 /\ n + 1 \in 1 .. K
            BY <1>2, <1>3, <1>4, <3>1, <3>3, <4>1
          <5>2. i + 1 \in 1 .. K - 1  BY <1>2, <5>1
          <5> QED BY <1>2, <1>3, <4>1, <5>1, <5>2
        <4>2. CASE s # 1  BY <1>4, <3>1, <3>3, <4>2
        <4> QED BY <4>1, <4>2
      <3> QED BY <3>2, <3>3, <3>4
    <2> QED BY <1>3, <2>1, <2>2 DEF Paired
  <1>6. Remains(l, w)  BY <1>1, <1>2 DEF Remains
  <1>7. ~Remains(m, w)
    <2>1. ASSUME NEW s \in 1 .. L, NEW i \in 1 .. Len(m[s]), m[s][i] = w
          PROVE  FALSE
      <3>1. l[s][at(s, i)] = l[1][1] /\ at(s, i) \in 1 .. Len(l[s])
        BY <1>2, <1>4, <2>1
      <3>2. 1 \in 1 .. L /\ 1 \in 1 .. Len(l[1])  BY <1>1, <1>2
      <3>3. s = 1 /\ at(s, i) = 1  BY <3>1, <3>2 DEF Paired
      <3> QED BY <1>4, <3>3
    <2> QED BY <1>3, <2>1 DEF Remains
  <1>8. ASSUME NEW v, Remains(m, v) PROVE Remains(l, v)
    <2>1. PICK s \in 1 .. L : \E i \in 1 .. Len(m[s]) : m[s][i] = v
      BY <1>3, <1>8 DEF Remains
    <2>2. PICK i \in 1 .. Len(m[s]) : m[s][i] = v  BY <2>1
    <2>3. PICK n : n = at(s, i)  OBVIOUS
    <2>4. n \in 1 .. Len(l[s]) /\ l[s][n] = v  BY <1>4, <2>2, <2>3
    <2> QED BY <2>4 DEF Remains
  <1>9. ASSUME NEW v, Remains(l, v), v # w PROVE Remains(m, v)
    <2>1. PICK s \in 1 .. L : \E i \in 1 .. Len(l[s]) : l[s][i] = v  BY <1>9 DEF Remains
    <2>2. PICK i \in 1 .. Len(l[s]) : l[s][i] = v  BY <2>1
    <2>3. CASE s = 1
      <3>1. i # 1 /\ i \in 1 .. K  BY <1>2, <1>9, <2>3, <2>2
      <3>2. PICK j : j = i - 1  OBVIOUS
      <3>3. j \in 1 .. K - 1 /\ j + 1 = i  BY <1>2, <3>1, <3>2
      <3>4. m[s][j] = v /\ j \in 1 .. Len(m[s])  BY <1>2, <1>3, <2>3, <2>2, <3>3
      <3> QED BY <1>3, <3>4 DEF Remains
    <2>4. CASE s # 1
      <3>1. s \in 2 .. L  BY <1>1, <2>4
      <3> QED BY <1>3, <2>1, <3>1 DEF Remains
    <2> QED BY <2>3, <2>4
  <1>10. ASSUME w[1] = "hi"
         PROVE  /\ m # <<>> /\ Head(m) # <<>>
                /\ Head(Head(m))[1] = "lo" /\ Head(Head(m))[2] = w[2]
    <2>1. 1 \in 1 .. L /\ 1 \in 1 .. Len(l[1])  BY <1>1, <1>2
    <2>2. /\ 2 \in 1 .. K /\ l[1][2][1] = "lo" /\ l[1][2][2] = w[2]
      <3>1. 1 + 1 \in 1 .. K /\ l[1][1 + 1][1] = "lo" /\ l[1][1 + 1][2] = l[1][1][2]
        BY <1>2, <1>10, <2>1 DEF Paired
      <3> QED BY <1>2, <3>1
    <2>3. 1 \in 1 .. K - 1 /\ m[1][1] = l[1][2]
      <3>1. 1 \in 1 .. K - 1  BY <1>2, <2>2
      <3>2. Tail(l[1])[1] = l[1][1 + 1]  BY <1>2, <3>1
      <3> QED BY <1>3, <3>1, <3>2
    <2>4. m # <<>> /\ Head(m) = m[1]  BY <1>1, <1>3
    <2>5. m[1] # <<>> /\ Head(m[1]) = m[1][1]
      <3>1. PICK y : y = m[1]  OBVIOUS
      <3>2. y \in Seq(Word) /\ Len(y) = K - 1 /\ 1 \in 1 .. K - 1
        BY <1>2, <1>3, <2>3, <3>1
      <3>3. y # <<>> /\ Head(y) = y[1]  BY ONLY <1>2, <3>2
      <3> QED BY <3>1, <3>3
    <2> QED BY <2>2, <2>3, <2>4, <2>5
  <1> QED BY <1>2, <1>5, <1>6, <1>7, <1>8, <1>9, <1>10 DEF m, w

(* The inductive invariant.                                                *)
Undone(w) == Remains(sections, w) \/ heldHi = <<w>>

Told(w) == IF Undone(w) THEN meant[w[2]] ELSE (meant[w[2]] + base) % Whole

CodeTold == \A w \in DOMAIN code : code[w] = Stored(w[1], Told(w))

HeldNext ==
  heldHi = <<>> \/
    \E h \in DOMAIN code :
      /\ heldHi = <<h>> /\ h[1] = "hi" /\ ~Remains(sections, h)
      /\ sections # <<>> /\ Head(sections) # <<>>
      /\ Head(Head(sections))[1] = "lo" /\ Head(Head(sections))[2] = h[2]

RelocInv ==
  /\ base \in Bases /\ meant \in [1 .. 2 -> Targets]
  /\ Paired(sections) /\ DOMAIN code \subseteq Word
  /\ \A w : Remains(sections, w) => w \in DOMAIN code
  /\ CodeTold /\ HeldNext

LEMMA MeantAddress ==
  ASSUME base \in Bases, meant \in [1 .. 2 -> Targets], NEW w \in Word
  PROVE  /\ meant[w[2]] \in 0 .. Whole - 1
         /\ w[1] \in {"hi", "lo", "32", "26"} /\ w[2] \in 1 .. 2
  BY Halves DEF Word

LEMMA RelocateStarts ==
  ASSUME \A l \in Layouts : Paired(l), RelocateInit
  PROVE  RelocInv
  <1>1. /\ base \in Bases /\ meant \in [1 .. 2 -> Targets] /\ heldHi = <<>>
        /\ Paired(sections)
        /\ code = [w \in UNION {ToSet(s) : s \in ToSet(sections)} |->
                     Stored(w[1], meant[w[2]])]
    BY DEF RelocateInit
  <1>2. sections \in Seq(Seq(Word))  BY <1>1 DEF Paired
  <1>3. \A w : w \in DOMAIN code <=> Remains(sections, w)
    <2>1. DOMAIN code = UNION {ToSet(s) : s \in ToSet(sections)}  BY <1>1
    <2>2. \A s \in 1 .. Len(sections) : sections[s] \in Seq(Word)  BY <1>2
    <2>3. \A s \in 1 .. Len(sections) : DOMAIN sections[s] = 1 .. Len(sections[s])
      BY <2>2
    <2>4. DOMAIN sections = 1 .. Len(sections)  BY <1>2
    <2>5. ToSet(sections) = {sections[s] : s \in 1 .. Len(sections)}
      BY <2>4 DEF ToSet
    <2>6. \A s \in 1 .. Len(sections) :
            ToSet(sections[s]) = {sections[s][i] : i \in 1 .. Len(sections[s])}
      BY <2>3 DEF ToSet
    <2>7. ASSUME NEW w
          PROVE  w \in DOMAIN code <=>
                   \E s \in 1 .. Len(sections) : w \in ToSet(sections[s])
      BY <2>1, <2>5
    <2>8. ASSUME NEW w, NEW s \in 1 .. Len(sections)
          PROVE  w \in ToSet(sections[s]) <=>
                   \E i \in 1 .. Len(sections[s]) : sections[s][i] = w
      BY <2>6
    <2> QED BY ONLY <2>7, <2>8 DEF Remains
  <1>4. \A w : Remains(sections, w) => w \in Word
    <2>1. \A s \in 1 .. Len(sections) : sections[s] \in Seq(Word)  BY <1>2
    <2>2. \A s \in 1 .. Len(sections) : \A i \in 1 .. Len(sections[s]) :
            sections[s][i] \in Word
      BY <2>1
    <2> QED BY <2>2 DEF Remains
  <1>5. CodeTold
    <2>1. ASSUME NEW w \in DOMAIN code PROVE code[w] = Stored(w[1], Told(w))
      <3>1. Told(w) = meant[w[2]]  BY <1>3 DEF Told, Undone
      <3>2. code[w] = Stored(w[1], meant[w[2]])  BY <1>1
      <3> QED BY ONLY <3>1, <3>2
    <2> QED BY <2>1 DEF CodeTold
  <1>6. HeldNext  BY <1>1 DEF HeldNext
  <1> QED BY <1>1, <1>3, <1>4, <1>5, <1>6 DEF RelocInv

LEMMA SectionLeavesRight ==
  ASSUME RelocInv, NextSection
  PROVE  RelocInv'
  <1>1. /\ sections # <<>> /\ Head(sections) = <<>> /\ sections' = Tail(sections)
        /\ heldHi' = <<>> /\ base' = base /\ meant' = meant /\ code' = code
    BY DEF NextSection
  <1>2. Paired(sections') /\ \A w : Remains(sections', w) <=> Remains(sections, w)
    BY <1>1, EmptySectionGone DEF RelocInv
  <1>3. heldHi = <<>>  BY <1>1 DEF RelocInv, HeldNext
  <1>4. \A w : Undone(w)' <=> Undone(w)  BY <1>1, <1>2, <1>3 DEF Undone
  <1>5. CodeTold'
    <2>1. ASSUME NEW w \in DOMAIN code' PROVE code'[w] = Stored(w[1], Told(w)')
      <3>1. Told(w)' = Told(w)  BY <1>1, <1>4 DEF Told
      <3> QED BY <1>1, <3>1 DEF RelocInv, CodeTold
    <2> QED BY <2>1 DEF CodeTold, Stored
  <1>6. HeldNext'  BY <1>1 DEF HeldNext
  <1> QED BY <1>1, <1>2, <1>5, <1>6 DEF RelocInv

LEMMA WordLeavesRight ==
  ASSUME RelocInv, ApplyRelocation
  PROVE  RelocInv'
  <1>1. PICK w : w = Head(Head(sections))  OBVIOUS
  <1> DEFINE a == meant[w[2]]
             there == (a + base) % Whole
  <1>2. /\ sections # <<>> /\ Head(sections) # <<>>
        /\ code' = CASE w[1] = "32" -> Word32(w)
                     [] w[1] = "26" -> Jump26(w)
                     [] w[1] = "hi" -> code
                     [] w[1] = "lo" -> Low16(w)
        /\ heldHi' = HeldAfter(w)
        /\ sections' = <<Tail(Head(sections))>> \o Tail(sections)
        /\ base' = base /\ meant' = meant
    BY <1>1 DEF ApplyRelocation
  <1>3. /\ Paired(sections') /\ w \in Word /\ Remains(sections, w)
        /\ ~Remains(sections', w)
        /\ \A v : Remains(sections, v) <=> v = w \/ Remains(sections', v)
        /\ w[1] = "hi" =>
             /\ sections' # <<>> /\ Head(sections') # <<>>
             /\ Head(Head(sections'))[1] = "lo" /\ Head(Head(sections'))[2] = w[2]
    BY <1>2, <1>1, WordTaken DEF RelocInv
  <1>4. /\ base \in Bases /\ meant \in [1 .. 2 -> Targets] /\ DOMAIN code \subseteq Word
        /\ w \in DOMAIN code /\ CodeTold /\ HeldNext
        /\ \A v : Remains(sections, v) => v \in DOMAIN code
    BY <1>3 DEF RelocInv
  <1>5. a \in 0 .. Whole - 1 /\ w[1] \in {"hi", "lo", "32", "26"}
    BY <1>3, <1>4, MeantAddress
  <1>6. code[w] = Stored(w[1], a)
    <2>1. Told(w) = a  BY <1>3 DEF Told, Undone
    <2> QED BY <1>4, <2>1 DEF CodeTold
  <1>7. \A v \in DOMAIN code :
          code[v] = Stored(v[1], IF Undone(v) THEN meant[v[2]]
                                 ELSE (meant[v[2]] + base) % Whole)
    BY <1>4 DEF CodeTold, Told
  <1> DEFINE Now(v) == IF Undone(v)' THEN meant[v[2]] ELSE (meant[v[2]] + base) % Whole
  <1>8. SUFFICES /\ DOMAIN code' = DOMAIN code
                 /\ \A v \in DOMAIN code : code'[v] = Stored(v[1], Now(v))
                 /\ HeldNext'
    <2>1. \A v \in DOMAIN code' : Told(v)' = Now(v)  BY <1>2 DEF Told
    <2>2. CodeTold'  BY <1>2, <1>8, <2>1 DEF CodeTold, Stored
    <2> QED BY <1>2, <1>3, <1>4, <1>8, <2>2 DEF RelocInv
  <1>9. CASE w[1] = "hi"
    <2>1. heldHi = <<>>  BY <1>9, <1>1 DEF HeldNext, RelocInv
    <2>2. heldHi' = <<w>> /\ code' = code  BY <1>2, <1>9 DEF HeldAfter
    <2>3. \A v : Undone(v)' <=> Undone(v)  BY <1>3, <2>1, <2>2 DEF Undone
    <2>4. HeldNext'  BY <1>3, <1>4, <1>9, <2>2 DEF HeldNext
    <2> QED BY <1>7, <2>2, <2>3, <2>4
  <1>10. ASSUME heldHi = <<>>, heldHi' = <<>>, NEW x,
               code' = [code EXCEPT ![w] = x], x = Stored(w[1], there)
        PROVE  /\ DOMAIN code' = DOMAIN code
               /\ \A v \in DOMAIN code : code'[v] = Stored(v[1], Now(v))
               /\ HeldNext'
    <2>1. \A v : Undone(v)' <=> Undone(v) /\ v # w  BY <1>3, <1>10 DEF Undone
    <2>2. Now(w) = there
      <3>1. ~Undone(w)'  BY <2>1
      <3> QED BY ONLY <3>1
    <2>3. code'[w] = x  BY <1>4, <1>10
    <2>4. ASSUME NEW v \in DOMAIN code, v # w
          PROVE  code'[v] = Stored(v[1], Now(v))
      <3>1. code'[v] = code[v]  BY <1>10, <2>4
      <3>2. Undone(v)' <=> Undone(v)  BY <2>1, <2>4
      <3> QED BY <1>7, <3>1, <3>2
    <2>5. HeldNext'  BY <1>10 DEF HeldNext
    <2>6. DOMAIN code' = DOMAIN code  BY <1>10
    <2>7. code'[w] = Stored(w[1], Now(w))  BY ONLY <1>10, <2>2, <2>3
    <2>8. \A v \in DOMAIN code : code'[v] = Stored(v[1], Now(v))
      <3> HIDE DEF Now
      <3> QED BY ONLY <2>4, <2>7
    <2> QED BY ONLY <2>5, <2>6, <2>8
  <1>11. CASE w[1] = "32"
    <2>1. heldHi = <<>> /\ heldHi' = <<>>
      <3>1. heldHi = <<>>  BY <1>11, <1>1 DEF HeldNext, RelocInv
      <3> QED BY <1>2, <1>11, <3>1 DEF HeldAfter
    <2>2. code' = [code EXCEPT ![w] = (@ + base) % Whole]  BY <1>2, <1>11 DEF Word32
    <2>3. (code[w] + base) % Whole = Stored(w[1], there)
      BY <1>4, <1>5, <1>6, <1>11, FixupsMove
    <2> QED BY <1>10, <2>1, <2>2, <2>3
  <1>12. CASE w[1] = "26"
    <2>1. heldHi = <<>> /\ heldHi' = <<>>
      <3>1. heldHi = <<>>  BY <1>12, <1>1 DEF HeldNext, RelocInv
      <3> QED BY <1>2, <1>12, <3>1 DEF HeldAfter
    <2>2. code' = [code EXCEPT ![w] = ((@ * 4 + base) \div 4) % (Whole \div 4)]
      BY <1>2, <1>12 DEF Jump26
    <2>3. ((code[w] * 4 + base) \div 4) % (Whole \div 4) = Stored(w[1], there)
      BY <1>4, <1>5, <1>6, <1>12, FixupsMove
    <2> QED BY <1>10, <2>1, <2>2, <2>3
  <1>13. CASE w[1] = "lo" /\ heldHi = <<>>
    <2>1. heldHi' = <<>>  BY <1>2, <1>13 DEF HeldAfter
    <2>2. code' = [code EXCEPT ![w] = (Signed(code[w]) + base) % Half]
      BY <1>2, <1>13 DEF Low16
    <2>3. (Signed(code[w]) + base) % Half = Stored(w[1], there)
      BY <1>4, <1>5, <1>6, <1>13, FixupsMove
    <2> QED BY <1>10, <1>13, <2>1, <2>2, <2>3
  <1>14. CASE w[1] = "lo" /\ heldHi # <<>>
    <2>1. PICK h \in DOMAIN code :
            /\ heldHi = <<h>> /\ h[1] = "hi" /\ ~Remains(sections, h) /\ h[2] = w[2]
      BY <1>4, <1>14, <1>1 DEF HeldNext
    <2>2. heldHi' = <<>> /\ h # w /\ heldHi[1] = h  BY <1>2, <1>14, <2>1 DEF HeldAfter
    <2>3. code[h] = Stored("hi", a)
      <3>1. Undone(h)  BY <2>1 DEF Undone
      <3> QED BY <1>7, <2>1, <3>1
    <2> DEFINE addr == (code[h] * Half + (Signed(code[w]) + base)) % Whole
               top == (addr \div Half
                       + (IF addr % Half >= Half \div 2 THEN 1 ELSE 0)) % Half
    <2>4. code' = [code EXCEPT ![w] = addr % Half, ![h] = top]
      BY <1>2, <1>14, <2>2 DEF Low16
    <2>5. addr = there /\ there \in 0 .. Whole - 1
      BY <1>4, <1>5, <1>6, <1>14, <2>3, FixupsMove
    <2>6. top = Stored("hi", there)  BY <1>4, <2>5, HalvesOf
    <2>7. addr % Half = Stored("lo", there)  BY <2>5 DEF Stored
    <2> HIDE DEF addr, top
    <2>8. \A v : Undone(v)' <=> Undone(v) /\ v # w /\ v # h
      BY <1>3, <2>1, <2>2 DEF Undone
    <2>9. DOMAIN code' = DOMAIN code /\ code'[w] = addr % Half /\ code'[h] = top
          /\ \A v \in DOMAIN code : v # w /\ v # h => code'[v] = code[v]
      BY <1>4, <2>2, <2>4
    <2>10. code'[w] = Stored(w[1], Now(w)) /\ code'[h] = Stored(h[1], Now(h))
      <3>1. Now(w) = there /\ Now(h) = there
        <4>1. ~Undone(w)' /\ ~Undone(h)'  BY <2>8
        <4> QED BY ONLY <2>1, <4>1
      <3> QED BY <1>14, <2>1, <2>6, <2>7, <2>9, <3>1
    <2>11. ASSUME NEW v \in DOMAIN code, v # w, v # h
           PROVE  code'[v] = Stored(v[1], Now(v))
      <3>1. Undone(v)' <=> Undone(v)  BY <2>8, <2>11
      <3> QED BY <1>7, <2>9, <2>11, <3>1
    <2>12. HeldNext'  BY <2>2 DEF HeldNext
    <2>13. \A v \in DOMAIN code : code'[v] = Stored(v[1], Now(v))
      <3> HIDE DEF Now
      <3> QED BY ONLY <2>10, <2>11
    <2> QED BY ONLY <2>9, <2>12, <2>13
  <1> QED BY <1>5, <1>9, <1>11, <1>12, <1>13, <1>14

(* When all sections are done, every instruction has its address.          *)
LEMMA RelocInvEnds ==
  ASSUME RelocInv
  PROVE  RelocatedRight
  <1>1. SUFFICES ASSUME sections = <<>>, NEW k \in 1 .. 2
                 PROVE  LET there == (meant[k] + base) % Whole
                            word(kind) == {w \in DOMAIN code : w[1] = kind /\ w[2] = k}
                        IN  /\ \A hi \in word("hi"), lo \in word("lo") :
                                 Reached(hi, lo) = there
                            /\ \A w \in word("32") : code[w] = there
                            /\ \A w \in word("26") : code[w] = there \div 4
    BY DEF RelocatedRight
  <1> DEFINE a == meant[k]
             there == (a + base) % Whole
  <1>2. base \in Bases /\ meant \in [1 .. 2 -> Targets] /\ heldHi = <<>>
    BY <1>1 DEF RelocInv, HeldNext
  <1>3. a \in 0 .. Whole - 1  BY <1>2, Halves
  <1>4. there \in 0 .. Whole - 1  BY <1>2, <1>3, FixupsMove
  <1>5. \A w : ~Undone(w)
    <2>1. Len(sections) = 0  BY <1>1
    <2>2. \A w : ~Remains(sections, w)  BY <2>1 DEF Remains
    <2> QED BY <1>2, <2>2 DEF Undone
  <1>6. \A w \in DOMAIN code : w[2] = k => code[w] = Stored(w[1], there)
    <2>1. ASSUME NEW w \in DOMAIN code, w[2] = k PROVE code[w] = Stored(w[1], there)
      <3>1. Told(w) = there  BY <1>5, <2>1 DEF Told
      <3>2. code[w] = Stored(w[1], Told(w))  BY DEF RelocInv, CodeTold
      <3> QED BY ONLY <3>1, <3>2
    <2> QED BY <2>1
  <1>7. ASSUME NEW hi \in DOMAIN code, NEW lo \in DOMAIN code,
               hi[1] = "hi", hi[2] = k, lo[1] = "lo", lo[2] = k
        PROVE  Reached(hi, lo) = there
    <2>1. code[hi] = Stored("hi", there) /\ code[lo] = Stored("lo", there)
      BY <1>6, <1>7
    <2>2. PICK c \in {0, 1} :
            Stored("hi", there) * Half + Signed(Stored("lo", there)) = there - Whole * c
      BY <1>2, <1>4, HalvesOf
    <2>3. PICK m : m = -c  OBVIOUS
    <2>4. Whole \in Nat \ {0} /\ m \in Int /\ there - Whole * c = there + Whole * m
      <3>1. Whole \in Nat \ {0} /\ there \in Int  BY <1>2, <1>4, Halves
      <3>2. CASE c = 0  BY <2>3, <3>1, <3>2
      <3>3. CASE c = 1  BY <2>3, <3>1, <3>3
      <3> QED BY <3>2, <3>3
    <2>5. (there + Whole * m) % Whole = there
      <3>1. PICK t : t = there  OBVIOUS
      <3>2. t \in Int /\ t \in 0 .. Whole - 1  BY <1>4, <2>4, <3>1
      <3>3. Whole * m + t = t + Whole * m  BY ONLY <2>4, <3>2
      <3>4. (Whole * m + t) % Whole = t  BY ONLY <2>4, <3>2, RemainderIs
      <3> QED BY ONLY <3>1, <3>3, <3>4
    <2> QED BY <2>1, <2>2, <2>4, <2>5 DEF Reached
  <1>8. ASSUME NEW w \in DOMAIN code, w[2] = k
        PROVE  /\ w[1] = "32" => code[w] = there
               /\ w[1] = "26" => code[w] = there \div 4
    BY <1>6, <1>8 DEF Stored
  <1> QED BY <1>7, <1>8

(***************************************************************************)
(* Wherever a module is placed and however wide half an address is, every  *)
(* instruction of it reaches its address counted from the base, when its   *)
(* sections are as the tool that makes the modules writes them: the HI16   *)
(* that is held is always for the next LO16 (loader.hpp:211-237).          *)
(***************************************************************************)
THEOREM RelocationRight ==
  (\A l \in Layouts : Paired(l)) => (RelocateSpec => []RelocatedRight)
  <1> SUFFICES ASSUME \A l \in Layouts : Paired(l)
               PROVE  RelocateSpec => []RelocatedRight
    OBVIOUS
  <1>1. RelocateInit => RelocInv  BY RelocateStarts
  <1>2. RelocInv /\ [RelocateNext]_relocateVars => RelocInv'
    <2>1. CASE ApplyRelocation  BY <2>1, WordLeavesRight
    <2>2. CASE NextSection  BY <2>2, SectionLeavesRight
    <2>3. ASSUME RelocInv, UNCHANGED relocateVars PROVE RelocInv'
      <3>1. /\ base' = base /\ meant' = meant /\ sections' = sections
            /\ code' = code /\ heldHi' = heldHi
        BY <2>3 DEF relocateVars
      <3>2. \A w : Told(w)' = Told(w)  BY ONLY <3>1 DEF Told, Undone
      <3>3. CodeTold'  BY <2>3, <3>1, <3>2 DEF RelocInv, CodeTold, Stored
      <3>4. HeldNext'  BY <2>3, <3>1 DEF RelocInv, HeldNext
      <3> QED BY <2>3, <3>1, <3>3, <3>4 DEF RelocInv
    <2> QED BY <2>1, <2>2, <2>3 DEF RelocateNext
  <1>3. RelocInv => RelocatedRight  BY RelocInvEnds
  <1> QED BY <1>1, <1>2, <1>3, PTL DEF RelocateSpec
=============================================================================
