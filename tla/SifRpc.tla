------------------------------- MODULE SifRpc -------------------------------
(***************************************************************************)
(* Commands and remote calls between the two processors: the EE's client   *)
(* (src/ee/sifclient.cpp) and the kernel's side (src/kernel/sif.cpp), the  *)
(* IOP's SIFMAN, SIFCMD and EESYNC (src/iop/sifman.cpp, sifcmd.cpp,        *)
(* eesync.cpp), from the handshake on.                                     *)
(*                                                                         *)
(* A packet crosses only when its receiver is armed.  On the IOP packets   *)
(* are served by an interrupt handler, in one step; calls are handed to    *)
(* the server's own thread.  What goes back waits in SIFMAN's ring as the  *)
(* address of its bytes, which are read when the channel gets there.  Most *)
(* of SIFCMD's own packets are built in one buffer, outgoing.              *)
(***************************************************************************)
EXTENDS Integers, FiniteSets, Sequences

CONSTANTS
    Client,         \* the EE's clients, each with a client record
    Server,         \* the IOP's RPC servers
    RpcQueue,       \* their queues, each with a thread in RpcLoop
    Owner,          \* Server::queue
    Sender,         \* modules that send commands with a completion callback
    SendGroups,     \* kSendGroups
    MaxIds,         \* how many values rpc_id_counter takes before it repeats
    MaxWakeups,     \* bound: a call is made only below it, to a queue's thread
    Concurrent,     \* whether a client asks while another waits for an answer
    Nobody          \* a null pointer

ASSUME SifAssumption ==
    /\ Owner \in [Server -> RpcQueue] /\ {MaxIds, MaxWakeups} \subseteq Nat \ {0}
    /\ Nobody \notin Client \cup Server \cup Sender
    /\ SendGroups \in Nat /\ SendGroups >= Cardinality(Sender) + 2
    /\ Concurrent \in BOOLEAN

VARIABLES
    ee, iop,        \* how far each side's start has come
    smcom,          \* whether the IOP has published its receive buffer there
    msflg, smflg,   \* the flag registers, each set from one side
    listening,      \* ee_packet_buffer is the running program's
    want,           \* what each client waits for, or Nothing
    rpcId,          \* rpc_id_counter
    bound,          \* Client::server
    received,       \* whose result is in each client's receive buffer
    chan6,          \* the packet the EE's outgoing channel is on, or Nothing
    armed5, inbox,  \* the EE's incoming channel, and its packet buffer
    armed10, receive,   \* the IOP's incoming channel, and its packet buffer
    payload,        \* EESYNC's buffer: the window of a file it holds
    registered,     \* servers, with their queues
    pending, nextPending,   \* Queue::pending and Server::next_pending
    request, buffer,        \* each server's kept call, and its arguments
    phase, serving, answer, \* the queues' threads, in rpcLoop and answerCall
    wakeups,        \* and their wakeup counts in THREADMAN
    ran,            \* history: how often a function ran for a client's call
    outgoing,       \* SIFCMD's packet under construction
    ring,           \* send_queue from send_head on, send_queued runs long
    channel,        \* the IOP's outgoing channel, "Done" until its interrupt
    sender          \* the modules: "Waiting" until called back

eeVars == <<ee, want, rpcId, bound, ran>>
flagVars == <<iop, smcom, msflg, smflg>>
rpcVars == <<pending, nextPending, request>>
threadVars == <<phase, serving, answer, wakeups>>
ringVars == <<ring, channel>>
inVars == <<chan6, armed10, receive, buffer>>
backVars == <<armed5, inbox, received>>
keptVars == <<listening, payload, registered, outgoing, sender>>
sifVars == <<eeVars, flagVars, rpcVars, threadVars, ringVars, inVars, backVars,
             keptVars>>

Nothing == [kind |-> "Nothing"]
Id == 1 .. MaxIds
Asked == [kind : {"File", "Init", "InitRpc"}, client : Client, id : Id]
            \cup [kind : {"Bind", "Call"}, client : Client, id : Id, server : Server]
Packet == [kind : {"SetSreg", "Command"}]
            \cup [kind : {"End"}, cid : {"Bind", "Call"}, client : Client, id : Id,
                  server : Server \cup {Nobody}]
(* A run of the ring: the packet's buffer, the result sent ahead of it.    *)
Run == [from : {"outgoing", "payload"}, result : Id \cup {0},
        to : Client \cup {Nobody}, done : {Nobody}]
        \cup [from : {"sender"}, result : {0}, to : {Nobody}, done : Sender]
Phase == {"Loop", "Empty", "Asleep", "Serve", "Fill", "Send"}

-----------------------------------------------------------------------------
(* The handshake.  Each side's write sets its own flags at the other.      *)
PublishReceive ==
    /\ iop = "Off" /\ iop' = "Published" /\ smcom' = TRUE
    /\ UNCHANGED <<msflg, smflg, eeVars, rpcVars, threadVars, ringVars, inVars,
                   backVars, keptVars>>

(* sifInit: it waits for the EE's bit, which it leaves standing.           *)
SifInit ==
    /\ iop = "Published" /\ msflg /\ iop' = "Met"
    /\ smflg' = smflg \cup {"SifInit"}
    /\ UNCHANGED <<smcom, msflg, eeVars, rpcVars, threadVars, ringVars, inVars,
                   backVars, keptVars>>

StartSifcmd ==
    /\ iop = "Met" /\ iop' = "Up" /\ armed10' = TRUE
    /\ UNCHANGED <<smcom, msflg, smflg, chan6, receive, buffer, eeVars, rpcVars,
                   threadVars, ringVars, backVars, keptVars>>

(* EESYNC is the last module of the boot list.                             *)
StartEesync ==
    /\ iop = "Up" /\ iop' = "Synced" /\ smflg' = smflg \cup {"CmdInit"}
    /\ UNCHANGED <<smcom, msflg, eeVars, rpcVars, threadVars, ringVars, inVars,
                   backVars, keptVars>>

(* sifHandshake, in two steps: the bit is raised, the answer taken down.   *)
RaiseBit ==
    /\ ee = "Off" /\ ee' = "Raised" /\ msflg' = TRUE
    /\ UNCHANGED <<want, rpcId, bound, ran, iop, smcom, smflg, rpcVars,
                   threadVars, ringVars, inVars, backVars, keptVars>>

TakeAnswer ==
    /\ ee = "Raised" /\ "SifInit" \in smflg
    /\ ee' = "Met" /\ smflg' = smflg \ {"SifInit"}
    /\ UNCHANGED <<want, rpcId, bound, ran, iop, smcom, msflg, rpcVars,
                   threadVars, ringVars, inVars, backVars, keptVars>>

-----------------------------------------------------------------------------
Own == [from |-> "outgoing", result |-> 0, to |-> Nobody, done |-> Nobody]

(* SIFMAN's ring.  A run that finds it full is not queued, and SIFCMD does *)
(* not look at the answer.                                                 *)
Room == Len(ring) < SendGroups

Enqueue(run) ==
    IF ~Room THEN UNCHANGED ringVars
    ELSE /\ ring' = Append(ring, run)
         /\ channel' = IF ring = <<>> THEN "Busy" ELSE channel

(* The channel, once the EE's is armed: the bytes are read now.            *)
ChannelSends ==
    /\ channel = "Busy" /\ armed5
    /\ channel' = "Done" /\ armed5' = FALSE
    /\ LET run == Head(ring)
       IN  /\ inbox' = CASE run.from = "outgoing" -> outgoing
                         [] run.from = "sender" -> [kind |-> "Command"]
                         [] OTHER -> inbox
           /\ received' = IF run.to = Nobody THEN received
                          ELSE [received EXCEPT ![run.to] =
                                IF run.from = "payload" THEN payload ELSE run.result]
    /\ UNCHANGED <<ring, eeVars, flagVars, rpcVars, threadVars,
                   inVars, keptVars>>

(* Variant: the group is cleared before its callback is read.              *)
SendFinishedForgets ==
    /\ channel = "Done"
    /\ ring' = Tail(ring)
    /\ channel' = IF Len(ring) > 1 THEN "Busy" ELSE "Idle"
    /\ UNCHANGED <<eeVars, flagVars, rpcVars, threadVars, inVars, backVars, keptVars>>

(* sendFinished: the next run is started before the callback.              *)
SendFinished ==
    /\ channel = "Done"
    /\ ring' = Tail(ring)
    /\ channel' = IF Len(ring) > 1 THEN "Busy" ELSE "Idle"
    /\ sender' = [m \in Sender |-> IF m = Head(ring).done THEN "Idle" ELSE sender[m]]
    /\ UNCHANGED <<listening, payload, registered, outgoing, eeVars,
                   flagVars, rpcVars, threadVars, inVars, backVars>>

(* sendCmdIntr, by a module that then waits to be called back.  Between    *)
(* two programs' initRpc there is none: the rest of what Quiet assumes.    *)
SendCommand(m) ==
    /\ listening /\ sender[m] = "Idle"
    /\ Enqueue([from |-> "sender", result |-> 0, to |-> Nobody, done |-> m])
    /\ sender' = [sender EXCEPT ![m] = IF Room THEN "Waiting" ELSE @]
    /\ UNCHANGED <<listening, payload, registered, outgoing, eeVars, flagVars,
                   rpcVars, threadVars, inVars, backVars>>

-----------------------------------------------------------------------------
(* The EE asks.  A list is written only once the channel has drained, and  *)
(* sendCommand returns once it has again.                                  *)
Ask(c, asked) ==
    /\ "CmdInit" \in smflg /\ smcom /\ chan6 = Nothing /\ want[c] = Nothing
    /\ (Concurrent /\ ee = "Ready") \/ \A d \in Client : want[d] = Nothing
    /\ want' = [want EXCEPT ![c] = asked] /\ chan6' = asked
    /\ rpcId' = (rpcId % MaxIds) + 1
    /\ ran' = [ran EXCEPT ![c] = 0]
    /\ UNCHANGED <<ee, bound, armed10, receive, buffer, flagVars, rpcVars,
                   threadVars, ringVars, keptVars>>

(* Variant: the channel is not armed again.                                *)
FetchFileUnarmed(c) ==
    /\ ee = "Met" /\ UNCHANGED <<armed5, inbox, received>>
    /\ Ask(c, [kind |-> "File", client |-> c, id |-> rpcId])

(* The kernel's file fetches, sifExchange, and the SIF's first meeting     *)
(* with a client, initRpc, arm the EE's channel first.  The kernel fetches *)
(* at the boot and for each program it loads, before that one's initRpc.   *)
FetchFile(c) ==
    /\ ee = "Met" /\ armed5' = TRUE /\ UNCHANGED <<inbox, received>>
    /\ Ask(c, [kind |-> "File", client |-> c, id |-> rpcId])

InitRpc(c) ==
    /\ ee = "Met" /\ armed5' = TRUE /\ UNCHANGED <<inbox, received>>
    /\ Ask(c, [kind |-> "Init", client |-> c, id |-> rpcId])

(* Assumed of programs and modules when a program is replaced: no answer   *)
(* is due and no module's command is queued.  The code does not see to it, *)
(* and whatever came first would end a fetch, or take down the channel     *)
(* that initRpc armed.                                                     *)
Quiet ==
    /\ \A c \in Client : want[c] = Nothing
    /\ \A n \in DOMAIN ring : ring[n].from # "sender"

(* Slots 0x06 and 0x07: from here on the program's own client is gone, its *)
(* packet buffer too, although the IOP still has the address.              *)
NewProgram ==
    /\ ee = "Ready" /\ Quiet
    /\ ee' = "Met" /\ listening' = FALSE /\ inbox' = Nothing
    /\ rpcId' = 1 /\ bound' = [c \in Client |-> Nobody]
    /\ UNCHANGED <<want, ran, armed5, received, payload, registered, outgoing,
                   sender, flagVars, rpcVars, threadVars, ringVars, inVars>>

(* The second INIT_CMD, once the first has gone.                           *)
InitRpcAgain(c) ==
    /\ want[c].kind = "Init" /\ chan6 = Nothing
    /\ want' = [want EXCEPT ![c].kind = "InitRpc"] /\ chan6' = want'[c]
    /\ UNCHANGED <<ee, rpcId, bound, ran, armed10, receive, buffer, backVars,
                   flagVars, rpcVars, threadVars, ringVars, keptVars>>

BindRpc(c, s) ==
    /\ ee = "Ready" /\ UNCHANGED backVars
    /\ Ask(c, [kind |-> "Bind", client |-> c, id |-> rpcId, server |-> s])

CallRpc(c) ==
    /\ ee = "Ready" /\ bound[c] # Nobody /\ UNCHANGED backVars
    /\ wakeups[Owner[bound[c]]] < MaxWakeups
    /\ Ask(c, [kind |-> "Call", client |-> c, id |-> rpcId, server |-> bound[c]])

(* The fetch waits for the channel to stop, whatever stopped it.           *)
FileFetched(c) ==
    /\ want[c].kind = "File" /\ chan6 = Nothing /\ ~armed5
    /\ want' = [want EXCEPT ![c] = Nothing]
    /\ UNCHANGED <<ee, rpcId, bound, ran, flagVars, rpcVars, threadVars,
                   ringVars, inVars, backVars, keptVars>>

(* takePacket, or the SDK's handler: the buffer is copied, the channel     *)
(* armed again, and whichever client an END names is answered.             *)
TakePacket ==
    /\ inbox # Nothing /\ inbox' = Nothing /\ armed5' = TRUE
    /\ IF inbox.kind = "End"
       THEN /\ want' = [want EXCEPT ![inbox.client] = Nothing]
            /\ bound' = [bound EXCEPT ![inbox.client] = inbox.server]
            /\ UNCHANGED ee
       ELSE /\ want' = [c \in Client |->
                            IF inbox.kind = "SetSreg" /\ want[c].kind = "InitRpc"
                            THEN Nothing ELSE want[c]]
            /\ ee' = IF inbox.kind = "SetSreg" THEN "Ready" ELSE ee
            /\ UNCHANGED bound
    /\ UNCHANGED <<rpcId, ran, received, flagVars, rpcVars, threadVars, ringVars,
                   inVars, keptVars>>

-----------------------------------------------------------------------------
(* The chain of the EE: a call's arguments land in its server's buffer,    *)
(* then the packet, which stops the IOP's channel.                         *)
PacketLands ==
    /\ chan6 # Nothing /\ armed10
    /\ receive' = chan6 /\ chan6' = Nothing /\ armed10' = FALSE
    /\ buffer' = IF chan6.kind = "Call"
                 THEN [buffer EXCEPT ![chan6.server] = chan6.id] ELSE buffer
    /\ UNCHANGED <<eeVars, flagVars, rpcVars, threadVars, ringVars, backVars,
                   keptVars>>

RegisterRpc(s) ==
    /\ iop \in {"Up", "Synced"} /\ s \notin registered
    /\ registered' = registered \cup {s}
    /\ nextPending' = [nextPending EXCEPT ![s] = Nobody]
    /\ UNCHANGED <<pending, request, listening, payload, outgoing, sender, eeVars,
                   flagVars, threadVars, ringVars, inVars, backVars>>

End(cid, r, s) ==
    [kind |-> "End", cid |-> cid, client |-> r.client, id |-> r.id, server |-> s]

(* Variant: a thread that is not asleep yet is not told.                   *)
IWakeupSleepingOnly(q) ==
    /\ phase' = [phase EXCEPT ![q] = IF @ = "Asleep" THEN "Loop" ELSE @]
    /\ UNCHANGED wakeups

(* THREADMAN's wake-up, which counts for a thread that is not asleep.      *)
IWakeup(q) ==
    /\ phase' = [phase EXCEPT ![q] = IF @ = "Asleep" THEN "Loop" ELSE @]
    /\ wakeups' = [wakeups EXCEPT ![q] = IF phase[q] = "Asleep" THEN @ ELSE @ + 1]

(* The last of the servers pending from first on.                          *)
LastFrom(first) ==
    LET At[n \in 0 .. Cardinality(Server)] ==
            IF n = 0 THEN first
            ELSE IF nextPending[At[n - 1]] = Nobody THEN At[n - 1]
                 ELSE nextPending[At[n - 1]]
    IN  At[Cardinality(Server)]

(* serveCall: the server keeps the one call, and its thread is woken.      *)
ServeCall(r) ==
    LET s == r.server
        q == Owner[s]
    IN  /\ request' = [request EXCEPT ![s] = [client |-> r.client, id |-> r.id]]
        /\ IF pending[q] = Nobody
           THEN /\ pending' = [pending EXCEPT ![q] = s]
                /\ nextPending' = [nextPending EXCEPT ![s] = Nobody]
           ELSE /\ nextPending' = [nextPending EXCEPT ![s] = Nobody, ![LastFrom(pending[q])] = s]
                /\ UNCHANGED pending
        /\ IWakeup(q)
        /\ UNCHANGED <<serving, answer, listening, payload, outgoing, ringVars>>

(* The first INIT_CMD names the client's buffer, the second is answered.   *)
ServeInit(r) ==
    /\ listening' = TRUE /\ UNCHANGED <<payload, rpcVars, threadVars>>
    /\ IF r.kind = "Init" THEN UNCHANGED <<outgoing, ringVars>>
       ELSE outgoing' = [kind |-> "SetSreg"] /\ Enqueue(Own)

(* A server that is not registered yet is answered with none.              *)
ServeBind(r) ==
    LET found == IF r.server \in registered THEN r.server ELSE Nobody
    IN  /\ outgoing' = End("Bind", r, found) /\ Enqueue(Own)
        /\ UNCHANGED <<listening, payload, rpcVars, threadVars>>

ServeFile(r) ==
    /\ payload' = r.id
    /\ Enqueue([Own EXCEPT !.from = "payload", !.to = r.client])
    /\ UNCHANGED <<listening, outgoing, rpcVars, threadVars>>

(* The handler arms the channel again as the last thing it does.           *)
ServePacket ==
    /\ receive # Nothing /\ receive' = Nothing /\ armed10' = TRUE
    /\ CASE receive.kind \in {"Init", "InitRpc"} -> ServeInit(receive)
         [] receive.kind = "Bind" -> ServeBind(receive)
         [] receive.kind = "Call" -> ServeCall(receive)
         [] receive.kind = "File" -> ServeFile(receive)
    /\ UNCHANGED <<chan6, buffer, registered, sender, eeVars, flagVars, backVars>>

-----------------------------------------------------------------------------
(* rpcLoop: with interrupts closed, the first pending server is unhooked.  *)
TakePending(q) ==
    /\ phase[q] = "Loop"
    /\ LET s == pending[q]
       IN  IF s = Nobody
           THEN /\ phase' = [phase EXCEPT ![q] = "Empty"]
                /\ UNCHANGED <<pending, nextPending, serving>>
           ELSE /\ phase' = [phase EXCEPT ![q] = "Serve"]
                /\ serving' = [serving EXCEPT ![q] = s]
                /\ pending' = [pending EXCEPT ![q] = nextPending[s]]
                /\ nextPending' = [nextPending EXCEPT ![s] = Nobody]
    /\ UNCHANGED <<request, answer, wakeups, eeVars, flagVars, ringVars, inVars,
                   backVars, keptVars>>

(* Interrupts are open between that and the sleep.                         *)
Sleep(q) ==
    /\ phase[q] = "Empty"
    /\ phase' = [phase EXCEPT ![q] = IF wakeups[q] > 0 THEN "Loop" ELSE "Asleep"]
    /\ wakeups' = [wakeups EXCEPT ![q] = IF @ > 0 THEN @ - 1 ELSE @]
    /\ UNCHANGED <<serving, answer, eeVars, flagVars, rpcVars, ringVars, inVars,
                   backVars, keptVars>>

(* answerCall: the server's function, on what is in its buffer.            *)
RunFunction(q) ==
    /\ phase[q] = "Serve"
    /\ phase' = [phase EXCEPT ![q] = "Fill"]
    /\ answer' = [answer EXCEPT ![q] = buffer[serving[q]]]
    /\ ran' = [ran EXCEPT ![request[serving[q]].client] = @ + 1]
    /\ UNCHANGED <<ee, want, rpcId, bound, serving, wakeups, flagVars, rpcVars,
                   ringVars, inVars, backVars, keptVars>>

FillEnd(q) ==
    /\ phase[q] = "Fill"
    /\ phase' = [phase EXCEPT ![q] = "Send"]
    /\ outgoing' = End("Call", request[serving[q]], serving[q])
    /\ UNCHANGED <<serving, answer, wakeups, listening, payload, registered, sender,
                   eeVars, flagVars, rpcVars, ringVars, inVars, backVars>>

(* Result and END go in one run, so that the EE hears of both at once.     *)
SendEnd(q) ==
    /\ phase[q] = "Send"
    /\ phase' = [phase EXCEPT ![q] = "Loop"]
    /\ Enqueue([Own EXCEPT !.result = answer[q], !.to = request[serving[q]].client])
    /\ serving' = [serving EXCEPT ![q] = Nobody]
    /\ answer' = [answer EXCEPT ![q] = 0]
    /\ UNCHANGED <<wakeups, eeVars, flagVars, rpcVars, inVars, backVars, keptVars>>

-----------------------------------------------------------------------------
Init ==
    /\ ee = "Off" /\ iop = "Off" /\ smcom = FALSE /\ msflg = FALSE /\ smflg = {}
    /\ listening = FALSE /\ want = [c \in Client |-> Nothing] /\ rpcId = 1
    /\ bound = [c \in Client |-> Nobody] /\ received = [c \in Client |-> 0]
    /\ chan6 = Nothing /\ armed5 = FALSE /\ inbox = Nothing
    /\ armed10 = FALSE /\ receive = Nothing /\ payload = 0 /\ registered = {}
    /\ pending = [q \in RpcQueue |-> Nobody]
    /\ nextPending = [s \in Server |-> Nobody]
    /\ request = [s \in Server |-> [client |-> Nobody, id |-> 0]] /\ buffer = [s \in Server |-> 0]
    /\ phase = [q \in RpcQueue |-> "Asleep"]
    /\ serving = [q \in RpcQueue |-> Nobody] /\ answer = [q \in RpcQueue |-> 0]
    /\ wakeups = [q \in RpcQueue |-> 0] /\ ran = [c \in Client |-> 0]
    /\ outgoing = [kind |-> "SetSreg"]
    /\ ring = <<>> /\ channel = "Idle"
    /\ sender = [m \in Sender |-> "Idle"]

Thread(q) == TakePending(q) \/ Sleep(q) \/ RunFunction(q) \/ FillEnd(q) \/ SendEnd(q)

Next ==
    \/ PublishReceive \/ SifInit \/ StartSifcmd \/ StartEesync
    \/ RaiseBit \/ TakeAnswer \/ NewProgram \/ TakePacket \/ PacketLands \/ ServePacket
    \/ ChannelSends \/ SendFinished
    \/ \E c \in Client :
        \/ FetchFile(c) \/ FileFetched(c) \/ InitRpc(c) \/ InitRpcAgain(c)
        \/ CallRpc(c) \/ \E s \in Server : BindRpc(c, s)
    \/ \E s \in Server : RegisterRpc(s)
    \/ \E q \in RpcQueue : Thread(q)
    \/ \E m \in Sender : SendCommand(m)

(* Channels move what both ends are ready for, pending interrupts are      *)
(* served, and a client that waits polls.  The threads sleep or wait for   *)
(* nothing, so each gets to run.  Nobody has to ask.                       *)
Fairness ==
    /\ WF_sifVars(TakePacket) /\ WF_sifVars(PacketLands)
    /\ WF_sifVars(ServePacket) /\ WF_sifVars(ChannelSends)
    /\ WF_sifVars(SendFinished)
    /\ \A c \in Client : WF_sifVars(FileFetched(c) \/ InitRpcAgain(c))
    /\ \A q \in RpcQueue : WF_sifVars(Thread(q))

Spec == Init /\ [][Next]_sifVars /\ Fairness

-----------------------------------------------------------------------------
(* An END names the request its client waits for, a call's result is in    *)
(* the receive buffer by the time the END is, and it is that call's; and   *)
(* what a fetch ends with is the window it asked for.                      *)
AnswerIsOwn ==
    /\ inbox.kind = "End" =>
        LET asked == want[inbox.client]
        IN  /\ asked.kind = inbox.cid /\ asked.id = inbox.id
            /\ inbox.cid = "Call" => /\ received[inbox.client] = asked.id
                                     /\ inbox.server = asked.server
    /\ \A c \in Client :
        want[c].kind = "File" /\ chan6 = Nothing /\ ~armed5 => received[c] = want[c].id

(* A module whose command was queued is called back.                       *)
SenderIsCalledBack == \A m \in Sender : sender[m] = "Waiting" ~> sender[m] = "Idle"
=============================================================================
