---------------------------- MODULE DeviceProofs ----------------------------
(***************************************************************************)
(* Theorems about the device modules: who has SIO2's bus, what PADMAN      *)
(* takes for buttons, what CDVDMAN takes for sectors and directories, in   *)
(* which order THREADMAN keeps its alarms, that its clock is true and its  *)
(* timer in time for them, that INTRMAN strands no transfer, that the EE's *)
(* dispatcher calls every handler, and that an edge of the vertical blank  *)
(* reaches everybody.                                                      *)
(***************************************************************************)
EXTENDS Alarm, Padman, Cdvd, Intrman, EEIntc, Vblank,
        FiniteSetTheorems, SequenceTheorems, WellFoundedInduction, TLAPS

-----------------------------------------------------------------------------
(***************************************************************************)
(* The bus has one owner, and no configuration-mode answer is passed off   *)
(* as buttons, for any retry limit and whether or not a memory card thread *)
(* shares the bus.  The first rests on where the service thread's place    *)
(* puts the one client it serves and which bits may be set there; the      *)
(* second on what is known of the controller's mode while the port is at   *)
(* its last two stages, and on the port being either the one the exchange  *)
(* began for or one opened since.                                          *)
(***************************************************************************)
Kind == {"pad", "mc"}
SioBit == {"PadRequest", "McRequest", "PadAck", "McAck", "Run", "Finished",
           "Done", "Release"}
SioThread == SioClient \cup {"service"}

ServicePlace == {"request", "requested", "toAck", "run", "running", "toStart",
                 "busy", "finished", "toDone", "release", "released"}
ClientPlace == {"out", "ack", "acked", "claimed", "done", "completed",
                "toRelease"}

(* The service thread has taken a request and not yet seen the release. *)
Serving == sioAt["service"] \in ServicePlace \ {"request", "requested",
                                                "released"}

SioType ==
  /\ sioFlag \subseteq SioBit
  /\ DOMAIN sioAt = SioThread
  /\ sioAt["service"] \in ServicePlace
  /\ \A c \in SioClient : sioAt[c] \in ClientPlace
  /\ Serving => sioKind \in Kind
  /\ DOMAIN served = SioClient

(* A client that is not served is out, or waits with its request set. *)
Apart(c) ==
  \/ sioAt[c] = "out" /\ RequestBit(KindOf(c)) \notin sioFlag
  \/ sioAt[c] = "ack" /\ RequestBit(KindOf(c)) \in sioFlag

(* Where the client that is served is. *)
Attended(c) ==
  LET s == sioAt["service"]
  IN  /\ RequestBit(sioKind) \notin sioFlag
      /\ s = "toAck" => sioAt[c] = "ack"
      /\ s = "run" => \/ sioAt[c] = "acked" /\ AckBit(sioKind) \in sioFlag
                      \/ sioAt[c] = "claimed" /\ AckBit(sioKind) \notin sioFlag
      /\ s \in {"running", "toStart", "busy", "finished", "toDone"} =>
           sioAt[c] = "done" /\ transfer = c
      /\ s = "release" =>
           /\ \/ sioAt[c] = "completed" /\ "Done" \in sioFlag
              \/ sioAt[c] = "toRelease" /\ "Done" \notin sioFlag
           /\ transfer = c
           /\ served[c] = "answered"

(* Which bits may be set, by the service thread's place. *)
BitsPlaced ==
  LET s == sioAt["service"]
  IN  /\ "Run" \in sioFlag <=> s = "running"
      /\ "Finished" \in sioFlag <=> s = "finished"
      /\ "Release" \in sioFlag <=> s = "released"
      /\ "Done" \in sioFlag => s = "release"
      /\ \A k \in Kind : AckBit(k) \in sioFlag => s = "run" /\ sioKind = k
      /\ s = "request" => \A k \in Kind : RequestBit(k) \notin sioFlag
      /\ s = "requested" => \E k \in Kind : RequestBit(k) \in sioFlag

(* A request is some client's. *)
RequestsOwned ==
  /\ \A k \in Kind : RequestBit(k) \in sioFlag =>
       \E c \in SioClient : KindOf(c) = k
  /\ Serving => \E c \in SioClient : KindOf(c) = sioKind

ClientsPlaced ==
  \A c \in SioClient :
    IF Serving /\ KindOf(c) = sioKind THEN Attended(c) ELSE Apart(c)

SioInv == SioType /\ BitsPlaced /\ RequestsOwned /\ ClientsPlaced

-----------------------------------------------------------------------------
(* The handshake *)

(* Clients of one kind are one client.                                     *)
LEMMA OneOfAKind ==
  ASSUME NEW c \in SioClient, NEW d \in SioClient, KindOf(c) = KindOf(d)
  PROVE  c = d
  BY Sio2Assumption DEF SioClient, KindOf

(* A kind's own bits are no other kind's.                                  *)
LEMMA BitsApart ==
  /\ \A k, j \in Kind : k # j => /\ RequestBit(k) # RequestBit(j)
                                 /\ AckBit(k) # AckBit(j)
  /\ \A k \in Kind : /\ RequestBit(k) \in {"PadRequest", "McRequest"}
                     /\ AckBit(k) \in {"PadAck", "McAck"}
  /\ \A c \in SioClient : KindOf(c) \in Kind /\ c # "service"
  BY Sio2Assumption DEF Kind, RequestBit, AckBit, KindOf

(* The bus, where a property looks at it, is as the invariant says.        *)
LEMMA SioInvGives == SioInv => BusHasOneOwner
  BY OneOfAKind, BitsApart
     DEF SioInv, SioType, BitsPlaced, RequestsOwned, ClientsPlaced, Attended,
         Apart, Serving, ServicePlace, BusHasOneOwner, Borrowing, SioBit, Kind,
         RequestBit, AckBit

(* Where a thread that is at a place goes when the flag becomes this.      *)
Gone(t, at, flag) ==
  IF WaitsFor(t, at) \cap flag # {} THEN After(at) ELSE at

(* A thread that waits goes on exactly when its bit is set, and no other   *)
(* place is left because of a bit.                                         *)
LEMMA GoneTo ==
  ASSUME NEW t, NEW flag
  PROVE  /\ Gone(t, "request", flag) =
              IF "PadRequest" \in flag \/ "McRequest" \in flag
              THEN "requested" ELSE "request"
         /\ Gone(t, "run", flag) =
              IF "Run" \in flag THEN "running" ELSE "run"
         /\ Gone(t, "busy", flag) =
              IF "Finished" \in flag THEN "finished" ELSE "busy"
         /\ Gone(t, "release", flag) =
              IF "Release" \in flag THEN "released" ELSE "release"
         /\ Gone(t, "ack", flag) =
              IF AckBit(KindOf(t)) \in flag THEN "acked" ELSE "ack"
         /\ Gone(t, "done", flag) =
              IF "Done" \in flag THEN "completed" ELSE "done"
         /\ \A at \in {"requested", "toAck", "running", "toStart", "finished",
                       "toDone", "released", "out", "acked", "claimed",
                       "completed", "toRelease"} : Gone(t, at, flag) = at
  BY DEF Gone, WaitsFor, After

(* What a step of one thread does to the places.                           *)
ThreadMoves(t, to, flag) ==
  /\ sioFlag' = flag
  /\ DOMAIN sioAt' = SioThread
  /\ sioAt'[t] = Gone(t, to, flag)
  /\ \A u \in SioThread \ {t} : sioAt'[u] = Gone(u, sioAt[u], flag)

(* A step moves its own thread, and the others as their bits say.          *)
LEMMA StepMoves ==
  ASSUME NEW t \in SioThread, NEW to, NEW flag, SioInv, Step(t, to, flag)
  PROVE  ThreadMoves(t, to, flag)
  BY DEF Step, Goes, Gone, SioInv, SioType, ThreadMoves

(* The start: the service waits for a request, and nobody asks.            *)
LEMMA SioInitHolds == Sio2Init => SioInv
  BY BitsApart
     DEF Sio2Init, SioInv, SioType, BitsPlaced, RequestsOwned, ClientsPlaced,
         Apart, Serving, ServicePlace, ClientPlace, SioThread

(* A step of the service thread keeps the invariant: each goes from one    *)
(* row of it to the next.                                                  *)
LEMMA ServiceHolds ==
  ASSUME SioInv, ServiceStep
  PROVE  SioInv'
  <1> USE GoneTo, BitsApart, OneOfAKind
      DEF SioInv, SioType, BitsPlaced, RequestsOwned, ClientsPlaced, Attended,
          Apart, Serving, ServicePlace, ClientPlace, SioThread, SioBit, Kind,
          RequestBit, AckBit
  <1>1. CASE ClearRequest
    <2>1. ThreadMoves("service", "toAck", sioFlag \ {RequestBit(sioKind')})
      BY <1>1, StepMoves DEF ClearRequest
    <2> QED BY <1>1, <2>1 DEF ClearRequest, ThreadMoves
  <1>2. CASE SetAck
    <2>1. ThreadMoves("service", "run", sioFlag \cup {AckBit(sioKind)})
      BY <1>2, StepMoves DEF SetAck
    <2> QED BY <1>2, <2>1 DEF SetAck, ThreadMoves
  <1>3. CASE ClearRun
    <2>1. ThreadMoves("service", "toStart", sioFlag \ {"Run"})
      BY <1>3, StepMoves DEF ClearRun
    <2> QED BY <1>3, <2>1 DEF ClearRun, ThreadMoves
  <1>4. CASE StartTransfer
    <2>1. ThreadMoves("service", "busy", sioFlag)
      BY <1>4, StepMoves DEF StartTransfer
    <2> QED BY <1>4, <2>1 DEF StartTransfer, ThreadMoves
  <1>5. CASE ClearFinished
    <2>1. ThreadMoves("service", "toDone", sioFlag \ {"Finished"})
      BY <1>5, StepMoves DEF ClearFinished
    <2> QED BY <1>5, <2>1 DEF ClearFinished, ThreadMoves
  <1>6. CASE HarvestTransfer
    <2>1. ThreadMoves("service", "release", sioFlag \cup {"Done"})
      BY <1>6, StepMoves DEF HarvestTransfer
    <2> QED BY <1>6, <2>1 DEF HarvestTransfer, ThreadMoves
  <1>7. CASE ClearRelease
    <2>1. ThreadMoves("service", "request", sioFlag \ {"Release"})
      BY <1>7, StepMoves DEF ClearRelease
    <2> QED BY <1>7, <2>1 DEF ClearRelease, ThreadMoves
  <1> QED BY <1>1, <1>2, <1>3, <1>4, <1>5, <1>6, <1>7 DEF ServiceStep

(* The interrupt finds the service thread waiting for it.                  *)
LEMMA InterruptHolds ==
  ASSUME SioInv, Sio2Interrupt
  PROVE  SioInv'
  <1> USE GoneTo, BitsApart, OneOfAKind
      DEF SioInv, SioType, BitsPlaced, RequestsOwned, ClientsPlaced, Attended,
          Apart, Serving, ServicePlace, ClientPlace, SioThread, SioBit, Kind,
          RequestBit, AckBit
  <1>1. ThreadMoves("service", "busy", sioFlag \cup {"Finished"})
    BY StepMoves DEF Sio2Interrupt
  <1> QED BY <1>1 DEF Sio2Interrupt, ThreadMoves

(* A client's steps: a claim leaves the one who is served alone, the       *)
(* others are of the client who is served.                                 *)
LEMMA ClientHolds ==
  ASSUME NEW c \in SioClient, SioInv,
         Claim(c) \/ TransferStep(c) \/ SetRelease(c)
  PROVE  SioInv'
  <1> USE GoneTo, BitsApart, OneOfAKind
      DEF SioInv, SioType, BitsPlaced, RequestsOwned, ClientsPlaced, Attended,
          Apart, Serving, ServicePlace, ClientPlace, SioThread, SioBit, Kind,
          RequestBit, AckBit
  <1>1. CASE Claim(c)
    <2>1. ThreadMoves(c, "ack", sioFlag \cup {RequestBit(KindOf(c))})
      BY <1>1, StepMoves DEF Claim
    <2> QED BY <1>1, <2>1 DEF Claim, ThreadMoves
  <1>2. CASE ClearAck(c)
    <2>1. ThreadMoves(c, "claimed", sioFlag \ {AckBit(KindOf(c))})
      BY <1>2, StepMoves DEF ClearAck
    <2> QED BY <1>2, <2>1 DEF ClearAck, ThreadMoves
  <1>3. CASE SetRun(c)
    <2>1. ThreadMoves(c, "done", sioFlag \cup {"Run"})
      BY <1>3, StepMoves DEF SetRun
    <2> QED BY <1>3, <2>1 DEF SetRun, ThreadMoves
  <1>4. CASE ClearDone(c)
    <2>1. ThreadMoves(c, "toRelease", sioFlag \ {"Done"})
      BY <1>4, StepMoves DEF ClearDone
    <2> QED BY <1>4, <2>1 DEF ClearDone, ThreadMoves
  <1>5. CASE SetRelease(c)
    <2>1. ThreadMoves(c, "out", sioFlag \cup {"Release"})
      BY <1>5, StepMoves DEF SetRelease
    <2> QED BY <1>5, <2>1 DEF SetRelease, ThreadMoves
  <1> QED BY <1>1, <1>2, <1>3, <1>4, <1>5 DEF TransferStep

-----------------------------------------------------------------------------
(* The port *)

Stage == {"ProbeId", "EnterConfig", "ConfigFrames", "ReprobeId", "Poll"}

PadType ==
  /\ DOMAIN port = {"open", "address", "stage", "frame_index", "attempts",
                    "id", "model", "configurable", "errors", "valid"}
  /\ DOMAIN driver = {"at", "stage", "frame"}
  /\ DOMAIN reply = {"ok", "id"}
  /\ DOMAIN controller = {"present", "mode", "model"}
  /\ port.stage \in Stage /\ port.valid \in BOOLEAN
  /\ driver.stage \in Stage
  /\ controller.mode \in {"normal", "config"}

(* The port was opened since the exchange began. *)
Reopened ==
  /\ port.stage = "ProbeId" /\ port.frame_index = 0 /\ port.id = 0
  /\ port.configurable = 0 /\ ~port.valid

(* The driver is on the bus exactly during its exchange, and there the     *)
(* case it picked is still the port's, or the port is a new one.           *)
Exchanging ==
  /\ driver.at = "exchange" <=> sioAt[Driver] # "out"
  /\ reply.ok => driver.at = "exchange" /\ reply.id \in {NormalId, ConfigId}
  /\ driver.at = "exchange" =>
       /\ driver.stage = port.stage \/ Reopened
       /\ driver.stage = "ConfigFrames" /\ port.frame_index = FrameExit =>
            driver.frame = "exit"
       /\ driver.stage = "ReprobeId" => driver.frame = "poll"

(* The controller was heard to leave its configuration mode before the     *)
(* second probe, and nothing but a pull has changed its mode since.        *)
LeftConfig ==
  /\ port.stage = "ReprobeId" => controller.mode = "normal"
  /\ driver.at = "exchange" /\ driver.stage = "ReprobeId" =>
       controller.mode = "normal" /\ (reply.ok => reply.id = NormalId)
  /\ driver.at = "exchange" /\ driver.frame = "exit" /\ reply.ok =>
       controller.mode = "normal"

(* What a port may poll as. *)
ButtonsStand ==
  /\ port.valid => port.stage = "Poll"
  /\ ConfigModeOnlyGivenUp

PadInv == PadType /\ Exchanging /\ LeftConfig /\ ButtonsStand

(* The driver is a client, and no thread of the memory card's.             *)
LEMMA DriverIsClient ==
  Driver \in SioClient /\ Driver # "service" /\ Driver \notin McClient
  BY Sio2Assumption, PadmanAssumption DEF SioClient

(* A wait never takes a client out, nor brings one in.                     *)
LEMMA OutStays ==
  ASSUME SioInv, NEW t \in SioThread, NEW to, NEW flag, Step(t, to, flag),
         t = Driver => to \in ClientPlace \ {"out"} /\ sioAt[t] # "out"
  PROVE  sioAt'[Driver] = "out" <=> sioAt[Driver] = "out"
  <1>1. ThreadMoves(t, to, flag)
    BY StepMoves
  <1> QED
    BY <1>1, GoneTo, DriverIsClient
       DEF ThreadMoves, SioInv, SioType, SioThread, ClientPlace

(* The start: a port that is closed, and nothing pushed.                   *)
LEMMA PadInitHolds == PadmanInit => SioInv /\ PadInv
  <1> SUFFICES ASSUME PadmanInit PROVE SioInv /\ PadInv
    OBVIOUS
  <1>1. SioInv
    BY SioInitHolds DEF PadmanInit
  <1>2. sioAt[Driver] = "out"
    BY DriverIsClient DEF PadmanInit, Sio2Init
  <1>3. PadInv
    BY <1>2 DEF PadmanInit, PadInv, PadType, Exchanging, LeftConfig,
         ButtonsStand, ConfigModeOnlyGivenUp, Opened, Waiting, NoReply, Stage
  <1> QED BY <1>1, <1>3

(* The RPC thread's calls, the blank and the controller's plug.            *)
LEMMA CallsHold ==
  ASSUME PadInv,
         \/ \E address \in {0, 1} : OpenPort(address)
         \/ ClosePort \/ VblankCallback \/ WakeDriver \/ Unplug \/ PushRecord
  PROVE  PadInv'
  <1> USE DEF PadInv, PadType, Exchanging, LeftConfig, ButtonsStand,
              ConfigModeOnlyGivenUp, Reopened, Stage
  <1>1. CASE \E address \in {0, 1} : OpenPort(address)
    BY <1>1 DEF OpenPort, Opened, sio2Vars, FrameExit, FrameCount
  <1>2. CASE ClosePort
    BY <1>2 DEF ClosePort, sio2Vars
  <1>3. CASE VblankCallback
    BY <1>3 DEF VblankCallback, sio2Vars
  <1>4. CASE WakeDriver
    BY <1>4 DEF WakeDriver, sio2Vars
  <1>5. CASE Unplug
    BY <1>5 DEF Unplug, sio2Vars
  <1>6. CASE PushRecord
    BY <1>6 DEF PushRecord, Waiting, sio2Vars
  <1> QED BY <1>1, <1>2, <1>3, <1>4, <1>5, <1>6

(* The driver claims the bus for the case it picks.                        *)
LEMMA BeginHolds ==
  ASSUME SioInv, PadInv, BeginExchange
  PROVE  PadInv'
  <1>1. ThreadMoves(Driver, "ack", sioFlag \cup {RequestBit(KindOf(Driver))})
    BY StepMoves, DriverIsClient DEF BeginExchange, Claim, SioThread
  <1>2. sioAt'[Driver] # "out"
    BY <1>1, GoneTo DEF ThreadMoves
  <1>3. driver' = [at |-> "exchange", stage |-> port.stage, frame |-> Frame]
        /\ UNCHANGED <<port, reply, controller, pushed>>
    BY DEF BeginExchange
  <1>4. /\ port.stage = "ConfigFrames" /\ port.frame_index = FrameExit =>
             Frame = "exit"
        /\ port.stage = "ReprobeId" => Frame = "poll"
    BY DEF Frame
  <1>5. ~reply.ok
    BY DEF BeginExchange, PadInv, Exchanging
  <1> QED
    BY <1>2, <1>3, <1>4, <1>5 DEF PadInv, PadType, Exchanging, LeftConfig,
       ButtonsStand, ConfigModeOnlyGivenUp, Reopened, Stage

(* The controller answers the driver's frame from the mode it was in.      *)
LEMMA AnswerHolds ==
  ASSUME SioInv, PadInv, NEW taken \in BOOLEAN, NEW heard \in BOOLEAN,
         ControllerAnswers(taken, heard)
  PROVE  PadInv'
  <1>1. sioAt'[Driver] = "out" <=> sioAt[Driver] = "out"
    BY OutStays, DriverIsClient
       DEF ControllerAnswers, Sio2Interrupt, SioThread
  <1>2. sioAt[Driver] = "done"
    BY SioInvGives DEF ControllerAnswers, BusHasOneOwner
  <1> QED
    BY <1>1, <1>2 DEF ControllerAnswers, PadInv, PadType, Exchanging,
       LeftConfig, ButtonsStand, ConfigModeOnlyGivenUp, Reopened, Stage,
       NormalId, ConfigId

(* The steps of the bus leave the port alone and the driver where it is.   *)
LEMMA BusHolds ==
  ASSUME SioInv, PadInv, BusStep
  PROVE  PadInv'
  <1>1. sioAt'[Driver] = "out" <=> sioAt[Driver] = "out"
    <2>1. CASE ServiceStep \/ Sio2Interrupt
      BY <2>1, OutStays, DriverIsClient
         DEF ServiceStep, ClearRequest, SetAck, ClearRun, StartTransfer,
             ClearFinished, HarvestTransfer, ClearRelease, Sio2Interrupt,
             SioThread
    <2>2. CASE TransferStep(Driver)
      BY <2>2, OutStays, DriverIsClient
         DEF TransferStep, ClearAck, SetRun, ClearDone, ClientPlace, SioThread
    <2>3. CASE \E c \in McClient : Claim(c) \/ TransferStep(c) \/ SetRelease(c)
      BY <2>3, OutStays, DriverIsClient
         DEF TransferStep, Claim, ClearAck, SetRun, ClearDone, SetRelease,
             SioThread, SioClient
    <2> QED BY <2>1, <2>2, <2>3 DEF BusStep
  <1> QED
    BY <1>1 DEF BusStep, padVars, PadInv, PadType, Exchanging, LeftConfig,
       ButtonsStand, ConfigModeOnlyGivenUp, Reopened

(* What an exchange's result makes of the port it was begun for, or of one *)
(* opened since, by the case the driver picked.                            *)
LEMMA AdvancedPort ==
  ASSUME SioInv, PadInv, driver.at = "exchange",
         NEW q,
         \/ driver.stage = "ProbeId" /\ q = ProbeId(port)
         \/ driver.stage = "EnterConfig" /\ q = EnterConfig(port)
         \/ driver.stage = "ConfigFrames" /\ q = ConfigFrames(port)
         \/ driver.stage = "ReprobeId" /\ q = ReprobeId(port)
         \/ driver.stage = "Poll" /\ q = Poll(port)
  PROVE  /\ DOMAIN q = DOMAIN port
         /\ q.stage \in Stage /\ q.valid \in BOOLEAN
         /\ q.stage = "ReprobeId" => controller.mode = "normal"
         /\ q.valid => q.stage = "Poll"
         /\ q.stage = "Poll" /\ q.id = ConfigId =>
              q.configurable = 1 /\ q.attempts = Retries
  <1> USE DEF PadInv, PadType, Exchanging, LeftConfig, ButtonsStand, Stage,
              Reopened, ConfigModeOnlyGivenUp, NormalId, ConfigId
  <1>1. CASE driver.stage = "ProbeId" /\ q = ProbeId(port)
    BY <1>1 DEF ProbeId
  <1>2. CASE driver.stage = "EnterConfig" /\ q = EnterConfig(port)
    BY <1>2 DEF EnterConfig, Missed
  <1>3. CASE driver.stage = "ConfigFrames" /\ q = ConfigFrames(port)
    BY <1>3 DEF ConfigFrames, Missed, Restart, FrameExit, FrameCount
  <1>4. CASE driver.stage = "ReprobeId" /\ q = ReprobeId(port)
    BY <1>4 DEF ReprobeId, Restart
  <1>5. CASE driver.stage = "Poll" /\ q = Poll(port)
    BY <1>5 DEF Poll, Restart
  <1> QED BY <1>1, <1>2, <1>3, <1>4, <1>5

(* The exchange ends: the bus is given back and the port moves on.         *)
LEMMA AdvanceHolds ==
  ASSUME SioInv, PadInv, Advance
  PROVE  PadInv'
  <1>1. ThreadMoves(Driver, "out", sioFlag \cup {"Release"})
    BY StepMoves, DriverIsClient DEF Advance, SetRelease, SioThread
  <1>2. sioAt'[Driver] = "out"
    BY <1>1, GoneTo DEF ThreadMoves
  <1>3. /\ DOMAIN port' = DOMAIN port
        /\ port'.stage \in Stage /\ port'.valid \in BOOLEAN
        /\ port'.stage = "ReprobeId" => controller.mode = "normal"
        /\ port'.valid => port'.stage = "Poll"
        /\ port'.stage = "Poll" /\ port'.id = ConfigId =>
             port'.configurable = 1 /\ port'.attempts = Retries
    <2>1. \/ driver.stage = "ProbeId" /\ port' = ProbeId(port)
          \/ driver.stage = "EnterConfig" /\ port' = EnterConfig(port)
          \/ driver.stage = "ConfigFrames" /\ port' = ConfigFrames(port)
          \/ driver.stage = "ReprobeId" /\ port' = ReprobeId(port)
          \/ driver.stage = "Poll" /\ port' = Poll(port)
      BY DEF Advance, PadInv, PadType, Stage
    <2> QED BY <2>1, AdvancedPort DEF Advance
  <1>4. /\ driver' = [driver EXCEPT !.at = "push"]
        /\ reply' = NoReply /\ UNCHANGED <<controller, pushed>>
    BY DEF Advance
  <1> QED
    BY <1>2, <1>3, <1>4 DEF PadInv, PadType, Exchanging, LeftConfig,
       ButtonsStand, ConfigModeOnlyGivenUp, Reopened, NoReply

-----------------------------------------------------------------------------
(* The theorems *)

(* A step of the pads and their bus keeps both invariants.                 *)
LEMMA PadmanStepHolds ==
  ASSUME SioInv, PadInv, [PadmanNext]_padmanVars
  PROVE  SioInv' /\ PadInv'
  <1>1. CASE \/ \E address \in {0, 1} : OpenPort(address)
             \/ ClosePort \/ VblankCallback \/ WakeDriver \/ Unplug
             \/ PushRecord
    <2>1. UNCHANGED sio2Vars
      BY <1>1 DEF OpenPort, ClosePort, VblankCallback, WakeDriver, Unplug,
                  PushRecord
    <2>2. SioInv'
      BY <2>1 DEF sio2Vars, SioInv, SioType, BitsPlaced, RequestsOwned,
         ClientsPlaced, Attended, Apart, Serving
    <2> QED BY <1>1, <2>2, CallsHold
  <1>2. CASE BeginExchange
    BY <1>2, BeginHolds, ClientHolds, DriverIsClient DEF BeginExchange
  <1>3. CASE \E taken, heard \in BOOLEAN : ControllerAnswers(taken, heard)
    BY <1>3, AnswerHolds, InterruptHolds DEF ControllerAnswers
  <1>4. CASE Advance
    BY <1>4, AdvanceHolds, ClientHolds, DriverIsClient DEF Advance
  <1>5. CASE BusStep
    BY <1>5, BusHolds, ServiceHolds, InterruptHolds, ClientHolds,
       DriverIsClient DEF BusStep, SioClient
  <1>6. CASE UNCHANGED padmanVars
    BY <1>6 DEF padmanVars, padVars, sio2Vars, SioInv, SioType, BitsPlaced,
       RequestsOwned, ClientsPlaced, Attended, Apart, Serving, PadInv, PadType,
       Exchanging, LeftConfig, ButtonsStand, ConfigModeOnlyGivenUp, Reopened
  <1> QED BY <1>1, <1>2, <1>3, <1>4, <1>5, <1>6 DEF PadmanNext

(* From a client's acknowledgement to its release it alone has the bus,    *)
(* the service thread works on its descriptor and no other, and it goes on *)
(* only with its answer: the event flag's handshake of serviceThread,      *)
(* claim and doTransfer, whatever order the threads run in.                *)
THEOREM BusIsOwned == PadmanSpec => []BusHasOneOwner
  <1>1. PadmanInit => SioInv /\ PadInv
    BY PadInitHolds
  <1>2. SioInv /\ PadInv /\ [PadmanNext]_padmanVars => SioInv' /\ PadInv'
    BY PadmanStepHolds
  <1> QED BY <1>1, <1>2, SioInvGives, PTL DEF PadmanSpec

(* A port is polled in the configuration mode, and a record published with *)
(* that mode's id, only if the port gave up entering the mode after        *)
(* kRetries missed frames: advance, its exchanges and the port's reopening *)
(* under them, for every retry limit.                                      *)
THEOREM ConfigModeGivenUp == PadmanSpec => []ConfigModeOnlyGivenUp
  <1>1. PadmanInit => SioInv /\ PadInv
    BY PadInitHolds
  <1>2. SioInv /\ PadInv /\ [PadmanNext]_padmanVars => SioInv' /\ PadInv'
    BY PadmanStepHolds
  <1>3. PadInv => ConfigModeOnlyGivenUp
    BY DEF PadInv, ButtonsStand
  <1> QED BY <1>1, <1>2, <1>3, PTL DEF PadmanSpec

-----------------------------------------------------------------------------
(***************************************************************************)
(* The disc's sectors are what they are taken for, and the configuration   *)
(* fits its buffers, for any threads, handles, sizes and retry limit.  The *)
(* first holds of callers of sceCdRead that keep clear of the file calls   *)
(* (Turns): then one thread at a time is between its look at the cache and *)
(* its last use of the sector, the channel is aimed where that thread      *)
(* wants it, and the flag that says a read has ended is of its own read.   *)
(***************************************************************************)
DriverPlace == {"idle", "wait", "look", "issue", "armed", "sync", "have",
                "leave", "after"}
IssuerPlace == {"idle", "issue", "armed", "sync", "answered"}

(* A thread that is at work on a sector. *)
ActivePlace == {"look", "issue", "armed", "sync", "have", "leave"}
Active(t) == cdCall[t].at \in ActivePlace

CallShape ==
  /\ DOMAIN cdCall = CdThread
  /\ \A t \in DriverThread :
       /\ "at" \in DOMAIN cdCall[t] /\ cdCall[t].at \in DriverPlace
       /\ cdCall[t].at # "idle" =>
            DOMAIN cdCall[t] = {"at", "kind", "want", "attempts", "length",
                                "done", "ok"}
  /\ \A i \in Issuer :
       /\ "at" \in DOMAIN cdCall[i] /\ cdCall[i].at \in IssuerPlace
       /\ cdCall[i].at # "idle" =>
            DOMAIN cdCall[i] = {"at", "want", "attempts"}
  /\ DOMAIN cdCache = {"valid", "lba", "data"}
  /\ DOMAIN buffer = Issuer

(* The driver's semaphore is held by the thread that is at work, and no    *)
(* issuer is at work beside it or beside another.                          *)
OneAtWork ==
  /\ \A t \in DriverThread : Active(t) => sema_driver = t
  /\ \A i \in Issuer : Active(i) => sema_driver = None
  /\ \A i, j \in Issuer : Active(i) /\ Active(j) => i = j

(* Where the sector asked for by a thread is put. *)
Target(t) == IF t \in Issuer THEN t ELSE "cache"
Landed(t) == IF t \in Issuer THEN buffer[t] ELSE cdCache.data

ReadsAreOwn ==
  /\ \A t \in CdThread :
       /\ cdCall[t].at \in {"armed", "sync"} => dmaTo = Target(t)
       /\ cdCall[t].at = "sync" /\ g_done = 1 => Landed(t) = cdCall[t].want
  /\ drive # NoSector =>
       /\ g_done = 0
       /\ \E t \in CdThread : cdCall[t].at = "sync" /\ drive = cdCall[t].want

CacheTrue ==
  /\ cdCache.valid => cdCache.data = cdCache.lba
  /\ \A t \in DriverThread :
       /\ cdCall[t].at \in {"issue", "armed", "sync"} => ~cdCache.valid
       /\ cdCall[t].at = "have" =>
            cdCache.valid /\ cdCache.lba = cdCall[t].want
  /\ \A i \in Issuer : cdCall[i].at = "answered" => buffer[i] = cdCall[i].want

(* The handles: one thread's each, and the reads under way end in the file. *)
Handle == [in_use : BOOLEAN, position : Nat]

ReadFits(t) ==
  /\ fileOf[t] # NoHandle
  /\ cdCall[t].length \in Nat /\ cdCall[t].done \in Nat
  /\ cdCall[t].done <= cdCall[t].length
  /\ handles[fileOf[t]].position + cdCall[t].length <= FileSize

FilesFit ==
  /\ handles \in [1..Handles -> Handle]
  /\ fileOf \in [FileThread -> 0..Handles]
  /\ \A t \in FileThread : fileOf[t] # NoHandle =>
       handles[fileOf[t]].in_use /\ handles[fileOf[t]].position <= FileSize
  /\ \A t, u \in FileThread :
       t # u /\ fileOf[t] = fileOf[u] => fileOf[t] = NoHandle
  /\ \A t \in DriverThread : cdCall[t].at # "idle" =>
       /\ cdCall[t].kind \in {"open", "search", "read"}
       /\ cdCall[t].kind # "search" => t \in FileThread
       /\ cdCall[t].kind = "read" => ReadFits(t)
       /\ cdCall[t].at = "after" => cdCall[t].kind = "read"

WorkInv == CallShape /\ OneAtWork /\ ReadsAreOwn /\ CacheTrue

DiscInv == WorkInv /\ FilesFit

(* The S-commands: a call that collects has the channel, and only thread A *)
(* reads or writes the configuration, whose count does not change under it *)
(* and fits the buffers.                                                   *)
SCallShape ==
  /\ DOMAIN fsvCall = SUser
  /\ DOMAIN mech = {"busy", "of"}
  /\ DOMAIN config_blocks = {"cdvdman", "fsv"}
  /\ \A t \in SUser :
       /\ fsvCall[t].at \in {"idle", "send", "collect"}
       /\ "at" \in DOMAIN fsvCall[t]
       /\ fsvCall[t].at # "idle" =>
            DOMAIN fsvCall[t] = {"at", "command", "done", "size"}

ConfigInv ==
  /\ SCallShape
  /\ \A t \in SUser : fsvCall[t].at = "collect" =>
       sema_scmd = t /\ mech.of = t
  /\ config_blocks.cdvdman \in Nat /\ config_blocks.fsv = config_blocks.cdvdman
  /\ config_blocks.cdvdman <= ConfigMax
  /\ fsvCall["module"].at # "idle" => fsvCall["module"].command = "nvm"
  /\ LET call == fsvCall["fsv"]
     IN  call.at # "idle" /\ call.command \in {"read", "write"} =>
           /\ call.done \in Nat /\ call.size \in Nat
           /\ call.done < config_blocks.cdvdman
           /\ config_blocks.cdvdman <= call.size

-----------------------------------------------------------------------------
(* Minima *)

(* A set of naturals that is not empty has a least member.                 *)
LEMMA MinOfNaturals ==
  ASSUME NEW S \in SUBSET Nat, S # {}
  PROVE  Min(S) \in S /\ \A y \in S : Min(S) <= y
  <1> DEFINE Less == {ss \in Nat \X Nat : ss[1] < ss[2]}
  <1>1. IsWellFoundedOn(Less, Nat)
    BY NatLessThanWellFounded, Zenon DEF OpToRel
  <1>2. PICK x \in S : \A y \in S : ~ (<<y, x>> \in Less)
    <2> HIDE DEF Less
    <2> QED BY <1>1, WFMin
  <1>3. ASSUME NEW y \in S, y < x
        PROVE  FALSE
    <2>1. <<y, x>> \in Nat \X Nat
      OBVIOUS
    <2>2. <<y, x>>[1] < <<y, x>>[2]
      BY <1>3
    <2> QED BY <1>2, <2>1, <2>2, Zenon
  <1>4. \E m \in S : \A y \in S : m <= y
    BY <1>3
  <1> QED BY <1>4 DEF Min

(* The lesser of two.                                                      *)
LEMMA MinOfTwo ==
  ASSUME NEW a \in Nat, NEW b \in Nat
  PROVE  Min({a, b}) \in Nat /\ Min({a, b}) <= a /\ Min({a, b}) <= b
  BY MinOfNaturals

-----------------------------------------------------------------------------
(* The configuration *)

(* The start: no call, and no session.                                     *)
LEMMA ConfigInitHolds == CdvdInit => ConfigInv
  BY CdvdAssumption DEF CdvdInit, ConfigInv, SCallShape, SUser

(* A request settles the count, or takes it as it is, before its first     *)
(* command.                                                                *)
LEMMA ServeHolds ==
  ASSUME ConfigInv,
         \/ \E n \in Counts :
              \/ ServeOpenConfig(n)
              \/ \E c \in {"read", "write"} : ServeConfig(c, n)
         \/ ServeCloseConfig
         \/ \E t \in SUser : ServeNvm(t)
  PROVE  ConfigInv'
  <1> USE CdvdAssumption DEF ConfigInv, SCallShape, SUser, SCall
  <1>1. ASSUME NEW n \in Counts, ServeOpenConfig(n)
        PROVE  ConfigInv'
    <2> DEFINE blocks == Min({n, ConfigMax})
    <2>1. blocks \in Nat /\ blocks <= ConfigMax
      BY MinOfTwo
    <2>2. /\ config_blocks' = [cdvdman |-> blocks, fsv |-> blocks]
          /\ fsvCall' = [fsvCall EXCEPT !["fsv"] = SCall("open", 0)]
          /\ UNCHANGED <<sema_scmd, mech>>
      BY <1>1 DEF ServeOpenConfig
    <2> HIDE DEF blocks
    <2> QED BY <2>1, <2>2
  <1>2. ASSUME NEW n \in Counts, NEW c \in {"read", "write"}, ServeConfig(c, n)
        PROVE  ConfigInv'
    BY <1>2 DEF ServeConfig
  <1>3. CASE ServeCloseConfig
    BY <1>3 DEF ServeCloseConfig
  <1>4. ASSUME NEW t \in SUser, ServeNvm(t)
        PROVE  ConfigInv'
    BY <1>4 DEF ServeNvm
  <1> QED BY <1>1, <1>2, <1>3, <1>4

(* The commands of a call: the channel is one caller's until it collects,  *)
(* and a next block is begun only within the count.                        *)
LEMMA SCommandHolds ==
  ASSUME ConfigInv,
         \/ \E t \in SUser :
              Collect(t) \/ \E busy \in BOOLEAN : SendSCommand(t, busy)
         \/ MechDone
  PROVE  ConfigInv'
  <1> USE CdvdAssumption DEF ConfigInv, SCallShape, SUser
  <1>1. ASSUME NEW t \in SUser, Collect(t)
        PROVE  ConfigInv'
    <2> DEFINE call == fsvCall[t]
               more == /\ call.command \in {"read", "write"}
                       /\ call.done + 1 < config_blocks.cdvdman
    <2>1. /\ call.at = "collect" /\ sema_scmd' = None
          /\ mech' = [mech EXCEPT !.of = None] /\ UNCHANGED config_blocks
      BY <1>1 DEF Collect
    <2>2. CASE more
      <3>1. fsvCall' = [fsvCall EXCEPT ![t] =
                          [call EXCEPT !.at = "send", !.done = call.done + 1]]
        BY <1>1, <2>2 DEF Collect
      <3>2. t = "fsv"
        BY <2>1, <2>2
      <3>3. /\ fsvCall'["fsv"].at = "send"
            /\ fsvCall'["fsv"].done = call.done + 1
            /\ fsvCall'["fsv"].size = call.size
            /\ DOMAIN fsvCall'["fsv"] = {"at", "command", "done", "size"}
            /\ fsvCall'["module"] = fsvCall["module"]
            /\ DOMAIN fsvCall' = SUser
        BY <2>1, <3>1, <3>2
      <3> QED BY <2>1, <2>2, <3>2, <3>3
    <2>3. CASE ~more
      <3>1. fsvCall' = [fsvCall EXCEPT ![t] = [at |-> "idle"]]
        BY <1>1, <2>3 DEF Collect
      <3> QED BY <2>1, <3>1
    <2> QED BY <2>2, <2>3
  <1>2. ASSUME NEW t \in SUser, NEW busy \in BOOLEAN, SendSCommand(t, busy)
        PROVE  ConfigInv'
    <2>1. CASE sema_scmd # None \/ busy \/ mech.busy
      BY <1>2, <2>1 DEF SendSCommand
    <2>2. CASE ~(sema_scmd # None \/ busy \/ mech.busy)
      BY <1>2, <2>2 DEF SendSCommand, None
    <2> QED BY <2>1, <2>2
  <1>3. CASE MechDone
    BY <1>3 DEF MechDone
  <1> QED BY <1>1, <1>2, <1>3

-----------------------------------------------------------------------------
(* The drive, the channel and the cache *)

(* The threads' names.                                                     *)
LEMMA ThreadsApart ==
  /\ DriverThread \subseteq CdThread /\ Issuer \subseteq CdThread
  /\ FileThread \subseteq DriverThread /\ Searcher \in DriverThread
  /\ \A t \in CdThread : t # None /\ t # "cache"
  /\ \A t \in CdThread : t \in DriverThread <=> t \notin Issuer
  BY CdvdAssumption DEF CdThread, DriverThread

(* What a thread's call becomes, the others' left as they are.             *)
Becomes(t, call) ==
  /\ DOMAIN cdCall' = CdThread
  /\ cdCall'[t] = call
  /\ \A u \in CdThread \ {t} : cdCall'[u] = cdCall[u]

(* An update of one call.                                                  *)
LEMMA Became ==
  ASSUME DOMAIN cdCall = CdThread, NEW t \in CdThread, NEW call,
         cdCall' = [cdCall EXCEPT ![t] = call]
  PROVE  Becomes(t, call)
  BY DEF Becomes

(* The start: everyone is idle and the cache is empty.                     *)
LEMMA DiscInitHolds == CdvdInit => DiscInv
  <1> SUFFICES ASSUME CdvdInit PROVE DiscInv
    OBVIOUS
  <1>1. WorkInv
    BY ThreadsApart DEF CdvdInit, WorkInv, CallShape, OneAtWork, Active,
       ActivePlace, ReadsAreOwn, CacheTrue, DriverPlace, IssuerPlace
  <1>2. FilesFit
    BY ThreadsApart, CdvdAssumption DEF CdvdInit, FilesFit, Handle, NoHandle
  <1> QED BY <1>1, <1>2 DEF DiscInv

(* A call begins, and waits for the driver.                                *)
LEMMA BeginWorks ==
  ASSUME WorkInv, NEW t \in DriverThread, NEW call, Begin(t, call),
         call.at = "wait",
         DOMAIN call = {"at", "kind", "want", "attempts", "length", "done",
                        "ok"}
  PROVE  WorkInv'
  <1>1. Becomes(t, call)
    BY Became, ThreadsApart DEF Begin, WorkInv, CallShape
  <1>2. cdCall[t].at = "idle"
        /\ UNCHANGED <<sema_driver, cdCache, buffer, dmaTo, drive, g_done>>
    BY DEF Begin
  <1> QED
    BY <1>1, <1>2, ThreadsApart
       DEF Becomes, WorkInv, CallShape, OneAtWork, Active, ActivePlace,
           ReadsAreOwn, CacheTrue, DriverPlace, IssuerPlace, Target, Landed

(* What a thread does without a command to the drive leaves the reads as   *)
(* they are.                                                               *)
LEMMA DriveLeftAlone ==
  ASSUME WorkInv, NEW t \in DriverThread, NEW call, Becomes(t, call),
         UNCHANGED <<buffer, dmaTo, drive, g_done>>,
         DOMAIN cdCache' = DOMAIN cdCache, cdCache'.data = cdCache.data,
         "at" \in DOMAIN call, call.at \in DriverPlace \ {"armed", "sync"},
         cdCall[t].at # "sync",
         call.at # "idle" =>
           DOMAIN call = {"at", "kind", "want", "attempts", "length", "done",
                          "ok"}
  PROVE  CallShape' /\ ReadsAreOwn'
  <1>1. CallShape'
    BY ThreadsApart DEF Becomes, WorkInv, CallShape
  <1>2. ReadsAreOwn'
    BY ThreadsApart
       DEF Becomes, WorkInv, CallShape, ReadsAreOwn, Target, Landed
  <1> QED BY <1>1, <1>2

(* A call that takes the driver does so when nobody is at work.            *)
LEMMA AcquireWorks ==
  ASSUME WorkInv, Turns, NEW t \in DriverThread, Acquire(t)
  PROVE  WorkInv'
  <1> DEFINE at == IF cdCall[t].kind = "read" /\ cdCall[t].length = 0
                   THEN "leave" ELSE "look"
             want == IF cdCall[t].kind = "read" THEN SectorOf(t, 0) ELSE Pvd
             call == [cdCall[t] EXCEPT !.at = at, !.want = want]
  <1>1. Becomes(t, call)
    <2>1. cdCall' = [cdCall EXCEPT ![t] = call]
      BY DEF Acquire
    <2> HIDE DEF call
    <2> QED BY <2>1, Became, ThreadsApart DEF WorkInv, CallShape
  <1>2. /\ cdCall[t].at = "wait" /\ sema_driver = None /\ sema_driver' = t
        /\ UNCHANGED <<cdCache, buffer, dmaTo, drive, g_done>>
    BY DEF Acquire
  <1>3. \A u \in CdThread : ~Active(u)
    <2>1. \A i \in Issuer : ~Active(i)
      BY DEF Acquire, IssuerBusy, Active, ActivePlace
    <2>2. \A u \in DriverThread : ~Active(u)
      BY <1>2, ThreadsApart DEF WorkInv, OneAtWork
    <2> QED BY <2>1, <2>2, ThreadsApart
  <1>4. /\ call.at \in {"leave", "look"}
        /\ DOMAIN call = {"at", "kind", "want", "attempts", "length", "done",
                          "ok"}
    <2> HIDE DEF want
    <2> QED BY <1>2 DEF WorkInv, CallShape
  <1> HIDE DEF call
  <1>5. CallShape' /\ ReadsAreOwn'
    BY <1>1, <1>2, <1>4, DriveLeftAlone DEF DriverPlace
  <1>6. OneAtWork'
    BY <1>1, <1>2, <1>3, ThreadsApart
       DEF Becomes, OneAtWork, Active, ActivePlace
  <1>7. CacheTrue'
    BY <1>1, <1>2, <1>4, ThreadsApart DEF Becomes, WorkInv, CacheTrue
  <1> QED BY <1>5, <1>6, <1>7 DEF WorkInv

(* A look at the cache finds the sector, or empties the cache.             *)
LEMMA LookWorks ==
  ASSUME WorkInv, NEW t \in DriverThread, Look(t)
  PROVE  WorkInv'
  <1> DEFINE hit == cdCache.valid /\ cdCache.lba = cdCall[t].want
             call == [cdCall[t] EXCEPT !.at = IF hit THEN "have" ELSE "issue",
                                       !.attempts = 0]
  <1>1. Becomes(t, call)
    BY Became, ThreadsApart DEF Look, WorkInv, CallShape
  <1>2. /\ cdCall[t].at = "look"
        /\ UNCHANGED <<sema_driver, buffer, dmaTo, drive, g_done>>
        /\ cdCache' = IF hit THEN cdCache ELSE [cdCache EXCEPT !.valid = FALSE]
    BY DEF Look
  <1>3. /\ call.at = IF hit THEN "have" ELSE "issue"
        /\ DOMAIN call = {"at", "kind", "want", "attempts", "length", "done",
                          "ok"}
        /\ call.want = cdCall[t].want
    BY <1>2 DEF WorkInv, CallShape
  <1> HIDE DEF call
  <1>4. /\ DOMAIN cdCache' = DOMAIN cdCache /\ cdCache'.data = cdCache.data
        /\ cdCache'.lba = cdCache.lba /\ cdCache'.valid => cdCache.valid
        /\ cdCache'.valid <=> hit
    BY <1>2 DEF WorkInv, CallShape
  <1>5. CallShape' /\ ReadsAreOwn'
    BY <1>1, <1>2, <1>3, <1>4, DriveLeftAlone DEF DriverPlace
  <1>6. OneAtWork'
    BY <1>1, <1>2, ThreadsApart
       DEF Becomes, WorkInv, OneAtWork, Active, ActivePlace
  <1>7. \A u \in DriverThread \ {t} : ~Active(u)
    BY <1>2, ThreadsApart DEF WorkInv, OneAtWork, Active, ActivePlace
  <1>8. CacheTrue'
    BY <1>1, <1>2, <1>3, <1>4, <1>7, ThreadsApart
       DEF Becomes, WorkInv, CacheTrue, Active, ActivePlace
  <1> QED BY <1>5, <1>6, <1>8 DEF WorkInv

(* A call that uses its sector goes on to its next look or to its end.     *)
LEMMA UseWorks ==
  ASSUME WorkInv, NEW t \in DriverThread, NEW there \in BOOLEAN,
         UseSector(t, there)
  PROVE  WorkInv'
  <1> DEFINE call == AfterSector(t, there)
  <1>1. /\ Becomes(t, call)
        /\ DOMAIN call = DOMAIN cdCall[t]
        /\ call.at \in {"look", "leave"}
    <2>1. "at" \in DOMAIN cdCall[t]
      BY DEF WorkInv, CallShape
    <2> QED BY <2>1, Became, ThreadsApart
               DEF UseSector, AfterSector, WorkInv, CallShape
  <1> HIDE DEF call
  <1>2. /\ cdCall[t].at = "have"
        /\ UNCHANGED <<sema_driver, cdCache, buffer, dmaTo, drive, g_done>>
    BY DEF UseSector
  <1>3. DOMAIN call = {"at", "kind", "want", "attempts", "length", "done",
                       "ok"}
    BY <1>1, <1>2 DEF WorkInv, CallShape
  <1>4. CallShape' /\ ReadsAreOwn'
    BY <1>1, <1>2, <1>3, DriveLeftAlone DEF DriverPlace
  <1>5. OneAtWork' /\ CacheTrue'
    BY <1>1, <1>2, ThreadsApart
       DEF Becomes, WorkInv, OneAtWork, CacheTrue, Active, ActivePlace
  <1> QED BY <1>4, <1>5 DEF WorkInv

(* A call that leaves gives the driver back; the end of a read moves no    *)
(* sector either.                                                          *)
LEMMA LeaveWorks ==
  ASSUME WorkInv, NEW t \in DriverThread,
         Leave(t) \/ MovePosition(t)
  PROVE  WorkInv'
  <1>1. PICK call : /\ Becomes(t, call)
                    /\ \/ call = [at |-> "idle"]
                       \/ /\ cdCall[t].at = "leave"
                          /\ call = [cdCall[t] EXCEPT !.at = "after"]
    BY Became, ThreadsApart
       DEF Leave, MovePosition, Goto, Return, WorkInv, CallShape
  <1>2. /\ cdCall[t].at \in {"leave", "after"}
        /\ UNCHANGED <<cdCache, buffer, dmaTo, drive, g_done>>
        /\ \/ cdCall[t].at = "leave" /\ sema_driver' = None
           \/ cdCall[t].at = "after" /\ sema_driver' = sema_driver
    BY DEF Leave, MovePosition
  <1>3. /\ call.at \in {"idle", "after"} /\ "at" \in DOMAIN call
        /\ call.at # "idle" =>
             DOMAIN call = {"at", "kind", "want", "attempts", "length", "done",
                            "ok"}
    BY <1>1, <1>2 DEF WorkInv, CallShape
  <1>4. CallShape' /\ ReadsAreOwn'
    BY <1>1, <1>2, <1>3, DriveLeftAlone DEF DriverPlace
  <1>5. OneAtWork'
    BY <1>1, <1>2, <1>3, ThreadsApart
       DEF Becomes, WorkInv, OneAtWork, Active, ActivePlace
  <1>6. CacheTrue'
    BY <1>1, <1>2, <1>3, ThreadsApart DEF Becomes, WorkInv, CacheTrue
  <1> QED BY <1>4, <1>5, <1>6 DEF WorkInv

(* What a declined command leaves of a call.                               *)
DeclinedCall(t) ==
  LET n == cdCall[t].attempts + 1
  IN  CASE t \in Issuer -> [at |-> "idle"]
        [] t \notin Issuer /\ n = Attempts ->
             [cdCall[t] EXCEPT !.at = "leave", !.ok = FALSE]
        [] OTHER -> [cdCall[t] EXCEPT !.at = "issue", !.attempts = n]

(* An issuer's call ends; the driver's goes on to another attempt or to    *)
(* its end.                                                                *)
LEMMA DeclinedGoes ==
  ASSUME CallShape, NEW t \in CdThread, cdCall[t].at # "idle", Declined(t)
  PROVE  /\ Becomes(t, DeclinedCall(t))
         /\ "at" \in DOMAIN DeclinedCall(t)
         /\ t \in Issuer => DeclinedCall(t).at = "idle"
         /\ t \notin Issuer => /\ DeclinedCall(t).at \in {"leave", "issue"}
                               /\ DOMAIN DeclinedCall(t) = DOMAIN cdCall[t]
  <1>1. cdCall' = [cdCall EXCEPT ![t] = DeclinedCall(t)]
    BY DEF Declined, DeclinedCall
  <1>2. "at" \in DOMAIN cdCall[t]
    BY ThreadsApart DEF CallShape
  <1>3. Becomes(t, DeclinedCall(t))
    BY <1>1, Became DEF CallShape
  <1> QED BY <1>2, <1>3 DEF DeclinedCall

(* Only one thread is at work, so the rest of the invariant speaks of it.  *)
LEMMA AloneAtWork ==
  ASSUME WorkInv, NEW t \in CdThread, Active(t), NEW u \in CdThread, Active(u)
  PROVE  t = u
  BY ThreadsApart DEF WorkInv, OneAtWork

(* A declined command leaves no read behind.                               *)
LEMMA DeclinedWorks ==
  ASSUME WorkInv, NEW t \in CdThread, cdCall[t].at \in {"issue", "armed"},
         Declined(t),
         UNCHANGED <<sema_driver, cdCache, buffer, drive, g_done, dmaTo>>
  PROVE  WorkInv'
  <1> DEFINE call == DeclinedCall(t)
  <1>1. /\ Becomes(t, call)
        /\ "at" \in DOMAIN call
        /\ t \in Issuer => call.at = "idle"
        /\ t \notin Issuer => /\ call.at \in {"leave", "issue"}
                              /\ DOMAIN call = DOMAIN cdCall[t]
    BY DeclinedGoes DEF WorkInv
  <1> HIDE DEF call
  <1>2. CallShape'
    BY <1>1, ThreadsApart
       DEF Becomes, WorkInv, CallShape, DriverPlace, IssuerPlace
  <1>3. OneAtWork'
    BY <1>1, ThreadsApart
       DEF Becomes, WorkInv, OneAtWork, Active, ActivePlace
  <1>4. ReadsAreOwn'
    BY <1>1, ThreadsApart DEF Becomes, WorkInv, ReadsAreOwn, Target, Landed
  <1>5. CacheTrue'
    BY <1>1, ThreadsApart DEF Becomes, WorkInv, CacheTrue
  <1> QED BY <1>2, <1>3, <1>4, <1>5 DEF WorkInv

(* The channel is armed by the thread at work, for its own target.         *)
LEMMA ArmWorks ==
  ASSUME WorkInv, NEW t \in CdThread, Arm(t)
  PROVE  WorkInv'
  <1>1. CASE sema_ncmd # None
    BY <1>1, DeclinedWorks DEF Arm
  <1>2. CASE sema_ncmd = None
    <2> DEFINE call == [cdCall[t] EXCEPT !.at = "armed"]
    <2>1. /\ Becomes(t, call) /\ cdCall[t].at = "issue" /\ dmaTo' = Target(t)
          /\ UNCHANGED <<sema_driver, cdCache, buffer, drive, g_done>>
      BY <1>2, Became DEF Arm, Goto, Target, WorkInv, CallShape
    <2>2. /\ call.at = "armed" /\ DOMAIN call = DOMAIN cdCall[t]
          /\ "at" \in DOMAIN call /\ call.want = cdCall[t].want
      BY ThreadsApart DEF WorkInv, CallShape
    <2> HIDE DEF call
    <2>3. CallShape'
      BY <2>1, <2>2, ThreadsApart
         DEF Becomes, WorkInv, CallShape, DriverPlace, IssuerPlace
    <2>4. OneAtWork'
      BY <2>1, <2>2, ThreadsApart
         DEF Becomes, WorkInv, OneAtWork, Active, ActivePlace
    <2>5. \A u \in CdThread \ {t} : ~Active(u)
      BY <2>1, AloneAtWork DEF Active, ActivePlace
    <2>6. ReadsAreOwn'
      BY <2>1, <2>2, <2>5
         DEF Becomes, WorkInv, ReadsAreOwn, Landed, Target, Active, ActivePlace
    <2>7. CacheTrue'
      BY <2>1, <2>2, ThreadsApart DEF Becomes, WorkInv, CacheTrue
    <2> QED BY <2>3, <2>4, <2>6, <2>7 DEF WorkInv
  <1> QED BY <1>1, <1>2

(* A command that is taken starts the read the thread waits for.           *)
LEMMA CommandWorks ==
  ASSUME WorkInv, NEW t \in CdThread, NEW ready \in BOOLEAN,
         Command(t, ready)
  PROVE  WorkInv'
  <1>1. CASE ~ready
    BY <1>1, DeclinedWorks DEF Command
  <1>2. CASE ready
    <2> DEFINE call == [cdCall[t] EXCEPT !.at = "sync"]
    <2>1. /\ Becomes(t, call) /\ cdCall[t].at = "armed"
          /\ drive' = cdCall[t].want /\ g_done' = 0
          /\ UNCHANGED <<sema_driver, cdCache, buffer, dmaTo>>
      BY <1>2, Became DEF Command, Goto, WorkInv, CallShape
    <2>2. /\ call.at = "sync" /\ DOMAIN call = DOMAIN cdCall[t]
          /\ "at" \in DOMAIN call /\ call.want = cdCall[t].want
      BY ThreadsApart DEF WorkInv, CallShape
    <2> HIDE DEF call
    <2>3. CallShape'
      BY <2>1, <2>2, ThreadsApart
         DEF Becomes, WorkInv, CallShape, DriverPlace, IssuerPlace
    <2>4. OneAtWork'
      BY <2>1, <2>2, ThreadsApart
         DEF Becomes, WorkInv, OneAtWork, Active, ActivePlace
    <2>5. ReadsAreOwn'
      BY <2>1, <2>2 DEF Becomes, WorkInv, ReadsAreOwn, Landed, Target
    <2>6. CacheTrue'
      BY <2>1, <2>2, ThreadsApart DEF Becomes, WorkInv, CacheTrue
    <2> QED BY <2>3, <2>4, <2>5, <2>6 DEF WorkInv
  <1> QED BY <1>1, <1>2

(* A read that ends has moved its sector to the target of the thread that  *)
(* waits for it, and no other buffer is touched.                           *)
LEMMA IrqWorks ==
  ASSUME WorkInv, NEW ok \in BOOLEAN, CdvdIrqHandler(ok)
  PROVE  WorkInv'
  <1>1. PICK t \in CdThread : cdCall[t].at = "sync" /\ drive = cdCall[t].want
    BY DEF CdvdIrqHandler, WorkInv, ReadsAreOwn
  <1>2. dmaTo = Target(t)
    BY <1>1 DEF WorkInv, ReadsAreOwn
  <1>3. \A u \in CdThread \ {t} : ~Active(u)
    BY <1>1, AloneAtWork DEF Active, ActivePlace
  <1>4. /\ UNCHANGED <<cdCall, sema_driver, dmaTo>>
        /\ drive' = NoSector /\ g_done' = IF ok THEN 1 ELSE 2
    BY DEF CdvdIrqHandler
  <1>5. CallShape' /\ OneAtWork'
    BY <1>4 DEF CdvdIrqHandler, WorkInv, CallShape, OneAtWork, Active
  <1>6. ok => Landed(t)' = drive
    BY <1>2, ThreadsApart
       DEF CdvdIrqHandler, Landed, Target, WorkInv, CallShape
  <1>7. ReadsAreOwn'
    BY <1>1, <1>3, <1>4, <1>6
       DEF WorkInv, ReadsAreOwn, Active, ActivePlace, Target
  <1>8. CacheTrue'
    <2>1. CASE t \in Issuer
      <3>1. UNCHANGED cdCache /\ \A i \in Issuer \ {t} : buffer'[i] = buffer[i]
        BY <1>2, <2>1, ThreadsApart
           DEF CdvdIrqHandler, Target, WorkInv, CallShape
      <3> QED BY <1>1, <1>4, <3>1, ThreadsApart DEF WorkInv, CacheTrue
    <2>2. CASE t \notin Issuer
      <3>1. /\ UNCHANGED buffer
            /\ cdCache'.valid = cdCache.valid /\ cdCache'.lba = cdCache.lba
        BY <1>2, <2>2 DEF CdvdIrqHandler, Target, WorkInv, CallShape
      <3>2. ~cdCache.valid
        BY <1>1, <2>2, ThreadsApart DEF WorkInv, CacheTrue
      <3> QED BY <1>4, <3>1, <3>2 DEF WorkInv, CacheTrue
    <2> QED BY <2>1, <2>2
  <1> QED BY <1>5, <1>7, <1>8 DEF WorkInv

(* The thread that waited finds its own read ended.                        *)
LEMMA SyncWorks ==
  ASSUME WorkInv, NEW t \in CdThread, CdSync(t)
  PROVE  WorkInv'
  <1>1. /\ cdCall[t].at = "sync" /\ g_done # 0 /\ drive = NoSector
        /\ UNCHANGED <<sema_driver, buffer, dmaTo, drive, g_done>>
    BY DEF CdSync, WorkInv, ReadsAreOwn
  <1>2. "at" \in DOMAIN cdCall[t] /\ "want" \in DOMAIN cdCall[t]
    BY <1>1, ThreadsApart DEF WorkInv, CallShape
  <1>3. \A u \in CdThread \ {t} : ~Active(u)
    BY <1>1, AloneAtWork DEF Active, ActivePlace
  <1>4. PICK call :
          /\ Becomes(t, call) /\ "at" \in DOMAIN call
          /\ \/ t \in Issuer /\ call.at = "idle"
             \/ /\ t \in Issuer /\ call.at = "answered" /\ g_done = 1
                /\ DOMAIN call = DOMAIN cdCall[t]
             \/ /\ t \notin Issuer /\ call.at = "have" /\ g_done = 1
                /\ DOMAIN call = DOMAIN cdCall[t]
             \/ /\ t \notin Issuer /\ call.at = "leave" /\ g_done # 1
                /\ DOMAIN call = DOMAIN cdCall[t]
          /\ call.at \in {"answered", "have"} => call.want = cdCall[t].want
    <2>1. CASE t \in Issuer /\ g_done = 1
      BY <1>2, <2>1, Became DEF CdSync, Goto, WorkInv, CallShape
    <2>2. CASE t \in Issuer /\ g_done # 1
      BY <1>2, <2>2, Became DEF CdSync, Return, WorkInv, CallShape
    <2>3. CASE t \notin Issuer /\ g_done = 1
      BY <1>2, <2>3, Became DEF CdSync, Goto, WorkInv, CallShape
    <2>4. CASE t \notin Issuer /\ g_done # 1
      BY <1>2, <2>4, Became DEF CdSync, WorkInv, CallShape
    <2> QED BY <2>1, <2>2, <2>3, <2>4
  <1>5. /\ DOMAIN cdCache' = DOMAIN cdCache /\ cdCache'.data = cdCache.data
        /\ t \notin Issuer /\ g_done = 1 =>
             cdCache'.valid /\ cdCache'.lba = cdCall[t].want
        /\ t \in Issuer \/ g_done # 1 => cdCache' = cdCache
    BY DEF CdSync, WorkInv, CallShape
  <1>6. CallShape'
    BY <1>1, <1>4, <1>5, ThreadsApart
       DEF Becomes, WorkInv, CallShape, DriverPlace, IssuerPlace
  <1>7. OneAtWork'
    BY <1>1, <1>4, ThreadsApart
       DEF Becomes, WorkInv, OneAtWork, Active, ActivePlace
  <1>8. ReadsAreOwn'
    BY <1>1, <1>3, <1>4
       DEF Becomes, WorkInv, ReadsAreOwn, Active, ActivePlace
  <1>9. g_done = 1 => Landed(t) = cdCall[t].want
    BY <1>1 DEF WorkInv, ReadsAreOwn
  <1>10. CacheTrue'
    BY <1>1, <1>3, <1>4, <1>5, <1>9, ThreadsApart
       DEF Becomes, WorkInv, CacheTrue, Landed, Active, ActivePlace
  <1> QED BY <1>6, <1>7, <1>8, <1>10 DEF WorkInv

(* A caller of sceCdRead begins when nobody is at work.                    *)
LEMMA IssueWorks ==
  ASSUME WorkInv, Turns, NEW i \in Issuer, NEW lba, SceCdRead(i, lba)
  PROVE  WorkInv'
  <1> DEFINE call == [at |-> "issue", want |-> lba, attempts |-> 0]
  <1>1. Becomes(i, call)
    BY Became, ThreadsApart DEF SceCdRead, WorkInv, CallShape
  <1>2. /\ cdCall[i].at \in {"idle", "answered"} /\ sema_driver = None
        /\ UNCHANGED <<sema_driver, cdCache, buffer, dmaTo, drive, g_done>>
        /\ \A j \in Issuer : ~Active(j)
    BY DEF SceCdRead, IssuerBusy, Active, ActivePlace
  <1>3. CallShape'
    BY <1>1, <1>2, ThreadsApart DEF Becomes, WorkInv, CallShape, IssuerPlace
  <1>4. OneAtWork'
    BY <1>1, <1>2, ThreadsApart
       DEF Becomes, WorkInv, OneAtWork, Active, ActivePlace
  <1>5. ReadsAreOwn'
    BY <1>1, <1>2 DEF Becomes, WorkInv, ReadsAreOwn, Target, Landed
  <1>6. CacheTrue'
    BY <1>1, <1>2, ThreadsApart DEF Becomes, WorkInv, CacheTrue
  <1> QED BY <1>3, <1>4, <1>5, <1>6 DEF WorkInv

-----------------------------------------------------------------------------
(* The handles and the reads of files *)

(* A call that keeps what it is about, or is over, keeps its read in the   *)
(* file while the handles are left alone.                                  *)
LEMMA FilesKept ==
  ASSUME FilesFit, CallShape, NEW t \in CdThread, NEW call, Becomes(t, call),
         UNCHANGED <<handles, fileOf>>,
         \/ t \in Issuer
         \/ call.at = "idle"
         \/ /\ cdCall[t].at # "idle"
            /\ call.at = "after" =>
                 cdCall[t].at = "after" \/ cdCall[t].kind = "read"
            /\ call.kind = cdCall[t].kind /\ call.length = cdCall[t].length
            /\ call.done = cdCall[t].done
  PROVE  FilesFit'
  BY ThreadsApart DEF Becomes, FilesFit, ReadFits

(* The commands to the drive are not about the files.                      *)
LEMMA CommandFits ==
  ASSUME DiscInv, NEW t \in CdThread,
         Arm(t) \/ CdSync(t) \/ \E ready \in BOOLEAN : Command(t, ready)
  PROVE  FilesFit'
  <1>1. UNCHANGED <<handles, fileOf>> /\ cdCall[t].at # "idle"
    BY DEF Arm, CdSync, Command
  <1>2. t \notin Issuer =>
          DOMAIN cdCall[t] = {"at", "kind", "want", "attempts", "length",
                              "done", "ok"}
    BY <1>1, ThreadsApart DEF DiscInv, WorkInv, CallShape
  <1>3. CASE Declined(t)
    <2>1. /\ Becomes(t, DeclinedCall(t))
          /\ t \notin Issuer => /\ DeclinedCall(t).at \in {"leave", "issue"}
                                /\ DeclinedCall(t).kind = cdCall[t].kind
                                /\ DeclinedCall(t).length = cdCall[t].length
                                /\ DeclinedCall(t).done = cdCall[t].done
      BY <1>1, <1>2, <1>3, DeclinedGoes DEF DeclinedCall, DiscInv, WorkInv
    <2> QED BY <1>1, <2>1, FilesKept DEF DiscInv, WorkInv
  <1>4. CASE \E at \in {"armed", "sync", "answered", "have"} : Goto(t, at)
    <2> PICK at \in {"armed", "sync", "answered", "have"} : Goto(t, at)
      BY <1>4
    <2> DEFINE call == [cdCall[t] EXCEPT !.at = at]
    <2>1. Becomes(t, call)
      BY Became DEF Goto, DiscInv, WorkInv, CallShape
    <2>2. t \notin Issuer =>
            /\ call.at = at /\ call.kind = cdCall[t].kind
            /\ call.length = cdCall[t].length /\ call.done = cdCall[t].done
      BY <1>2
    <2> HIDE DEF call
    <2> QED BY <1>1, <2>1, <2>2, FilesKept DEF DiscInv, WorkInv
  <1>5. CASE cdCall' = [cdCall EXCEPT ![t].at = "leave", ![t].ok = FALSE]
    <2> DEFINE call == [cdCall[t] EXCEPT !.at = "leave", !.ok = FALSE]
    <2>1. Becomes(t, call)
      BY <1>5, Became DEF DiscInv, WorkInv, CallShape
    <2>2. t \notin Issuer =>
            /\ call.at = "leave" /\ call.kind = cdCall[t].kind
            /\ call.length = cdCall[t].length /\ call.done = cdCall[t].done
      BY <1>2
    <2> HIDE DEF call
    <2> QED BY <1>1, <2>1, <2>2, FilesKept DEF DiscInv, WorkInv
  <1>6. CASE Return(t)
    <2>1. Becomes(t, [at |-> "idle"])
      BY <1>6, Became DEF Return, DiscInv, WorkInv, CallShape
    <2> QED BY <1>1, <2>1, FilesKept DEF DiscInv, WorkInv
  <1> QED
    BY <1>3, <1>4, <1>5, <1>6 DEF Arm, CdSync, Command

(* Nor are the semaphore, the look at the cache and a caller of sceCdRead. *)
LEMMA LookFits ==
  ASSUME DiscInv, NEW t \in CdThread,
         \/ t \in DriverThread /\ (Acquire(t) \/ Look(t))
         \/ t \in Issuer /\ \E lba \in Nat : SceCdRead(t, lba)
  PROVE  FilesFit'
  <1>1. CASE t \in DriverThread /\ (Acquire(t) \/ Look(t))
    <2>1. UNCHANGED <<handles, fileOf>> /\ cdCall[t].at \in {"wait", "look"}
      BY <1>1 DEF Acquire, Look
    <2>2. DOMAIN cdCall[t] = {"at", "kind", "want", "attempts", "length",
                              "done", "ok"}
      BY <1>1, <2>1 DEF DiscInv, WorkInv, CallShape
    <2>3. \E at \in {"leave", "look", "have", "issue"} : \E want, attempts :
            cdCall' = [cdCall EXCEPT ![t] =
              [cdCall[t] EXCEPT !.at = at, !.want = want,
                                !.attempts = attempts]]
      <3>1. CASE Acquire(t)
        <4> DEFINE at == IF cdCall[t].kind = "read" /\ cdCall[t].length = 0
                         THEN "leave" ELSE "look"
                   want == IF cdCall[t].kind = "read" THEN SectorOf(t, 0)
                           ELSE Pvd
        <4>1. cdCall' = [cdCall EXCEPT ![t] =
                [cdCall[t] EXCEPT !.at = at, !.want = want]]
          BY <3>1 DEF Acquire
        <4>2. [cdCall[t] EXCEPT !.at = at, !.want = want] =
                [cdCall[t] EXCEPT !.at = at, !.want = want,
                                  !.attempts = cdCall[t].attempts]
          <5> HIDE DEF at, want
          <5> QED BY <2>2
        <4>3. at \in {"leave", "look", "have", "issue"}
          OBVIOUS
        <4> HIDE DEF at, want
        <4> QED BY <4>1, <4>2, <4>3
      <3>2. CASE Look(t)
        <4> DEFINE at == IF cdCache.valid /\ cdCache.lba = cdCall[t].want
                         THEN "have" ELSE "issue"
        <4>1. cdCall' = [cdCall EXCEPT ![t] =
                [cdCall[t] EXCEPT !.at = at, !.attempts = 0]]
          BY <3>2 DEF Look
        <4>2. [cdCall[t] EXCEPT !.at = at, !.attempts = 0] =
                [cdCall[t] EXCEPT !.at = at, !.want = cdCall[t].want,
                                  !.attempts = 0]
          <5> HIDE DEF at
          <5> QED BY <2>2
        <4>3. at \in {"leave", "look", "have", "issue"}
          OBVIOUS
        <4> HIDE DEF at
        <4> QED BY <4>1, <4>2, <4>3
      <3> QED BY <1>1, <3>1, <3>2
    <2>7. PICK at \in {"leave", "look", "have", "issue"} :
           \E want, attempts :
             cdCall' = [cdCall EXCEPT ![t] =
               [cdCall[t] EXCEPT !.at = at, !.want = want,
                                 !.attempts = attempts]]
      BY <2>3
    <2>8. PICK want, attempts :
            cdCall' = [cdCall EXCEPT ![t] =
              [cdCall[t] EXCEPT !.at = at, !.want = want,
                                !.attempts = attempts]]
      BY <2>7
    <2> DEFINE call == [cdCall[t] EXCEPT !.at = at, !.want = want,
                                         !.attempts = attempts]
    <2>4. Becomes(t, call)
      BY <2>8, Became DEF DiscInv, WorkInv, CallShape
    <2>5. /\ call.at = at /\ call.kind = cdCall[t].kind
          /\ call.length = cdCall[t].length /\ call.done = cdCall[t].done
      BY <2>2
    <2> HIDE DEF call
    <2> QED BY <2>1, <2>4, <2>5, FilesKept DEF DiscInv, WorkInv
  <1>2. CASE t \in Issuer /\ \E lba \in Nat : SceCdRead(t, lba)
    <2> PICK lba \in Nat : SceCdRead(t, lba)
      BY <1>2
    <2>1. Becomes(t, [at |-> "issue", want |-> lba, attempts |-> 0])
      BY Became DEF SceCdRead, DiscInv, WorkInv, CallShape
    <2> QED BY <1>2, <2>1, FilesKept DEF SceCdRead, DiscInv, WorkInv
  <1> QED BY <1>1, <1>2

(* A read is cut at the end of the file before it begins.                  *)
LEMMA BeginFits ==
  ASSUME DiscInv, NEW t \in DriverThread, NEW call, Begin(t, call),
         call.at = "wait", call.kind \in {"open", "search", "read"},
         call.kind # "search" => t \in FileThread,
         call.kind = "read" =>
           /\ fileOf[t] # NoHandle
           /\ call.length \in Nat /\ call.done = 0
           /\ handles[fileOf[t]].position + call.length <= FileSize
  PROVE  FilesFit'
  <1>1. Becomes(t, call) /\ UNCHANGED <<handles, fileOf>>
    BY Became, ThreadsApart DEF Begin, DiscInv, WorkInv, CallShape
  <1> QED
    BY <1>1, ThreadsApart DEF Becomes, DiscInv, FilesFit, ReadFits

(* A file's handle.                                                        *)
LEMMA OpenHandle ==
  ASSUME FilesFit, NEW t \in FileThread, fileOf[t] # NoHandle
  PROVE  /\ fileOf[t] \in 1..Handles /\ handles[fileOf[t]] \in Handle
         /\ handles[fileOf[t]].position \in Nat
         /\ handles[fileOf[t]].position <= FileSize
  BY CdvdAssumption DEF FilesFit, Handle, NoHandle

(* The calls begun.                                                        *)
LEMMA CallsFit ==
  ASSUME DiscInv,
         \/ \E t \in FileThread : Open(t) \/ \E n \in ReadSizes : Read(t, n)
         \/ SceCdSearchFile
  PROVE  WorkInv' /\ FilesFit'
  <1>1. ASSUME NEW t \in FileThread, Open(t)
        PROVE  WorkInv' /\ FilesFit'
    BY <1>1, BeginWorks, BeginFits, ThreadsApart DEF Open, Walk, DiscInv
  <1>2. ASSUME NEW t \in FileThread, NEW n \in ReadSizes, Read(t, n)
        PROVE  WorkInv' /\ FilesFit'
    <2> DEFINE left == FileSize - handles[fileOf[t]].position
               call == [Walk("read") EXCEPT !.length = Min({n, left})]
    <2>1. fileOf[t] # NoHandle /\ Begin(t, call)
      BY <1>2 DEF Read
    <2>2. left \in Nat /\ n \in Nat
      BY <2>1, OpenHandle, CdvdAssumption DEF DiscInv
    <2>3. Min({n, left}) \in Nat /\ Min({n, left}) <= left
      <3> HIDE DEF left
      <3> QED BY <2>2, MinOfTwo
    <2>4. /\ call.at = "wait" /\ call.kind = "read"
          /\ call.length = Min({n, left}) /\ call.done = 0
          /\ DOMAIN call = {"at", "kind", "want", "attempts", "length", "done",
                            "ok"}
      BY DEF Walk
    <2>5. handles[fileOf[t]].position + call.length <= FileSize
      <3>1. handles[fileOf[t]].position \in Nat
        BY <2>1, OpenHandle DEF DiscInv
      <3> QED BY <2>3, <2>4, <3>1, CdvdAssumption
    <2>6. DOMAIN call = {"at", "kind", "want", "attempts", "length", "done",
                         "ok"} /\ call.length \in Nat
      BY <2>3, <2>4
    <2> HIDE DEF call, left
    <2> QED
      BY <2>1, <2>4, <2>5, <2>6, BeginWorks, BeginFits, ThreadsApart
         DEF DiscInv
  <1>3. CASE SceCdSearchFile
    BY <1>3, BeginWorks, BeginFits, ThreadsApart
       DEF SceCdSearchFile, Walk, DiscInv
  <1> QED BY <1>1, <1>2, <1>3

(* A chunk of a read ends within its length.                               *)
LEMMA ChunkEndKnown ==
  ASSUME DiscInv, NEW t \in DriverThread, cdCall[t].at = "have",
         cdCall[t].kind = "read"
  PROVE  ChunkEnd(t) \in Nat /\ ChunkEnd(t) <= cdCall[t].length
  <1>1. t \in FileThread /\ ReadFits(t)
    BY DEF DiscInv, FilesFit
  <1> DEFINE offset ==
               (handles[fileOf[t]].position + cdCall[t].done) % SectorSize
             left == cdCall[t].length - cdCall[t].done
  <1>2. handles[fileOf[t]].position + cdCall[t].done \in Nat
    BY <1>1, OpenHandle DEF ReadFits, DiscInv
  <1>3. SectorSize - offset \in Nat
    BY <1>2, CdvdAssumption
  <1>4. left \in Nat
    BY <1>1 DEF ReadFits
  <1>5. Min({SectorSize - offset, left}) \in Nat
        /\ Min({SectorSize - offset, left}) <= left
    <2> HIDE DEF offset, left
    <2> QED BY <1>3, <1>4, MinOfTwo
  <1>6. ChunkEnd(t) = cdCall[t].done + Min({SectorSize - offset, left})
    BY DEF ChunkEnd
  <1> QED BY <1>1, <1>4, <1>5, <1>6 DEF ReadFits

(* So a read stays in the file, however many chunks it takes.              *)
LEMMA UseFits ==
  ASSUME DiscInv, NEW t \in DriverThread, NEW there \in BOOLEAN,
         UseSector(t, there)
  PROVE  FilesFit'
  <1> DEFINE call == AfterSector(t, there)
  <1>1. /\ cdCall[t].at = "have" /\ UNCHANGED <<handles, fileOf>>
        /\ Becomes(t, call)
    BY Became, ThreadsApart DEF UseSector, DiscInv, WorkInv, CallShape
  <1>2. DOMAIN cdCall[t] = {"at", "kind", "want", "attempts", "length", "done",
                            "ok"}
    BY <1>1 DEF DiscInv, WorkInv, CallShape
  <1>3. cdCall[t].kind = "read" =>
          cdCall[t].length \in Nat /\ ChunkEnd(t) \in Nat
    BY <1>1, ChunkEndKnown DEF DiscInv, FilesFit, ReadFits
  <1>4. /\ call.kind = cdCall[t].kind /\ call.length = cdCall[t].length
        /\ call.at \in {"look", "leave"}
        /\ cdCall[t].kind = "read" => call.done = ChunkEnd(t)
    BY <1>2, <1>3 DEF AfterSector
  <1>5. CASE cdCall[t].kind # "read"
    BY <1>1, <1>4, <1>5, ThreadsApart DEF Becomes, DiscInv, FilesFit, ReadFits
  <1>6. CASE cdCall[t].kind = "read"
    <2>1. ChunkEnd(t) \in Nat /\ ChunkEnd(t) <= cdCall[t].length
      BY <1>1, <1>6, ChunkEndKnown
    <2> HIDE DEF call
    <2> QED
      BY <1>1, <1>4, <1>6, <2>1, ThreadsApart
         DEF Becomes, DiscInv, FilesFit, ReadFits
  <1> QED BY <1>5, <1>6

(* What a change of one handle, the thread's own or a free one, leaves of  *)
(* the others'.                                                            *)
LEMMA OneHandleFits ==
  ASSUME DiscInv, NEW t \in FileThread, NEW h \in 1..Handles,
         NEW new \in Handle,
         fileOf[t] = h \/ ~handles[h].in_use,
         handles' = [handles EXCEPT ![h] = new],
         \/ fileOf' = fileOf /\ fileOf[t] = h /\ new.in_use
         \/ fileOf' = [fileOf EXCEPT ![t] = h] /\ new.in_use
         \/ fileOf' = [fileOf EXCEPT ![t] = NoHandle],
         new.position <= FileSize,
         \/ Becomes(t, [at |-> "idle"])
         \/ cdCall' = cdCall /\ cdCall[t].at = "idle"
  PROVE  FilesFit'
  <1> USE DEF DiscInv, FilesFit
  <1>1. h # NoHandle
    BY CdvdAssumption DEF NoHandle
  <1>2. \A u \in FileThread \ {t} : fileOf'[u] = fileOf[u] /\ fileOf[u] # h
    BY <1>1
  <1>3. /\ handles' \in [1..Handles -> Handle]
        /\ fileOf' \in [FileThread -> 0..Handles]
        /\ handles'[h] = new
        /\ \A g \in (1..Handles) \ {h} : handles'[g] = handles[g]
    <2>1. handles' \in [1..Handles -> Handle]
      OBVIOUS
    <2>2. fileOf' \in [FileThread -> 0..Handles]
      <3>1. h \in 0..Handles /\ NoHandle \in 0..Handles
        BY CdvdAssumption DEF NoHandle
      <3> QED BY <3>1
    <2> QED BY <2>1, <2>2
  <1>4. \A u \in FileThread \ {t} : fileOf[u] # NoHandle =>
          fileOf[u] \in (1..Handles) \ {h}
    BY <1>2 DEF NoHandle
  <1>5. \A u \in FileThread : fileOf'[u] # NoHandle =>
          handles'[fileOf'[u]].in_use
          /\ handles'[fileOf'[u]].position <= FileSize
    BY <1>1, <1>2, <1>3, <1>4
  <1>6. \A u, v \in FileThread :
          u # v /\ fileOf'[u] = fileOf'[v] => fileOf'[u] = NoHandle
    BY <1>1, <1>2
  <1>7. \A u \in DriverThread : cdCall'[u].at # "idle" =>
          u # t /\ cdCall'[u] = cdCall[u]
    BY ThreadsApart DEF Becomes
  <1>8. \A u \in DriverThread : cdCall'[u].at # "idle" =>
          /\ cdCall'[u].kind \in {"open", "search", "read"}
          /\ cdCall'[u].kind # "search" => u \in FileThread
          /\ cdCall'[u].kind = "read" => ReadFits(u)'
          /\ cdCall'[u].at = "after" => cdCall'[u].kind = "read"
    BY <1>2, <1>3, <1>4, <1>7 DEF ReadFits
  <1> QED BY <1>3, <1>5, <1>6, <1>8

(* A handle that is free is found, one that is open is closed or moved.    *)
LEMMA HandlesFit ==
  ASSUME DiscInv, NEW t \in FileThread,
         \/ Leave(t) \/ MovePosition(t) \/ Close(t)
         \/ \E n \in ReadSizes : Lseek(t, n)
  PROVE  FilesFit'
  <1> USE DEF DiscInv
  <1>1. CASE Leave(t)
    <2> DEFINE h == Min(FreeHandles)
               opens == /\ cdCall[t].kind = "open" /\ cdCall[t].ok
                        /\ FreeHandles # {}
    <2>1. CASE opens
      <3>1. h \in 1..Handles /\ ~handles[h].in_use
        <4>1. FreeHandles \in SUBSET Nat
          BY CdvdAssumption DEF FreeHandles
        <4>2. h \in FreeHandles
          BY <2>1, <4>1, MinOfNaturals
        <4> QED BY <4>2 DEF FreeHandles
      <3>2. /\ handles' = [handles EXCEPT ![h] =
                             [in_use |-> TRUE, position |-> 0]]
            /\ fileOf' = [fileOf EXCEPT ![t] = h]
            /\ Return(t)
        BY <1>1, <2>1 DEF Leave
      <3>3. Becomes(t, [at |-> "idle"])
        BY <3>2, Became, ThreadsApart DEF Return, WorkInv, CallShape
      <3> DEFINE new == [in_use |-> TRUE, position |-> 0]
      <3>4. new \in Handle /\ new.in_use /\ new.position <= FileSize
        BY CdvdAssumption DEF Handle
      <3> HIDE DEF h, new
      <3> QED BY <3>1, <3>2, <3>3, <3>4, OneHandleFits DEF new
    <2>2. CASE ~opens
      <3>1. UNCHANGED <<handles, fileOf>> /\ cdCall[t].at = "leave"
        BY <1>1, <2>2 DEF Leave
      <3>2. DOMAIN cdCall[t] = {"at", "kind", "want", "attempts", "length",
                                "done", "ok"}
        BY <3>1, ThreadsApart DEF WorkInv, CallShape
      <3>3. PICK call :
              /\ Becomes(t, call)
              /\ \/ call = [at |-> "idle"]
                 \/ /\ cdCall[t].kind = "read"
                    /\ call = [cdCall[t] EXCEPT !.at = "after"]
        BY <1>1, Became, ThreadsApart
           DEF Leave, Goto, Return, WorkInv, CallShape
      <3> QED BY <3>1, <3>2, <3>3, FilesKept, ThreadsApart DEF WorkInv
    <2> QED BY <2>1, <2>2
  <1>2. CASE MovePosition(t)
    <2> DEFINE h == fileOf[t]
               old == handles[h]
               new == [old EXCEPT !.position = old.position + cdCall[t].done]
    <2>1. cdCall[t].at = "after" /\ ReadFits(t)
      BY <1>2, ThreadsApart DEF MovePosition, FilesFit
    <2>2. /\ h \in 1..Handles /\ old \in Handle /\ old.in_use
          /\ old.position + cdCall[t].length <= FileSize
          /\ cdCall[t].done <= cdCall[t].length
          /\ cdCall[t].done \in Nat /\ cdCall[t].length \in Nat
      BY <2>1, OpenHandle DEF ReadFits, FilesFit
    <2>3. new \in Handle /\ new.in_use /\ new.position <= FileSize
      BY <2>2, CdvdAssumption DEF Handle
    <2>4. handles' = [handles EXCEPT ![h] = new] /\ UNCHANGED fileOf
      BY <1>2 DEF MovePosition
    <2>5. Becomes(t, [at |-> "idle"])
      BY <1>2, Became, ThreadsApart DEF MovePosition, Return, WorkInv, CallShape
    <2> HIDE DEF new, h
    <2> QED BY <2>2, <2>3, <2>4, <2>5, OneHandleFits DEF h
  <1>3. CASE Close(t)
    <2> DEFINE h == fileOf[t]
               new == [handles[h] EXCEPT !.in_use = FALSE]
    <2>1. /\ h # NoHandle /\ UNCHANGED cdCall /\ cdCall[t].at = "idle"
          /\ handles' = [handles EXCEPT ![h] = new]
          /\ fileOf' = [fileOf EXCEPT ![t] = NoHandle]
      BY <1>3 DEF Close
    <2>2. h \in 1..Handles /\ new \in Handle /\ new.position <= FileSize
      BY <2>1, OpenHandle DEF Handle
    <2> HIDE DEF new, h
    <2> QED BY <2>1, <2>2, OneHandleFits DEF h
  <1>4. ASSUME NEW n \in ReadSizes, Lseek(t, n)
        PROVE  FilesFit'
    <2> DEFINE h == fileOf[t]
               to == Min({n, FileSize})
               new == [handles[h] EXCEPT !.position = to]
    <2>1. /\ h # NoHandle /\ UNCHANGED <<cdCall, fileOf>>
          /\ cdCall[t].at = "idle"
          /\ handles' = [handles EXCEPT ![h] = new]
      BY <1>4 DEF Lseek
    <2>2. to \in Nat /\ to <= FileSize
      BY CdvdAssumption, MinOfTwo
    <2>3. handles[h].in_use
      BY <2>1 DEF FilesFit
    <2> HIDE DEF to
    <2>4. h \in 1..Handles /\ new \in Handle /\ new.position <= FileSize
          /\ new.in_use
      BY <2>1, <2>2, <2>3, OpenHandle DEF Handle
    <2> HIDE DEF new, h
    <2> QED BY <2>1, <2>4, OneHandleFits DEF h
  <1> QED BY <1>1, <1>2, <1>3, <1>4

-----------------------------------------------------------------------------
(* The theorems *)

(* What the work on a sector depends on. *)
workVars == <<cdCall, sema_driver, cdCache, buffer, dmaTo, drive, g_done>>

(* Nothing changes without it.                                             *)
LEMMA WorkStays ==
  ASSUME WorkInv, UNCHANGED workVars
  PROVE  WorkInv'
  BY DEF workVars, WorkInv, CallShape, OneAtWork, Active, ReadsAreOwn,
         CacheTrue, Target, Landed

(* A step of the mechanism controller's side is none of the disc's, and    *)
(* one of the disc's none of the controller's.                             *)
LEMMA SidesApart ==
  /\ DiscInv /\ UNCHANGED nVars => DiscInv'
  /\ ConfigInv /\ UNCHANGED sVars => ConfigInv'
  <1>1. ASSUME DiscInv, UNCHANGED nVars
        PROVE  DiscInv'
    BY <1>1, WorkStays DEF nVars, workVars, DiscInv, FilesFit, ReadFits
  <1>2. ASSUME ConfigInv, UNCHANGED sVars
        PROVE  ConfigInv'
    BY <1>2 DEF sVars, ConfigInv, SCallShape
  <1> QED BY <1>1, <1>2

(* A step of the disc's side.                                              *)
LEMMA DiscStepHolds ==
  ASSUME DiscInv, Turns, DiscNext
  PROVE  DiscInv' /\ UNCHANGED sVars
  <1>1. ASSUME NEW t \in FileThread,
               \/ Open(t) \/ Close(t) \/ MovePosition(t)
               \/ \E n \in ReadSizes : Read(t, n) \/ Lseek(t, n)
        PROVE  DiscInv' /\ UNCHANGED sVars
    <2>1. UNCHANGED sVars
      BY <1>1 DEF Open, Read, Begin, Close, MovePosition, Lseek
    <2>2. CASE Open(t) \/ \E n \in ReadSizes : Read(t, n)
      BY <2>1, <2>2, CallsFit DEF DiscInv
    <2>3. CASE MovePosition(t)
      BY <2>1, <2>3, LeaveWorks, HandlesFit, ThreadsApart DEF DiscInv
    <2>4. CASE Close(t) \/ \E n \in ReadSizes : Lseek(t, n)
      <3>1. UNCHANGED workVars
        BY <2>4 DEF Close, Lseek, workVars
      <3> QED BY <2>1, <2>4, <3>1, WorkStays, HandlesFit DEF DiscInv
    <2> QED BY <1>1, <2>2, <2>3, <2>4
  <1>2. CASE SceCdSearchFile
    BY <1>2, CallsFit DEF DiscInv, SceCdSearchFile, Begin
  <1>3. ASSUME NEW t \in DriverThread,
               \/ Acquire(t) \/ Look(t) \/ Leave(t)
               \/ \E there \in BOOLEAN : UseSector(t, there)
        PROVE  DiscInv' /\ UNCHANGED sVars
    <2>1. UNCHANGED sVars
      BY <1>3 DEF Acquire, Look, Leave, UseSector
    <2>2. WorkInv'
      <3>1. WorkInv
        BY DEF DiscInv
      <3>2. CASE Acquire(t)
        BY <3>1, <3>2, AcquireWorks
      <3>3. CASE Look(t)
        BY <3>1, <3>3, LookWorks
      <3>4. CASE Leave(t)
        BY <3>1, <3>4, LeaveWorks
      <3>5. CASE \E there \in BOOLEAN : UseSector(t, there)
        BY <3>1, <3>5, UseWorks
      <3> QED BY <1>3, <3>2, <3>3, <3>4, <3>5
    <2>3. CASE Acquire(t) \/ Look(t)
      BY <2>1, <2>2, <2>3, LookFits, ThreadsApart DEF DiscInv
    <2>4. CASE Leave(t)
      <3>1. CASE t \in FileThread
        BY <2>1, <2>2, <2>4, <3>1, HandlesFit DEF DiscInv
      <3>2. CASE t \notin FileThread
        <4>1. cdCall[t].kind = "search"
          BY <2>4, <3>2 DEF Leave, DiscInv, FilesFit
        <4>2. UNCHANGED <<handles, fileOf>> /\ Return(t)
          BY <2>4, <4>1 DEF Leave
        <4>3. Becomes(t, [at |-> "idle"])
          BY <4>2, Became, ThreadsApart DEF Return, DiscInv, WorkInv, CallShape
        <4> QED
          BY <2>1, <2>2, <4>2, <4>3, FilesKept, ThreadsApart
             DEF DiscInv, WorkInv
      <3> QED BY <3>1, <3>2
    <2>5. CASE \E there \in BOOLEAN : UseSector(t, there)
      BY <2>1, <2>2, <2>5, UseFits DEF DiscInv
    <2> QED BY <1>3, <2>3, <2>4, <2>5
  <1>4. ASSUME NEW t \in CdThread,
               Arm(t) \/ CdSync(t) \/ \E ready \in BOOLEAN : Command(t, ready)
        PROVE  DiscInv' /\ UNCHANGED sVars
    <2>1. UNCHANGED sVars
      BY <1>4 DEF Arm, CdSync, Command
    <2>2. WorkInv'
      BY <1>4, ArmWorks, SyncWorks, CommandWorks DEF DiscInv
    <2> QED BY <1>4, <2>1, <2>2, CommandFits DEF DiscInv
  <1>5. ASSUME NEW ok \in BOOLEAN, CdvdIrqHandler(ok)
        PROVE  DiscInv' /\ UNCHANGED sVars
    <2>1. UNCHANGED <<cdCall, handles, fileOf, sVars>>
      BY <1>5 DEF CdvdIrqHandler
    <2> QED BY <1>5, <2>1, IrqWorks DEF DiscInv, FilesFit, ReadFits
  <1>6. ASSUME NEW i \in Issuer, SceCdRead(i, FileLba)
        PROVE  DiscInv' /\ UNCHANGED sVars
    BY <1>6, IssueWorks, LookFits, ThreadsApart, CdvdAssumption
       DEF DiscInv, SceCdRead
  <1> QED BY <1>1, <1>2, <1>3, <1>4, <1>5, <1>6 DEF DiscNext

(* A step of the controller's side.                                        *)
LEMMA MechaconStepHolds ==
  ASSUME ConfigInv, MechaconNext
  PROVE  ConfigInv' /\ UNCHANGED nVars
  <1>1. ConfigInv'
    BY ServeHolds, SCommandHolds DEF MechaconNext
  <1>2. UNCHANGED nVars
    BY DEF MechaconNext, ServeOpenConfig, ServeConfig, ServeCloseConfig,
           ServeNvm, Collect, SendSCommand, MechDone
  <1> QED BY <1>1, <1>2

(* The cache holds the sector it names, a walk or a copy looks at the      *)
(* sector it asked for, and a reader told of its read's end has its        *)
(* sector, through declined commands, drive errors and retries, as long as *)
(* the callers of sceCdRead keep clear of the file calls; and no file's    *)
(* position passes its end.                                                *)
THEOREM SectorsTrue == Turns => (CdvdSpec => []SectorsAreTrue)
  <1> SUFFICES ASSUME Turns PROVE CdvdSpec => []SectorsAreTrue
    OBVIOUS
  <1>1. CdvdInit => DiscInv
    BY DiscInitHolds
  <1>2. DiscInv /\ [DiscNext \/ MechaconNext]_cdvdVars => DiscInv'
    <2>1. DiscInv /\ MechaconNext => DiscInv'
      <3>1. MechaconNext => UNCHANGED nVars
        BY DEF MechaconNext, ServeOpenConfig, ServeConfig, ServeCloseConfig,
               ServeNvm, Collect, SendSCommand, MechDone
      <3> QED BY <3>1, SidesApart
    <2> QED BY <2>1, DiscStepHolds, SidesApart DEF cdvdVars
  <1>3. DiscInv => SectorsAreTrue
    BY DEF DiscInv, WorkInv, CacheTrue, FilesFit, SectorsAreTrue
  <1> QED BY <1>1, <1>2, <1>3, PTL DEF CdvdSpec

(* However many blocks the EE asks for, a read fills no more of the reply  *)
(* than there is, a write takes no more than its request holds, and what   *)
(* is collected answers the caller's own command.                          *)
THEOREM ConfigurationFits == CdvdSpec => []ConfigFits
  <1>1. CdvdInit => ConfigInv
    BY ConfigInitHolds
  <1>2. ConfigInv /\ [DiscNext \/ MechaconNext]_cdvdVars => ConfigInv'
    <2>1. ConfigInv /\ DiscNext => ConfigInv'
      <3>1. DiscNext => UNCHANGED sVars
        BY DEF DiscNext, Open, Read, SceCdSearchFile, Begin, Close,
               MovePosition, Lseek, Acquire, Look, Leave, UseSector, Arm,
               CdSync, Command, CdvdIrqHandler, SceCdRead
      <3> QED BY <3>1, SidesApart
    <2> QED BY <2>1, MechaconStepHolds, SidesApart DEF cdvdVars
  <1>3. ConfigInv => ConfigFits
    <2> SUFFICES ASSUME ConfigInv, NEW t \in SUser
                 PROVE  /\ fsvCall[t].at = "collect" => mech.of = t
                        /\ fsvCall[t].at # "idle"
                           /\ fsvCall[t].command \in {"read", "write"} =>
                             fsvCall[t].done < fsvCall[t].size
      BY DEF ConfigFits
    <2> QED BY DEF ConfigInv, SUser
  <1> QED BY <1>1, <1>2, <1>3, PTL DEF CdvdSpec

-----------------------------------------------------------------------------
(***************************************************************************)
(* The alarm queue stays in the order of its deadlines.                    *)
(***************************************************************************)

(* A queue with deadlines d, each alarm in it once.                        *)
Ordered(q, d) ==
    /\ q \in Seq(Records) /\ d \in [Records -> Int]
    /\ \A m, n \in 1 .. Len(q) : m < n => d[q[m]] <= d[q[n]] /\ q[m] # q[n]

Holds(q, a) == \E n \in 1 .. Len(q) : q[n] = a

(* The place of d among values in order: behind all that are not greater.  *)
NotAbove(g, L, d) == {n \in 1 .. L : g[n] <= d}
Above(g, L, d) == {n \in 1 .. L : g[n] > d}

LEMMA PlaceOf ==
  ASSUME NEW L \in Nat, NEW g \in [1 .. L -> Int], NEW d \in Int,
         \A m, n \in 1 .. L : m < n => g[m] <= g[n]
  PROVE  /\ Cardinality(NotAbove(g, L, d)) + 1 \in 1 .. L + 1
         /\ \A n \in 1 .. L : g[n] <= d <=> n < Cardinality(NotAbove(g, L, d)) + 1
         /\ Above(g, L, d) = {} <=> Cardinality(NotAbove(g, L, d)) + 1 = L + 1
         /\ Above(g, L, d) # {} => Min(Above(g, L, d)) = Cardinality(NotAbove(g, L, d)) + 1
  <1> DEFINE S == NotAbove(g, L, d)
             later == Above(g, L, d)
             R == {m \in 1 .. L + 1 : m = L + 1 \/ (m \in 1 .. L /\ g[m] > d)}
  <1>1. \A m \in 1 .. L : g[m] \in Int  OBVIOUS
  <1>2. PICK p \in R : \A m \in R : p <= m
    <2>1. R \in SUBSET Nat /\ R # {}  BY <1>1
    <2> HIDE DEF R
    <2> QED BY <2>1, MinOfNaturals
  <1>3. p \in 1 .. L + 1  OBVIOUS
  <1>4. \A m \in 1 .. L : g[m] <= d <=> m < p
    <2> TAKE m \in 1 .. L
    <2>1. CASE m < p
      <3>1. m \notin R  BY <1>1, <1>2, <1>3, <2>1
      <3> QED BY <1>1, <2>1, <3>1
    <2>2. CASE ~(m < p)
      <3>1. p \in 1 .. L /\ g[p] > d  BY <1>1, <1>2, <2>2
      <3>2. g[p] <= g[m]
        <4>1. CASE p = m  BY <1>1, <4>1
        <4>2. CASE p < m  BY <3>1, <4>2
        <4> QED BY <1>1, <1>3, <2>2, <4>1, <4>2
      <3> QED BY <1>1, <2>2, <3>1, <3>2
    <2> QED BY <2>1, <2>2
  <1> HIDE DEF R
  <1>5. S = 1 .. p - 1
    BY <1>1, <1>3, <1>4 DEF NotAbove
  <1> HIDE DEF S
  <1>6. Cardinality(S) = p - 1
    <2>1. p - 1 \in Int /\ 1 \in Int  BY <1>3
    <2>2. Cardinality(1 .. p - 1) = IF 1 > p - 1 THEN 0 ELSE (p - 1) - 1 + 1
      BY <2>1, FS_Interval
    <2> QED BY <1>3, <1>5, <2>2
  <1>7. Cardinality(S) + 1 = p  BY <1>3, <1>6
  <1>8. later = {} <=> p = L + 1
    <2>1. \A n \in 1 .. L : n \in later <=> ~(n < p)  BY <1>1, <1>4 DEF Above
    <2>0. later \subseteq 1 .. L  BY DEF Above
    <2> HIDE DEF later
    <2>2. CASE p = L + 1  BY <2>0, <2>1, <2>2
    <2>3. CASE p # L + 1
      <3>1. p \in 1 .. L /\ ~(p < p)  BY <1>3, <2>3
      <3> QED BY <2>1, <2>3, <3>1
    <2> QED BY <2>2, <2>3
  <1>9. ASSUME later # {}  PROVE Min(later) = p
    <2>1. p \in 1 .. L  BY <1>3, <1>8, <1>9
    <2>2. p \in later  BY <1>1, <1>3, <1>4, <2>1 DEF Above
    <2>3. \A n \in later : ~(n < p) /\ n \in 1 .. L  BY <1>1, <1>4 DEF Above
    <2>4. later \in SUBSET Nat  BY DEF Above
    <2> HIDE DEF later
    <2>5. Min(later) \in later /\ \A n \in later : Min(later) <= n
      BY <1>9, <2>4, MinOfNaturals
    <2>6. PICK w : w = Min(later)  OBVIOUS
    <2>7. w \in 1 .. L /\ ~(w < p) /\ w <= p  BY <2>2, <2>3, <2>5, <2>6
    <2>8. w = p  BY <1>3, <2>7
    <2> QED BY <2>6, <2>8
  <1> HIDE DEF later
  <1>10. Cardinality(S) + 1 \in 1 .. L + 1  BY <1>3, <1>7
  <1>11. \A n \in 1 .. L : g[n] <= d <=> n < Cardinality(S) + 1  BY <1>4, <1>7
  <1>12. later = {} <=> Cardinality(S) + 1 = L + 1  BY <1>7, <1>8
  <1>13. later # {} => Min(later) = Cardinality(S) + 1  BY <1>7, <1>9
  <1> QED BY <1>10, <1>11, <1>12, <1>13 DEF S, later

(* insertAlarm's place: behind all that are not later.                     *)
LEMMA PlaceOfInsert ==
  ASSUME NEW q, NEW d, Ordered(q, d), NEW a \in Records
  PROVE  LET n == Cardinality({m \in DOMAIN q : d[q[m]] <= d[a]})
         IN  /\ n \in 0 .. Len(q)
             /\ \A m \in 1 .. Len(q) : d[q[m]] <= d[a] <=> m <= n
  <1> DEFINE L == Len(q)
             S == {m \in DOMAIN q : d[q[m]] <= d[a]}
             g == [m \in 1 .. L |-> d[q[m]]]
             c == Cardinality(S) + 1
  <1>1. L \in Nat /\ DOMAIN q = 1 .. L /\ d[a] \in Int
        /\ \A m \in 1 .. L : q[m] \in Records /\ d[q[m]] \in Int
    BY DEF Ordered
  <1>2. g \in [1 .. L -> Int] /\ \A m \in 1 .. L : g[m] = d[q[m]]  BY <1>1
  <1>3. \A m, n \in 1 .. L : m < n => g[m] <= g[n]  BY <1>2 DEF Ordered
  <1>4. S = NotAbove(g, L, d[a])  BY <1>1, <1>2 DEF NotAbove
  <1> HIDE DEF S, g, L
  <1>5. c \in 1 .. L + 1 /\ \A m \in 1 .. L : g[m] <= d[a] <=> m < c
    <2>1. PICK v : v = d[a]  OBVIOUS
    <2>2. v \in Int  BY <1>1, <2>1
    <2>3. /\ Cardinality(NotAbove(g, L, v)) + 1 \in 1 .. L + 1
          /\ \A n \in 1 .. L : g[n] <= v <=> n < Cardinality(NotAbove(g, L, v)) + 1
          /\ Above(g, L, v) = {} <=> Cardinality(NotAbove(g, L, v)) + 1 = L + 1
          /\ Above(g, L, v) # {} => Min(Above(g, L, v)) = Cardinality(NotAbove(g, L, v)) + 1
      BY ONLY <1>1, <1>2, <1>3, <2>2, PlaceOf
    <2> QED BY <1>4, <2>1, <2>3
  <1>6. Cardinality(S) \in Int
    <2>1. IsFiniteSet(S)
      <3>1. S \subseteq 1 .. L  BY <1>1 DEF S
      <3>2. IsFiniteSet(1 .. L)  BY <1>1, FS_Interval
      <3> QED BY <3>1, <3>2, FS_Subset
    <2> QED BY <2>1, FS_CardinalityType
  <1>7. /\ Cardinality(S) \in 0 .. L
        /\ \A m \in 1 .. L : d[q[m]] <= d[a] <=> m <= Cardinality(S)
    <2>1. \A m \in 1 .. L : m < c <=> m <= Cardinality(S)  BY <1>1, <1>6
    <2>2. \A m \in 1 .. L : d[q[m]] <= d[a] <=> m < c  BY <1>2, <1>5
    <2>3. Cardinality(S) \in 0 .. L  BY <1>1, <1>5, <1>6
    <2> QED BY <2>1, <2>2, <2>3
  <1> QED BY <1>7 DEF S, L

LEMMA InsertOrders ==
  ASSUME NEW q, NEW d, Ordered(q, d), NEW a \in Records, ~Holds(q, a)
  PROVE  /\ Ordered(Inserted(q, d, a), d)
         /\ Holds(Inserted(q, d, a), a)
         /\ \A b : Holds(q, b) => Holds(Inserted(q, d, a), b)
         /\ \A b : Holds(Inserted(q, d, a), b) => b = a \/ Holds(q, b)
  <1> DEFINE L == Len(q)
             n == Cardinality({m \in DOMAIN q : d[q[m]] <= d[a]})
             r == Inserted(q, d, a)
  <1>1. /\ n \in 0 .. L /\ \A m \in 1 .. L : d[q[m]] <= d[a] <=> m <= n
    BY PlaceOfInsert
  <1>2. r = SubSeq(q, 1, n) \o <<a>> \o SubSeq(q, n + 1, L)
    BY DEF Inserted
  <1>3. L \in Nat /\ q \in Seq(Records) /\ d[a] \in Int
        /\ \A m \in 1 .. L : q[m] \in Records /\ d[q[m]] \in Int
    BY DEF Ordered
  <1> HIDE DEF n, r
  <1>4. /\ r \in Seq(Records) /\ Len(r) = L + 1
        /\ \A m \in 1 .. L + 1 : r[m] = IF m <= n THEN q[m]
                                        ELSE IF m = n + 1 THEN a ELSE q[m - 1]
    <2> DEFINE x == SubSeq(q, 1, n)
               y == SubSeq(q, n + 1, L)
    <2>1. x \in Seq(Records) /\ Len(x) = n /\ \A m \in 1 .. n : x[m] = q[m]
      BY <1>1, <1>3
    <2>2. y \in Seq(Records) /\ Len(y) = L - n
          /\ \A m \in 1 .. L - n : y[m] = q[n + m]
      BY <1>1, <1>3
    <2> HIDE DEF x, y
    <2> DEFINE z == x \o <<a>>
    <2>3. z \in Seq(Records) /\ Len(z) = n + 1
          /\ \A m \in 1 .. n + 1 : z[m] = IF m <= n THEN q[m] ELSE a
      BY <1>1, <2>1
    <2> HIDE DEF z
    <2>4. r = z \o y  BY <1>2 DEF x, y, z
    <2>5. /\ r \in Seq(Records) /\ Len(r) = L + 1
          /\ \A m \in 1 .. L + 1 : r[m] = IF m <= n + 1 THEN z[m]
                                          ELSE y[m - (n + 1)]
      <3>1. /\ z \o y \in Seq(Records) /\ Len(z \o y) = Len(z) + Len(y)
            /\ \A m \in 1 .. Len(z) + Len(y) :
                 (z \o y)[m] = IF m <= Len(z) THEN z[m] ELSE y[m - Len(z)]
        BY <2>2, <2>3, ConcatProperties
      <3>2. Len(z) + Len(y) = L + 1  BY <1>1, <1>3, <2>2, <2>3
      <3> HIDE DEF L
      <3> QED BY <2>3, <2>4, <3>1, <3>2
    <2>6. ASSUME NEW m \in 1 .. L + 1
          PROVE  r[m] = IF m <= n THEN q[m] ELSE IF m = n + 1 THEN a ELSE q[m - 1]
      <3>1. CASE m <= n + 1
        <4>1. r[m] = z[m]  BY <2>5, <3>1
        <4> QED BY <1>1, <1>3, <2>3, <3>1, <4>1
      <3>2. CASE m > n + 1
        <4>1. r[m] = y[m - (n + 1)]  BY <1>1, <1>3, <2>5, <3>2
        <4>2. m - (n + 1) \in 1 .. L - n  BY <1>1, <1>3, <3>2
        <4>3. n + (m - (n + 1)) = m - 1  BY <1>1, <3>2
        <4> QED BY <1>1, <2>2, <3>2, <4>1, <4>2, <4>3
      <3> QED BY <1>1, <1>3, <3>1, <3>2
    <2> QED BY <2>5, <2>6
  <1>5. \A m \in 1 .. L : q[m] # a  BY DEF Holds
  <1>6. ASSUME NEW i \in 1 .. L + 1, NEW j \in 1 .. L + 1, i < j
        PROVE  d[r[i]] <= d[r[j]] /\ r[i] # r[j]
    <2>1. CASE j <= n
      <3>1. i \in 1 .. L /\ j \in 1 .. L /\ r[i] = q[i] /\ r[j] = q[j]
        BY <1>1, <1>3, <1>4, <1>6, <2>1
      <3> QED BY <1>6, <3>1 DEF Ordered
    <2>2. CASE j = n + 1
      <3>1. i \in 1 .. L /\ i <= n /\ r[i] = q[i] /\ r[j] = a
        BY <1>1, <1>3, <1>4, <1>6, <2>2
      <3> QED BY <1>1, <1>5, <3>1
    <2>3. CASE j > n + 1 /\ i = n + 1
      <3>1. j - 1 \in 1 .. L /\ ~(j - 1 <= n) /\ r[j] = q[j - 1] /\ r[i] = a
        BY <1>1, <1>3, <1>4, <2>3
      <3> QED BY <1>1, <1>3, <1>5, <3>1
    <2>4. CASE j > n + 1 /\ i <= n
      <3>1. /\ j - 1 \in 1 .. L /\ i \in 1 .. L /\ i < j - 1
            /\ r[j] = q[j - 1] /\ r[i] = q[i]
        BY <1>1, <1>3, <1>4, <2>4
      <3> QED BY <3>1 DEF Ordered
    <2>5. CASE j > n + 1 /\ i > n + 1
      <3>1. /\ j - 1 \in 1 .. L /\ i - 1 \in 1 .. L /\ i - 1 < j - 1
            /\ r[j] = q[j - 1] /\ r[i] = q[i - 1]
        BY <1>1, <1>3, <1>4, <1>6, <2>5
      <3> QED BY <3>1 DEF Ordered
    <2> QED BY <1>1, <1>3, <2>1, <2>2, <2>3, <2>4, <2>5
  <1>7. Ordered(r, d)  BY <1>4, <1>6 DEF Ordered
  <1>8. Holds(r, a)
    <2>1. n + 1 \in 1 .. L + 1 /\ r[n + 1] = a  BY <1>1, <1>3, <1>4
    <2> QED BY <1>4, <2>1 DEF Holds
  <1>9. ASSUME NEW b, Holds(q, b)
        PROVE  Holds(r, b)
    <2>1. PICK m \in 1 .. L : q[m] = b  BY <1>9 DEF Holds
    <2>2. CASE m <= n
      <3>1. m \in 1 .. L + 1 /\ r[m] = b  BY <1>3, <1>4, <2>1, <2>2
      <3> QED BY <1>4, <3>1 DEF Holds
    <2>3. CASE m > n
      <3>1. m + 1 \in 1 .. L + 1 /\ ~(m + 1 <= n) /\ m + 1 # n + 1
            /\ (m + 1) - 1 = m
        BY <1>1, <1>3, <2>3
      <3>2. r[m + 1] = b  BY <1>4, <2>1, <3>1
      <3> QED BY <1>4, <3>1, <3>2 DEF Holds
    <2> QED BY <1>1, <1>3, <2>2, <2>3
  <1>10. ASSUME NEW b, Holds(r, b)
         PROVE  b = a \/ Holds(q, b)
    <2>1. PICK m \in 1 .. L + 1 : r[m] = b  BY <1>4, <1>10 DEF Holds
    <2>2. CASE m <= n
      <3>1. m \in 1 .. L /\ q[m] = b  BY <1>1, <1>3, <1>4, <2>1, <2>2
      <3> QED BY <3>1 DEF Holds
    <2>3. CASE m = n + 1
      BY <1>1, <1>3, <1>4, <2>1, <2>3
    <2>4. CASE m > n + 1
      <3>1. m - 1 \in 1 .. L /\ q[m - 1] = b  BY <1>1, <1>3, <1>4, <2>1, <2>4
      <3> QED BY <3>1 DEF Holds
    <2> QED BY <1>1, <1>3, <2>1, <2>2, <2>3, <2>4
  <1> QED BY <1>7, <1>8, <1>9, <1>10 DEF r

(* A queue without its first, or without one of its alarms.                *)
LEMMA TailOrders ==
  ASSUME NEW q, NEW d, Ordered(q, d), q # <<>>
  PROVE  /\ Head(q) \in Records /\ Holds(q, Head(q))
         /\ Ordered(Tail(q), d) /\ ~Holds(Tail(q), Head(q))
         /\ \A b : Holds(q, b) => b = Head(q) \/ Holds(Tail(q), b)
  <1> DEFINE r == Tail(q)
             L == Len(q)
  <1>1. /\ L \in Nat /\ L >= 1 /\ Head(q) = q[1] /\ q[1] \in Records
        /\ r \in Seq(Records) /\ Len(r) = L - 1
        /\ \A m \in 1 .. L - 1 : r[m] = q[m + 1] /\ m + 1 \in 1 .. L
    BY DEF Ordered
  <1> HIDE DEF r
  <1>2. ASSUME NEW m \in 1 .. L - 1, NEW n \in 1 .. L - 1, m < n
        PROVE  d[r[m]] <= d[r[n]] /\ r[m] # r[n]
    <2>1. m + 1 < n + 1 /\ m + 1 \in 1 .. L /\ n + 1 \in 1 .. L  BY <1>1, <1>2
    <2>2. r[m] = q[m + 1] /\ r[n] = q[n + 1]  BY <1>1
    <2>3. d[q[m + 1]] <= d[q[n + 1]] /\ q[m + 1] # q[n + 1]  BY <2>1 DEF Ordered
    <2> QED BY ONLY <2>2, <2>3
  <1>3. Ordered(r, d)  BY <1>1, <1>2 DEF Ordered
  <1>4. ~Holds(r, q[1])
    <2>1. \A m \in 1 .. L - 1 : 1 < m + 1 /\ 1 \in 1 .. L  BY <1>1
    <2> QED BY <1>1, <2>1 DEF Holds, Ordered
  <1>5. ASSUME NEW b, Holds(q, b), b # q[1]
        PROVE  Holds(r, b)
    <2>1. PICK m \in 1 .. L : q[m] = b  BY <1>5 DEF Holds
    <2>2. m - 1 \in 1 .. L - 1 /\ (m - 1) + 1 = m  BY <1>1, <1>5, <2>1
    <2>3. r[m - 1] = b  BY <1>1, <2>1, <2>2
    <2> QED BY <1>1, <2>2, <2>3 DEF Holds
  <1> QED BY <1>1, <1>3, <1>4, <1>5 DEF r, Holds

LEMMA WithoutOrders ==
  ASSUME NEW q, NEW d, Ordered(q, d), NEW a, Holds(q, a)
  PROVE  /\ Ordered(Without(q, a), d)
         /\ \A b : b # a /\ Holds(q, b) => Holds(Without(q, a), b)
         /\ \A b : Holds(Without(q, a), b) => Holds(q, b)
  <1> DEFINE L == Len(q)
             r == Without(q, a)
  <1>1. L \in Nat /\ DOMAIN q = 1 .. L /\ q \in Seq(Records)
    BY DEF Ordered
  <1>2. PICK n \in 1 .. L : /\ q[n] = a
                            /\ r = SubSeq(q, 1, n - 1) \o SubSeq(q, n + 1, L)
    BY <1>1 DEF Without, Holds
  <1> HIDE DEF r
  <1>3. /\ r \in Seq(Records) /\ Len(r) = L - 1
        /\ \A m \in 1 .. L - 1 : r[m] = IF m < n THEN q[m] ELSE q[m + 1]
    <2> DEFINE x == SubSeq(q, 1, n - 1)
               y == SubSeq(q, n + 1, L)
    <2>1. x \in Seq(Records) /\ Len(x) = n - 1 /\ \A m \in 1 .. n - 1 : x[m] = q[m]
      <3>1. n - 1 \in 0 .. L  BY <1>1
      <3> QED BY <1>1, <3>1
    <2>2. y \in Seq(Records) /\ Len(y) = L - n
          /\ \A m \in 1 .. L - n : y[m] = q[n + m]
      <3>1. n + 1 \in Int /\ L \in Int /\ \A m \in n + 1 .. L : q[m] \in Records
        BY <1>1
      <3>2. /\ y \in Seq(Records)
            /\ Len(y) = IF n + 1 <= L THEN L - (n + 1) + 1 ELSE 0
            /\ \A m \in 1 .. L - (n + 1) + 1 : y[m] = q[(n + 1) + m - 1]
        BY <3>1, SubSeqProperties
      <3> HIDE DEF y, L
      <3>3. L - (n + 1) + 1 = L - n /\ \A m \in Int : (n + 1) + m - 1 = n + m
        BY <1>1
      <3> QED BY <1>1, <3>2, <3>3
    <2>3. r = x \o y  BY <1>2
    <2> HIDE DEF x, y
    <2>4. /\ r \in Seq(Records) /\ Len(r) = L - 1
          /\ \A m \in 1 .. L - 1 : r[m] = IF m <= n - 1 THEN x[m]
                                          ELSE y[m - (n - 1)]
      <3>1. /\ x \o y \in Seq(Records) /\ Len(x \o y) = Len(x) + Len(y)
            /\ \A m \in 1 .. Len(x) + Len(y) :
                 (x \o y)[m] = IF m <= Len(x) THEN x[m] ELSE y[m - Len(x)]
        BY <2>1, <2>2, ConcatProperties
      <3>2. Len(x) + Len(y) = L - 1  BY <1>1, <2>1, <2>2
      <3> HIDE DEF L
      <3> QED BY <2>1, <2>3, <3>1, <3>2
    <2>5. ASSUME NEW m \in 1 .. L - 1
          PROVE  r[m] = IF m < n THEN q[m] ELSE q[m + 1]
      <3>1. CASE m < n
        <4>1. r[m] = x[m]  BY <1>1, <2>4, <3>1
        <4> QED BY <2>1, <3>1, <4>1
      <3>2. CASE m >= n
        <4>1. r[m] = y[m - (n - 1)]  BY <1>1, <2>4, <3>2
        <4>2. m - (n - 1) \in 1 .. L - n /\ n + (m - (n - 1)) = m + 1
          BY <1>1, <3>2
        <4> QED BY <2>2, <3>2, <4>1, <4>2
      <3> QED BY <1>1, <3>1, <3>2
    <2> QED BY <2>4, <2>5
  <1>4. ASSUME NEW i \in 1 .. L - 1, NEW j \in 1 .. L - 1, i < j
        PROVE  d[r[i]] <= d[r[j]] /\ r[i] # r[j]
    <2>1. PICK x \in {i, i + 1} : x \in 1 .. L /\ r[i] = q[x] /\ (x = i <=> i < n)
      BY <1>1, <1>3
    <2>2. PICK y \in {j, j + 1} : y \in 1 .. L /\ r[j] = q[y] /\ (y = j <=> j < n)
      BY <1>1, <1>3
    <2>3. x < y  BY <1>1, <1>4, <2>1, <2>2
    <2> QED BY <2>1, <2>2, <2>3 DEF Ordered
  <1>5. Ordered(r, d)  BY <1>3, <1>4 DEF Ordered
  <1>6. ASSUME NEW b, b # a, Holds(q, b)
        PROVE  Holds(r, b)
    <2>1. PICK m \in 1 .. L : q[m] = b  BY <1>6 DEF Holds
    <2>2. CASE m < n
      <3>1. m \in 1 .. L - 1 /\ r[m] = b  BY <1>1, <1>3, <2>1, <2>2
      <3> QED BY <1>3, <3>1 DEF Holds
    <2>3. CASE m > n
      <3>1. m - 1 \in 1 .. L - 1 /\ ~(m - 1 < n) /\ (m - 1) + 1 = m
        BY <1>1, <2>3
      <3>2. r[m - 1] = b  BY <1>3, <2>1, <3>1
      <3> QED BY <1>3, <3>1, <3>2 DEF Holds
    <2> QED BY <1>2, <1>6, <2>1, <2>2, <2>3
  <1>7. ASSUME NEW b, Holds(r, b)
        PROVE  Holds(q, b)
    <2>1. PICK m \in 1 .. L - 1 : r[m] = b  BY <1>3, <1>7 DEF Holds
    <2>2. r[m] \in {q[m], q[m + 1]} /\ m \in 1 .. L /\ m + 1 \in 1 .. L
      BY <1>1, <1>3
    <2> QED BY <2>1, <2>2 DEF Holds
  <1> QED BY <1>5, <1>6, <1>7 DEF r

(* A deadline of an alarm that is not queued does not matter.              *)
LEMMA OtherDeadline ==
  ASSUME NEW q, NEW d, Ordered(q, d), NEW a \in Records, ~Holds(q, a), NEW n \in Int
  PROVE  Ordered(q, [d EXCEPT ![a] = n])
  <1>1. \A m \in 1 .. Len(q) : q[m] \in Records /\ q[m] # a  BY DEF Ordered, Holds
  <1> QED BY <1>1 DEF Ordered

(* The inductive invariant of the queue.                                   *)
QueueInv ==
    /\ Ordered(queue, deadline) /\ Holds(queue, Permanent)
    /\ now \in Nat /\ seen \in Nat

LEMMA ClockTyped ==
  /\ Period * Epochs \in Nat /\ Period * Epochs > 0
  /\ \A a, b \in Int : Plus(a, b) \in Nat /\ Minus(a, b) \in Nat
  <1>1. Period \in Nat /\ Epochs \in Nat /\ Period > 0 /\ Epochs > 0
    BY AlarmAssumption
  <1>2. Period * Epochs \in Nat /\ Period * Epochs > 0  BY <1>1
  <1> DEFINE m == Period * Epochs
  <1> HIDE DEF m
  <1>3. \A x \in Int : m \in Nat /\ m > 0 => x % m \in Nat
    OBVIOUS
  <1> QED BY <1>2, <1>3 DEF m, Plus, Minus

LEMMA ReadingTyped ==
  ASSUME now \in Nat, seen \in Nat
  PROVE  ReadClock \in Nat
  <1> DEFINE low == now % Period
             w == seen \div Period + (IF low < seen % Period THEN 1 ELSE 0)
             v == w * Period
             m == Period * Epochs
  <1>1. Period \in Nat /\ Period > 0  BY AlarmAssumption
  <1>2. low \in Nat /\ seen \div Period \in Nat /\ seen % Period \in Nat
    BY <1>1
  <1>3. m \in Nat /\ m > 0  BY ClockTyped
  <1>4. w \in Int  BY <1>2
  <1>5. ReadClock = (v + low) % m  BY DEF ReadClock
  <1> HIDE DEF w, m, low
  <1>6. v \in Int  BY <1>1, <1>4
  <1> HIDE DEF v
  <1>7. (v + low) \in Int  BY <1>2, <1>6
  <1>8. \A x \in Int : x % m \in Nat  BY <1>3
  <1> QED BY <1>5, <1>7, <1>8

LEMMA QueueInit == Init => QueueInv
  <1> SUFFICES ASSUME Init PROVE QueueInv  OBVIOUS
  <1>1. /\ now = 0 /\ seen = 0 /\ queue = <<Permanent>>
        /\ deadline = [a \in Records |-> IF a = Permanent THEN Minus(0, Seed) ELSE 0]
    BY DEF Init
  <1>2. Minus(0, Seed) \in Nat
    BY ClockTyped, AlarmAssumption
  <1>3. queue \in Seq(Records) /\ Len(queue) = 1 /\ queue[1] = Permanent
    BY <1>1 DEF Records
  <1>4. deadline \in [Records -> Int]  BY <1>1, <1>2
  <1>5. \A m, n \in 1 .. Len(queue) : ~(m < n)  BY <1>3
  <1>6. Holds(queue, Permanent)  BY <1>3 DEF Holds
  <1> QED BY <1>1, <1>3, <1>4, <1>5, <1>6 DEF QueueInv, Ordered

LEMMA QueuedHolds ==
  ASSUME NEW d, Ordered(queue, d)
  PROVE  \A a : a \in Queued <=> Holds(queue, a)
  BY DEF Queued, Holds, Ordered

LEMMA SetAlarmKeeps ==
  ASSUME QueueInv, NEW a \in Alarm, NEW delta \in Deltas, SetAlarm(a, delta)
  PROVE  QueueInv'
  <1> DEFINE x == IF delta < Granularity THEN Granularity ELSE delta
             n == Plus(ReadClock, x)
             d == [deadline EXCEPT ![a] = n]
  <1>1. /\ queue' = Inserted(queue, d, a) /\ deadline' = d /\ now' = now
        /\ seen' = ReadClock /\ a \notin Queued
    BY DEF SetAlarm
  <1>2. ReadClock \in Nat /\ n \in Nat
    <2>1. ReadClock \in Nat  BY ReadingTyped DEF QueueInv
    <2>2. delta \in Nat /\ Granularity \in Nat  BY AlarmAssumption
    <2>3. x \in Int /\ ReadClock \in Int  BY <2>1, <2>2
    <2> HIDE DEF x
    <2> QED BY <2>1, <2>3, ClockTyped
  <1>3. a \in Records /\ ~Holds(queue, a)
    BY <1>1, QueuedHolds DEF QueueInv, Records
  <1> HIDE DEF n
  <1>4. Ordered(queue, d)  BY <1>2, <1>3, OtherDeadline DEF QueueInv
  <1> HIDE DEF d
  <1>5. Ordered(queue', deadline') /\ Holds(queue', Permanent)
    BY <1>1, <1>3, <1>4, InsertOrders DEF QueueInv
  <1> QED BY <1>1, <1>2, <1>5 DEF QueueInv, Ordered, Holds

LEMMA CancelAlarmKeeps ==
  ASSUME QueueInv, NEW a \in Alarm, CancelAlarm(a)
  PROVE  QueueInv'
  <1>1. /\ queue' = Without(queue, a) /\ deadline' = deadline /\ now' = now
        /\ seen' = seen /\ a \in Queued
    BY DEF CancelAlarm
  <1>2. Holds(queue, a) /\ Permanent # a
    BY <1>1, QueuedHolds, AlarmAssumption DEF QueueInv
  <1>3. Ordered(queue', deadline') /\ Holds(queue', Permanent)
    BY <1>1, <1>2, WithoutOrders DEF QueueInv
  <1> QED BY <1>1, <1>3 DEF QueueInv, Ordered, Holds

(* The first alarm leaves the queue, and comes back with a later deadline  *)
(* unless its callback lets it go, which the permanent one's does not.     *)
LEMMA FireAlarmKeeps ==
  ASSUME QueueInv, NEW again \in Nat, FireAlarm(again)
  PROVE  QueueInv'
  <1> DEFINE a == Head(queue)
             more == IF a = Permanent THEN Period
                     ELSE IF again < Coalesce THEN again ELSE Coalesce
             n == Plus(deadline[a], more)
             d == [deadline EXCEPT ![a] = n]
  <1>1. queue # <<>> /\ now' = now /\ seen' = ReadClock
    BY DEF FireAlarm, Due
  <1>2. /\ a \in Records /\ Ordered(Tail(queue), deadline) /\ ~Holds(Tail(queue), a)
        /\ Permanent # a => Holds(Tail(queue), Permanent)
    BY <1>1, TailOrders DEF QueueInv
  <1>3. ReadClock \in Nat  BY ReadingTyped DEF QueueInv
  <1>4. /\ Period \in Nat /\ Period > 0 /\ Coalesce \in Nat
    BY AlarmAssumption DEF Coalesce
  <1>5. more \in Nat /\ (more = 0 => a # Permanent)  BY <1>4
  <1>6. n \in Nat
    <2>1. deadline[a] \in Int  BY <1>2 DEF QueueInv, Ordered
    <2>2. more \in Int  BY <1>5
    <2> HIDE DEF more
    <2> QED BY <2>1, <2>2, ClockTyped
  <1>7. IF more = 0 THEN queue' = Tail(queue) /\ deadline' = deadline
        ELSE queue' = Inserted(Tail(queue), d, a) /\ deadline' = d
    BY <1>2 DEF FireAlarm, QueueInv, Ordered
  <1> HIDE DEF more, n, a
  <1>8. CASE more = 0
    <2>1. Ordered(queue', deadline') /\ Holds(queue', Permanent)
      BY <1>2, <1>5, <1>7, <1>8
    <2> QED BY <1>1, <1>3, <2>1 DEF QueueInv, Ordered, Holds
  <1>9. CASE more # 0
    <2>1. Ordered(Tail(queue), d)  BY <1>2, <1>6, OtherDeadline
    <2>2. queue' = Inserted(Tail(queue), d, a) /\ deadline' = d  BY <1>7, <1>9
    <2> HIDE DEF d
    <2>3. Ordered(queue', deadline') /\ Holds(queue', Permanent)
      BY <1>2, <2>1, <2>2, InsertOrders
    <2> QED BY <1>1, <1>3, <2>3 DEF QueueInv, Ordered, Holds
  <1> QED BY <1>8, <1>9

LEMMA QueueNext ==
  ASSUME QueueInv, [Next]_vars
  PROVE  QueueInv'
  <1>1. ASSUME NEW a \in Alarm, CancelAlarm(a) PROVE QueueInv'
    BY <1>1, CancelAlarmKeeps
  <1>2. ASSUME NEW a \in Alarm, NEW delta \in Deltas, SetAlarm(a, delta)
        PROVE  QueueInv'
    BY <1>2, SetAlarmKeeps
  <1>3. ASSUME NEW again \in {0, 1, Coalesce + 1}, FireAlarm(again) PROVE QueueInv'
    <2>1. again \in Nat  BY AlarmAssumption DEF Coalesce
    <2> QED BY <1>3, <2>1, FireAlarmKeeps
  <1>4. CASE EnterHandler \/ LeaveHandler
    <2>1. /\ queue' = queue /\ deadline' = deadline /\ now' = now
          /\ seen' = ReadClock
      BY <1>4 DEF EnterHandler, LeaveHandler
    <2>2. seen' \in Nat  BY <2>1, ReadingTyped DEF QueueInv
    <2> QED BY <2>1, <2>2 DEF QueueInv, Ordered, Holds
  <1>5. CASE WriteCompare \/ Tick
    <2>1. /\ queue' = queue /\ deadline' = deadline /\ now' \in {now, now + 1}
          /\ seen' = seen
      BY <1>5 DEF WriteCompare, Tick
    <2> QED BY <2>1 DEF QueueInv, Ordered, Holds
  <1>6. CASE UNCHANGED vars
    BY <1>6 DEF vars, QueueInv, Ordered, Holds
  <1> QED BY <1>1, <1>2, <1>3, <1>4, <1>5, <1>6 DEF Next

(* The alarm queue is in the order of its deadlines, with no alarm in it   *)
(* twice and the permanent one always in it, for any alarms, periods and   *)
(* delays: an alarm set or fired again goes behind those that are not      *)
(* later, whatever callbacks and calls cancel and set meanwhile.           *)
THEOREM AlarmsInOrder == Spec => []QueueSorted
  <1>1. Init => QueueInv  BY QueueInit
  <1>2. QueueInv /\ [Next]_vars => QueueInv'  BY QueueNext
  <1>3. QueueInv => QueueSorted
    <2> SUFFICES ASSUME QueueInv PROVE QueueSorted  OBVIOUS
    <2>1. Permanent \in Queued  BY QueuedHolds DEF QueueInv
    <2> QED BY <2>1 DEF QueueInv, Ordered, QueueSorted
  <1> QED BY <1>1, <1>2, <1>3, PTL DEF Spec

-----------------------------------------------------------------------------
(***************************************************************************)
(* The clock loses no wrap, and the timer's interrupt is never late for    *)
(* the alarms.  Between two readings the counter may not go all the way    *)
(* round, and what prevents it is the earlier of two interrupts: the wrap  *)
(* itself, unless the last reading was just behind a wrap; and then the    *)
(* target, which is no period away, since the permanent alarm stands for a *)
(* moment Seed before the end of each period and every other alarm was set *)
(* for less than a period.                                                 *)
(***************************************************************************)

(* A quotient and a remainder make the number, and no other remainder does. *)
LEMMA RemainderOf ==
  ASSUME NEW b \in Nat \ {0}, NEW x \in Int
  PROVE  x % b \in 0..b - 1 /\ x \div b \in Int /\ x = b * (x \div b) + (x % b)
  <1>1. x % b \in Int /\ x % b >= 0  OBVIOUS
  <1>2. x % b < b  OBVIOUS
  <1>3. x \div b \in Int  OBVIOUS
  <1>4. x = b * (x \div b) + (x % b)  OBVIOUS
  <1> QED BY <1>1, <1>2, <1>3, <1>4

(* Of the multiples of b only nothing is nearer to nothing than b.         *)
LEMMA NoMultiple ==
  ASSUME NEW b \in Nat \ {0}, NEW k \in Int, -b < b * k, b * k < b
  PROVE  k = 0
  <1>1. b * k \in Int  OBVIOUS
  <1>2. CASE k >= 1
    <2>1. b * k >= b  BY <1>2
    <2> QED BY <1>1, <2>1
  <1>3. CASE k <= -1
    <2>1. b * k <= -b  BY <1>3
    <2> QED BY <1>1, <2>1
  <1> QED BY <1>2, <1>3

LEMMA RemainderIs ==
  ASSUME NEW b \in Nat \ {0}, NEW q \in Int, NEW r \in 0..b - 1
  PROVE  (b * q + r) % b = r
  <1> DEFINE x == b * q + r
             d == x \div b
             m == x % b
  <1>1. b * q \in Int /\ x \in Int  OBVIOUS
  <1>2. m \in 0..b - 1 /\ d \in Int /\ x = b * d + m  BY <1>1, RemainderOf
  <1> HIDE DEF d, m
  <1>3. b * d \in Int /\ b * q - b * d = m - r  BY <1>1, <1>2
  <1>4. b * (q - d) = b * q - b * d  BY <1>2
  <1>5. q - d \in Int /\ -b < b * (q - d) /\ b * (q - d) < b
    BY <1>1, <1>2, <1>3, <1>4
  <1>6. q - d = 0  BY <1>5, NoMultiple
  <1>7. q = d  BY <1>2, <1>6
  <1> QED BY <1>2, <1>7 DEF m

(* The remainder of what is not negative is no more than it.               *)
LEMMA RemainderAtMost ==
  ASSUME NEW b \in Nat \ {0}, NEW x \in Nat
  PROVE  x % b <= x
  <1> DEFINE d == x \div b
             m == x % b
  <1>1. m \in 0..b - 1 /\ d \in Int /\ x = b * d + m  BY RemainderOf
  <1> HIDE DEF d, m
  <1>2. b * d \in Int  BY <1>1
  <1>3. CASE d >= 0
    <2>1. b * d >= 0  BY <1>1, <1>3
    <2> QED BY <1>1, <1>2, <2>1 DEF m
  <1>4. CASE d <= -1
    <2>1. b * d <= -b  BY <1>1, <1>4
    <2> QED BY <1>1, <1>2, <2>1
  <1> QED BY <1>1, <1>3, <1>4

(* The ticks from t on until the counter equals v again.                   *)
UpTo(v, t) == 1 + ((v - t - 1) % Period)

LEMMA UpToIs ==
  ASSUME NEW v \in Int, NEW t \in Int
  PROVE  /\ UpTo(v, t) \in 1 .. Period
         /\ \E k \in Int : Period * k \in Int /\ v - t = Period * k + UpTo(v, t)
  <1> DEFINE x == v - t - 1
             k == x \div Period
             m == x % Period
  <1>1. Period \in Nat \ {0} /\ x \in Int  BY AlarmAssumption
  <1>2. m \in 0 .. Period - 1 /\ k \in Int /\ x = Period * k + m
    BY <1>1, RemainderOf
  <1>3. UpTo(v, t) = 1 + m  BY DEF UpTo
  <1> HIDE DEF m, k
  <1>4. Period * k \in Int  BY <1>1, <1>2
  <1>5. v - t = Period * k + UpTo(v, t)  BY <1>2, <1>3, <1>4
  <1> QED BY <1>1, <1>2, <1>3, <1>4, <1>5

(* And they are the only number of ticks within a period that leads there. *)
LEMMA UpToOnly ==
  ASSUME NEW v \in Int, NEW t \in Int, NEW k \in Int, NEW u \in 1 .. Period,
         v - t = Period * k + u
  PROVE  UpTo(v, t) = u
  <1>1. Period \in Nat \ {0} /\ Period * k \in Int  BY AlarmAssumption
  <1>2. u - 1 \in 0 .. Period - 1 /\ v - t - 1 = Period * k + (u - 1)  BY <1>1
  <1>3. (Period * k + (u - 1)) % Period = u - 1  BY <1>1, <1>2, RemainderIs
  <1> QED BY <1>2, <1>3 DEF UpTo

(* At the last of them the counter equals v; before it one less is left.   *)
LEMMA UpToTick ==
  ASSUME NEW v \in 0 .. Period - 1, NEW t \in Int
  PROVE  /\ UpTo(v, t) = 1 => (t + 1) % Period = v
         /\ UpTo(v, t) # 1 => UpTo(v, t + 1) = UpTo(v, t) - 1
  <1>1. Period \in Nat \ {0}  BY AlarmAssumption
  <1>2. PICK u : u = UpTo(v, t)  OBVIOUS
  <1>3. PICK k \in Int : Period * k \in Int /\ v - t = Period * k + u
    BY <1>2, UpToIs
  <1>4. u \in 1 .. Period  BY <1>2, UpToIs
  <1>5. ASSUME u = 1  PROVE (t + 1) % Period = v
    <2>1. Period * (-k) = -(Period * k) /\ -k \in Int  BY <1>1, <1>3
    <2>2. t + 1 = Period * (-k) + v  BY <1>3, <1>5, <2>1
    <2>3. (Period * (-k) + v) % Period = v  BY <1>1, <2>1, RemainderIs
    <2> QED BY <2>2, <2>3
  <1>6. ASSUME u # 1  PROVE UpTo(v, t + 1) = u - 1
    <2>1. u - 1 \in 1 .. Period /\ v - (t + 1) = Period * k + (u - 1) /\ t + 1 \in Int
      BY <1>1, <1>3, <1>4, <1>6
    <2>2. v \in Int  BY <1>1
    <2> QED BY <1>3, <2>1, <2>2, UpToOnly
  <1> QED BY <1>2, <1>5, <1>6

(* The counter equals d's remainder when d comes, or before.               *)
LEMMA UpToMoment ==
  ASSUME NEW d \in Nat, NEW t \in Nat, d > t
  PROVE  d % Period \in 0 .. Period - 1 /\ UpTo(d % Period, t) <= d - t
  <1>1. Period \in Nat \ {0}  BY AlarmAssumption
  <1>2. PICK v, q : v = d % Period /\ q = d \div Period  OBVIOUS
  <1>3. v \in 0 .. Period - 1 /\ q \in Int /\ d = Period * q + v
    BY <1>1, <1>2, RemainderOf
  <1>4. PICK u : u = UpTo(v, t)  OBVIOUS
  <1>5. v \in Int /\ t \in Int  BY <1>1, <1>3
  <1>6. PICK k \in Int : Period * k \in Int /\ v - t = Period * k + u
    BY <1>4, <1>5, UpToIs
  <1>7. u \in 1 .. Period  BY <1>4, <1>5, UpToIs
  <1>8. Period * q \in Int /\ k + q \in Int
        /\ Period * (k + q) = Period * k + Period * q
    BY <1>1, <1>3, <1>6
  <1>9. d - t = Period * (k + q) + u  BY <1>3, <1>6, <1>7, <1>8
  <1>10. Period * (k + q) \in Int  BY <1>6, <1>8
  <1>11. Period * (k + q) >= 0
    <2>1. CASE k + q >= 0  BY <1>1, <1>8, <2>1
    <2>2. CASE k + q <= -1
      <3>1. Period * (k + q) <= -Period  BY <1>1, <1>8, <2>2
      <3> QED BY <1>1, <1>7, <1>9, <1>10, <3>1
    <2> QED BY <1>8, <2>1, <2>2
  <1>12. u <= d - t  BY <1>7, <1>9, <1>10, <1>11
  <1> QED BY <1>2, <1>3, <1>4, <1>12

(* Within one turn of the counter.                                         *)
LEMMA UpToPhase ==
  ASSUME NEW v \in 0 .. Period - 1, NEW t \in Nat
  PROVE  /\ t % Period \in 0 .. Period - 1
         /\ t % Period < v => UpTo(v, t) = v - (t % Period)
         /\ UpTo(0, t) = Period - (t % Period)
  <1>1. Period \in Nat \ {0} /\ v \in Int /\ t \in Int /\ 0 \in Int
    BY AlarmAssumption
  <1>2. PICK f, q : f = t % Period /\ q = t \div Period  OBVIOUS
  <1>3. f \in 0 .. Period - 1 /\ q \in Int /\ t = Period * q + f
    BY <1>1, <1>2, RemainderOf
  <1>4. /\ -q \in Int /\ Period * (-q) = -(Period * q) /\ Period * q \in Int
        /\ -q - 1 \in Int /\ Period * (-q - 1) = -(Period * q) - Period
    BY <1>1, <1>3
  <1>5. ASSUME f < v  PROVE UpTo(v, t) = v - f
    <2>1. PICK u, k : u = v - f /\ k = -q  OBVIOUS
    <2>2. k \in Int /\ u \in 1 .. Period /\ v - t = Period * k + u
      BY <1>1, <1>3, <1>4, <1>5, <2>1
    <2>3. UpTo(v, t) = u  BY ONLY <1>1, <2>2, UpToOnly
    <2> QED BY <2>1, <2>3
  <1>6. UpTo(0, t) = Period - f
    <2>1. PICK u, k : u = Period - f /\ k = -q - 1  OBVIOUS
    <2>2. k \in Int /\ u \in 1 .. Period /\ 0 - t = Period * k + u
      BY <1>1, <1>3, <1>4, <2>1
    <2>3. UpTo(0, t) = u  BY ONLY <1>1, <2>2, UpToOnly
    <2> QED BY <2>1, <2>3
  <1> QED BY <1>2, <1>3, <1>5, <1>6

(* A reading less than a period after the last one is right.               *)
LEMMA ReadsRight ==
  ASSUME now \in Nat, seen \in Nat, seen <= now, now < seen + Period,
         now < Period * Epochs
  PROVE  ReadClock = now
  <1> DEFINE s == seen \div Period
             e == now \div Period
             f == seen % Period
             g == now % Period
             w == s + (IF g < f THEN 1 ELSE 0)
  <1>1. Period \in Nat \ {0} /\ now \in Int /\ seen \in Int
    BY AlarmAssumption
  <1>2. f \in 0 .. Period - 1 /\ s \in Int /\ seen = Period * s + f
    BY <1>1, RemainderOf
  <1>3. g \in 0 .. Period - 1 /\ e \in Int /\ now = Period * e + g
    BY <1>1, RemainderOf
  <1>4. ReadClock = (w * Period + g) % (Period * Epochs)  BY DEF ReadClock
  <1> HIDE DEF s, e, f, g
  <1>5. w = e
    <2>1. w \in Int /\ e - w \in Int  BY <1>2, <1>3
    <2>2. /\ Period * s \in Int /\ Period * e \in Int
          /\ Period * (e - s) = Period * e - Period * s
          /\ Period * (e - s - 1) = Period * e - Period * s - Period
      BY <1>1, <1>2, <1>3
    <2>3. CASE g < f
      <3>1. -Period < Period * (e - s - 1) /\ Period * (e - s - 1) < Period
        BY <1>1, <1>2, <1>3, <2>2, <2>3
      <3>2. e - s - 1 \in Int  BY <1>2, <1>3
      <3>3. e - s - 1 = 0  BY <1>1, <3>1, <3>2, NoMultiple
      <3> QED BY <1>2, <1>3, <2>3, <3>3
    <2>4. CASE ~(g < f)
      <3>1. -Period < Period * (e - s) /\ Period * (e - s) < Period
        BY <1>1, <1>2, <1>3, <2>2, <2>4
      <3>2. e - s \in Int  BY <1>2, <1>3
      <3>3. e - s = 0  BY <1>1, <3>1, <3>2, NoMultiple
      <3> QED BY <1>2, <1>3, <2>4, <3>3
    <2> QED BY <2>3, <2>4
  <1> HIDE DEF w
  <1>6. w * Period + g = now  BY <1>1, <1>3, <1>5
  <1>7. Period * Epochs \in Nat \ {0}  BY ClockTyped
  <1> DEFINE m == Period * Epochs
  <1>8. m \in Nat \ {0} /\ now \in 0 .. m - 1  BY <1>7
  <1>9. ReadClock = now % m  BY <1>4, <1>6
  <1> HIDE DEF m
  <1>10. (m * 0 + now) % m = now  BY <1>8, RemainderIs
  <1>11. m * 0 + now = now  BY <1>1, <1>8
  <1> QED BY <1>9, <1>10, <1>11

-----------------------------------------------------------------------------
(* What the clock relies on: the compare register is written before the    *)
(* counter passes what it was compared with; a request is outstanding for  *)
(* less than Seed, and for less than what is left of a period beside Seed, *)
(* a delay, the shortest alarm or the window.                              *)
ReadInTime ==
    /\ LateWrite = FALSE
    /\ MaxLag < Seed /\ Seed + MaxLag < Period
    /\ \A x \in Deltas \cup {Granularity, Coalesce} : x + MaxLag < Period

(* An interrupt for a compare register of v is not too far off.            *)
Near(v) == v = Period - Seed \/ UpTo(v, now) + MaxLag < Period

(* With no request pending, the next one, that of a wrap (the counter      *)
(* equals 0) or of the target, is answered within a period of the last     *)
(* reading.                                                                *)
NextInTime ==
    \E v \in {0, compare} : now + UpTo(v, now) + MaxLag < seen + Period

TimeInv ==
    /\ QueueInv
    /\ now <= MaxTime /\ seen <= now
    /\ compare \in 0 .. Period - 1 /\ arming \in 0 .. Period - 1
    /\ lag \in 0 .. MaxLag /\ now + (MaxLag - lag) < seen + Period
    /\ flags \subseteq {"target", "overflow"} /\ doing \in Doing
    /\ \A a \in Records : deadline[a] \in Nat
    /\ deadline[Permanent] = Period * Epochs - Seed
    /\ \A a \in Alarm : deadline[a] + MaxLag < now + Period
    /\ doing \in {"write", "writeInWalk"} => seen = now /\ Near(arming)
    /\ doing = "nothing" /\ "target" \notin flags => Near(compare)
    /\ doing = "nothing" /\ flags = {} => lag = 0 /\ NextInTime

(* The counter equals v before the first alarm, or this moment if that is  *)
(* later, and the windows of the alarms behind it.                         *)
Rings(v) ==
    LET due == deadline[Head(queue)]
    IN  now + UpTo(v, now) <= (IF due > now THEN due ELSE now)
                              + Cardinality(Alarm) * Coalesce

AlarmInv ==
    /\ TimeInv
    /\ doing = "write" => Rings(arming)
    /\ doing = "nothing" /\ "target" \notin flags => Rings(compare)

LEMMA Sizes ==
  /\ Period \in Nat \ {0} /\ Epochs \in Nat \ {0} /\ Seed \in Nat \ {0}
  /\ Granularity \in Nat \ {0} /\ MaxTime \in Nat \ {0} /\ MaxLag \in Nat
  /\ Coalesce \in Nat \ {0} /\ Coalesce >= Granularity
  /\ Period * Epochs \in Nat \ {0} /\ MaxTime < Period * Epochs - Seed
  /\ \A x \in Deltas : x \in Nat
  /\ Permanent \in Records /\ Permanent \notin Alarm
  /\ \A a \in Records : a = Permanent \/ a \in Alarm
  /\ Alarm \subseteq Records
  <1>1. /\ Period \in Nat \ {0} /\ Epochs \in Nat \ {0} /\ Seed \in Nat \ {0}
        /\ Granularity \in Nat \ {0} /\ MaxTime \in Nat \ {0} /\ MaxLag \in Nat
        /\ MaxTime < Period * Epochs - Seed /\ \A x \in Deltas : x \in Nat
    BY AlarmAssumption
  <1>2. Coalesce \in Nat \ {0} /\ Coalesce >= Granularity  BY <1>1 DEF Coalesce
  <1>3. Period * Epochs \in Nat \ {0}  BY ClockTyped
  <1>4. /\ Permanent \in Records /\ Permanent \notin Alarm
        /\ \A a \in Records : a = Permanent \/ a \in Alarm
        /\ Alarm \subseteq Records
    BY AlarmAssumption DEF Records
  <1> QED BY <1>1, <1>2, <1>3, <1>4

LEMMA Reads == TimeInv => ReadClock = now
  <1> SUFFICES ASSUME TimeInv PROVE ReadClock = now  OBVIOUS
  <1>1. now \in Nat /\ seen \in Nat /\ seen <= now /\ now <= MaxTime
        /\ lag \in 0 .. MaxLag /\ now + (MaxLag - lag) < seen + Period
    BY DEF TimeInv, QueueInv
  <1>2. now < seen + Period  BY <1>1, Sizes
  <1>3. now < Period * Epochs  BY <1>1, Sizes
  <1> QED BY <1>1, <1>2, <1>3, ReadsRight

(* clockAdd does not go beyond the sum, whether or not it wraps.           *)
LEMMA PlusAtMost ==
  ASSUME NEW a \in Nat, NEW b \in Nat
  PROVE  Plus(a, b) \in Nat /\ Plus(a, b) <= a + b
  <1> DEFINE m == Period * Epochs
  <1>1. m \in Nat \ {0}  BY Sizes
  <1>2. PICK x : x = a + b  OBVIOUS
  <1>3. x \in Nat  BY <1>2
  <1>4. Plus(a, b) = x % m  BY <1>2 DEF Plus
  <1> HIDE DEF m
  <1>5. x % m <= x  BY ONLY <1>1, <1>3, RemainderAtMost
  <1>6. x % m \in 0 .. m - 1
    <2>1. x \in Int  BY <1>3
    <2> QED BY ONLY <1>1, <2>1, RemainderOf
  <1> QED BY <1>1, <1>2, <1>3, <1>4, <1>5, <1>6

(* The permanent alarm is always Seed before the end of a period.          *)
LEMMA PermanentPhase ==
  ASSUME Seed < Period
  PROVE  /\ (Period * Epochs - Seed) % Period = Period - Seed
         /\ Minus(0, Seed) = Period * Epochs - Seed
  <1>1. Period - Seed \in 0 .. Period - 1 /\ Epochs - 1 \in Int
        /\ Period * (Epochs - 1) = Period * Epochs - Period
    BY Sizes
  <1>2. (Period * (Epochs - 1) + (Period - Seed)) % Period = Period - Seed
    BY <1>1, Sizes, RemainderIs
  <1>3. Period * (Epochs - 1) + (Period - Seed) = Period * Epochs - Seed
    BY <1>1, Sizes
  <1> DEFINE m == Period * Epochs
  <1>4. m \in Nat \ {0} /\ Seed < m  BY Sizes
  <1>5. Minus(0, Seed) = (0 - Seed) % m  BY DEF Minus
  <1> HIDE DEF m
  <1>6. m - Seed \in 0 .. m - 1  BY <1>4, Sizes
  <1>7. (m * (-1) + (m - Seed)) % m = m - Seed  BY <1>4, <1>6, RemainderIs
  <1>8. m * (-1) + (m - Seed) = 0 - Seed  BY <1>4, Sizes
  <1>9. Minus(0, Seed) = m - Seed  BY <1>5, <1>7, <1>8
  <1> QED BY <1>2, <1>3, <1>9 DEF m

(* armTimer's alarm: the first from which the next is not within a window. *)
RunOf(q, d) ==
    Min({m \in DOMAIN q : m = Len(q) \/ Plus(d[q[m]], Coalesce) < d[q[m + 1]]})

LEMMA RunIs ==
  ASSUME NEW q, NEW d, Ordered(q, d), Len(q) > 0
  PROVE  /\ RunOf(q, d) \in 1 .. Len(q)
         /\ \A m \in 1 .. RunOf(q, d) - 1 :
              ~(Plus(d[q[m]], Coalesce) < d[q[m + 1]])
  <1> DEFINE S == {m \in DOMAIN q : m = Len(q) \/ Plus(d[q[m]], Coalesce) < d[q[m + 1]]}
  <1>1. Len(q) \in Nat /\ DOMAIN q = 1 .. Len(q)  BY DEF Ordered
  <1>2. S \in SUBSET Nat /\ Len(q) \in S  BY <1>1
  <1>3. S \subseteq 1 .. Len(q)  BY <1>1
  <1>4. RunOf(q, d) = Min(S)  BY DEF RunOf
  <1>5. Min(S) \in S /\ \A m \in S : Min(S) <= m
    <2> HIDE DEF S
    <2> QED BY <1>2, MinOfNaturals
  <1>6. PICK r : r = Min(S)  OBVIOUS
  <1>7. r \in 1 .. Len(q)  BY <1>3, <1>5, <1>6
  <1>8. ASSUME NEW m \in 1 .. r - 1  PROVE m \notin S
    <2> HIDE DEF S
    <2>1. m \in S => r <= m  BY <1>5, <1>6
    <2> QED BY <1>7, <2>1
  <1>9. \A m \in 1 .. r - 1 : ~(Plus(d[q[m]], Coalesce) < d[q[m + 1]])
    <2> TAKE m \in 1 .. r - 1
    <2>1. m \in DOMAIN q  BY <1>1, <1>7
    <2> QED BY <1>8, <2>1
  <1> QED BY <1>4, <1>6, <1>7, <1>9

LEMMA ArmedIs ==
  ASSUME NEW q, NEW d, ReadClock = now
  PROVE  Armed(q, d) = IF now < d[q[RunOf(q, d)]] THEN d[q[RunOf(q, d)]] % Period
                       ELSE (now + Coalesce) % Period
  BY DEF Armed, RunOf

(* What armTimer chooses comes within a period.                            *)
LEMMA ArmedNear ==
  ASSUME NEW q, NEW d, Ordered(q, d), Len(q) > 0, ReadInTime, ReadClock = now,
         now \in Nat, \A a \in Records : d[a] \in Nat,
         d[Permanent] = Period * Epochs - Seed,
         \A a \in Alarm : d[a] + MaxLag < now + Period
  PROVE  Armed(q, d) \in 0 .. Period - 1 /\ Near(Armed(q, d))
  <1>1. PICK n : n = RunOf(q, d)  OBVIOUS
  <1>2. n \in 1 .. Len(q)  BY <1>1, RunIs
  <1>3. PICK a : a = q[n]  OBVIOUS
  <1>4. a \in Records
    <2>1. q \in Seq(Records)  BY DEF Ordered
    <2> QED BY <1>2, <1>3, <2>1
  <1>5. PICK x : x = d[a]  OBVIOUS
  <1>6. x \in Nat  BY <1>4, <1>5
  <1>7. Armed(q, d) = IF now < x THEN x % Period ELSE (now + Coalesce) % Period
    BY <1>1, <1>3, <1>5, ArmedIs
  <1>8. CASE now < x
    <2>1. x % Period \in 0 .. Period - 1 /\ UpTo(x % Period, now) <= x - now
      BY <1>6, <1>8, UpToMoment
    <2>2. CASE a = Permanent
      <3>1. x % Period = Period - Seed
        BY <1>5, <2>2, PermanentPhase, Sizes DEF ReadInTime
      <3> QED BY <1>7, <1>8, <2>1, <3>1 DEF Near
    <2>3. CASE a \in Alarm
      <3>1. x + MaxLag < now + Period  BY <1>5, <2>3
      <3>2. UpTo(x % Period, now) \in Int
        BY <2>1, UpToIs, Sizes
      <3>3. UpTo(x % Period, now) + MaxLag < Period
        BY <1>6, <2>1, <3>1, <3>2, Sizes
      <3> QED BY <1>7, <1>8, <2>1, <3>3 DEF Near
    <2> QED BY <1>4, <2>2, <2>3, Sizes
  <1>9. CASE ~(now < x)
    <2>1. PICK y : y = now + Coalesce  OBVIOUS
    <2>2. y \in Nat /\ y > now /\ y - now = Coalesce  BY <2>1, Sizes
    <2>3. y % Period \in 0 .. Period - 1 /\ UpTo(y % Period, now) <= y - now
      BY <2>2, UpToMoment
    <2>4. UpTo(y % Period, now) \in Int  BY <2>3, UpToIs, Sizes
    <2>5. Coalesce + MaxLag < Period  BY DEF ReadInTime
    <2>6. UpTo(y % Period, now) + MaxLag < Period  BY <2>2, <2>3, <2>4, <2>5, Sizes
    <2> QED BY <1>7, <1>9, <2>1, <2>3, <2>6 DEF Near
  <1> QED BY <1>8, <1>9

(* A reading just now leaves room for the next, if the target is near.     *)
LEMMA ReadNow ==
  ASSUME ReadInTime, now \in Nat, NEW c \in 0 .. Period - 1, Near(c)
  PROVE  \E v \in {0, c} : now + UpTo(v, now) + MaxLag < now + Period
  <1>1. PICK f : f = now % Period  OBVIOUS
  <1>2. /\ f \in 0 .. Period - 1
        /\ f < c => UpTo(c, now) = c - f
        /\ UpTo(0, now) = Period - f
    BY <1>1, UpToPhase
  <1>3. MaxLag < Seed /\ Seed + MaxLag < Period  BY DEF ReadInTime
  <1>4. CASE f > MaxLag
    <2>1. now + UpTo(0, now) + MaxLag < now + Period  BY <1>2, <1>4, Sizes
    <2> QED BY <2>1
  <1>5. CASE ~(f > MaxLag) /\ c = Period - Seed
    <2>1. UpTo(c, now) = Period - Seed - f  BY <1>2, <1>3, <1>5, Sizes
    <2>2. now + UpTo(c, now) + MaxLag < now + Period
      BY <1>2, <1>3, <2>1, Sizes
    <2> QED BY <2>2
  <1>6. CASE UpTo(c, now) + MaxLag < Period
    <2>1. UpTo(c, now) \in Int  BY UpToIs, Sizes
    <2>2. now + UpTo(c, now) + MaxLag < now + Period
      BY <1>6, <2>1, Sizes
    <2> QED BY <2>2
  <1> QED BY <1>2, <1>4, <1>5, <1>6, Sizes DEF Near

LEMMA TimeInit == ReadInTime /\ Init => TimeInv
  <1> SUFFICES ASSUME ReadInTime, Init PROVE TimeInv  OBVIOUS
  <1>1. QueueInv  BY QueueInit
  <1>2. /\ now = 0 /\ compare = Granularity % Period /\ flags = {} /\ seen = 0
        /\ doing = "nothing" /\ arming = 0 /\ lag = 0
        /\ deadline = [a \in Records |-> IF a = Permanent THEN Minus(0, Seed) ELSE 0]
    BY DEF Init
  <1>3. /\ MaxLag < Seed /\ Seed + MaxLag < Period
        /\ Granularity + MaxLag < Period
    BY DEF ReadInTime
  <1>4. Minus(0, Seed) = Period * Epochs - Seed /\ Period * Epochs - Seed \in Nat
    BY <1>3, PermanentPhase, Sizes
  <1>5. /\ \A a \in Records : deadline[a] \in Nat
        /\ deadline[Permanent] = Period * Epochs - Seed
        /\ \A a \in Alarm : deadline[a] = 0
    BY <1>2, <1>4, Sizes
  <1>6. compare \in 0 .. Period - 1 /\ UpTo(compare, now) <= Granularity
    <2>1. Granularity \in Nat /\ now \in Nat /\ Granularity > now /\ Granularity - now = Granularity
      BY <1>2, Sizes
    <2>2. /\ Granularity % Period \in 0 .. Period - 1
          /\ UpTo(Granularity % Period, now) <= Granularity - now
      BY ONLY <2>1, UpToMoment
    <2> QED BY <1>2, <2>1, <2>2
  <1>7. UpTo(compare, now) + MaxLag < Period
    <2>1. UpTo(compare, now) \in Int  BY <1>2, <1>6, UpToIs, Sizes
    <2> QED BY <1>3, <1>6, <2>1, Sizes
  <1>8. Near(compare)  BY <1>7 DEF Near
  <1>9. NextInTime
    <2>1. UpTo(compare, now) \in Int  BY <1>2, <1>6, UpToIs, Sizes
    <2>2. now + UpTo(compare, now) + MaxLag < seen + Period
      BY <1>2, <1>7, <2>1, Sizes
    <2> QED BY <2>2 DEF NextInTime
  <1>10. doing \in Doing /\ doing \notin {"write", "writeInWalk"}
         /\ flags \subseteq {"target", "overflow"}
    BY <1>2 DEF Doing
  <1>11. lag \in 0 .. MaxLag /\ now + (MaxLag - lag) < seen + Period
         /\ now <= MaxTime /\ seen <= now /\ arming \in 0 .. Period - 1
    BY <1>2, <1>3, Sizes
  <1>12. \A a \in Alarm : deadline[a] + MaxLag < now + Period
    BY <1>2, <1>3, <1>5, Sizes
  <1> QED BY <1>1, <1>2, <1>5, <1>6, <1>8, <1>9, <1>10, <1>11, <1>12 DEF TimeInv

(* Where the clock is read, the counter has a period before it again.      *)
LEMMA ReadRoom ==
  ASSUME TimeInv, ReadInTime
  PROVE  /\ now \in Nat /\ seen \in Nat /\ lag \in 0 .. MaxLag
         /\ now + (MaxLag - lag) < now + Period /\ now <= now
  BY Sizes DEF TimeInv, QueueInv, ReadInTime

LEMMA SetAlarmInTime ==
  ASSUME TimeInv, ReadInTime, NEW a \in Alarm, NEW delta \in Deltas,
         SetAlarm(a, delta), QueueInv'
  PROVE  TimeInv'
  <1> DEFINE x == IF delta < Granularity THEN Granularity ELSE delta
             n == Plus(now, x)
             d == [deadline EXCEPT ![a] = n]
  <1>1. /\ deadline' = d /\ arming' = Armed(queue', d)
        /\ seen' = now /\ doing' \in {"write", "writeInWalk"}
        /\ now' = now /\ compare' = compare /\ flags' = flags /\ lag' = lag
    BY Reads DEF SetAlarm
  <1>2. x \in Nat /\ x + MaxLag < Period
    BY Sizes DEF ReadInTime
  <1>3. now \in Nat /\ seen \in Nat /\ lag \in 0 .. MaxLag
        /\ now + (MaxLag - lag) < now + Period
    BY ReadRoom
  <1> HIDE DEF x
  <1>4. n \in Nat /\ n <= now + x  BY ONLY <1>2, <1>3, PlusAtMost DEF n
  <1> HIDE DEF n
  <1>5. n + MaxLag < now + Period  BY <1>2, <1>3, <1>4, Sizes
  <1>6. DOMAIN deadline = Records  BY DEF TimeInv, QueueInv, Ordered
  <1>7. a \in Records /\ a # Permanent  BY Sizes
  <1>8. /\ \A r \in Records : d[r] \in Nat
        /\ d[Permanent] = Period * Epochs - Seed
        /\ \A r \in Alarm : d[r] + MaxLag < now + Period
    BY <1>4, <1>5, <1>6, <1>7, Sizes DEF TimeInv
  <1>9. Ordered(queue', deadline') /\ Len(queue') > 0
    <2>1. Ordered(queue', deadline') /\ \E k \in 1 .. Len(queue') : queue'[k] = Permanent
      BY DEF QueueInv, Ordered, Holds
    <2>2. Len(queue') \in Nat  BY <2>1 DEF Ordered
    <2> QED BY <2>1, <2>2
  <1>10. ReadClock = now  BY Reads
  <1> HIDE DEF d
  <1>11. arming' \in 0 .. Period - 1 /\ Near(arming')
    <2>1. Ordered(queue', d)  BY <1>1, <1>9
    <2>2. PICK q : q = queue'  OBVIOUS
    <2>3. Armed(q, d) \in 0 .. Period - 1 /\ Near(Armed(q, d))
      BY ONLY <1>3, <1>8, <1>9, <1>10, <2>1, <2>2, ReadInTime, ArmedNear
    <2> QED BY <1>1, <2>2, <2>3
  <1>12. Near(arming)'  BY <1>1, <1>11 DEF Near, UpTo
  <1>13. doing' \in Doing /\ doing' # "nothing"  BY <1>1 DEF Doing
  <1> QED BY <1>1, <1>3, <1>8, <1>11, <1>12, <1>13 DEF TimeInv

LEMMA CancelAlarmInTime ==
  ASSUME TimeInv, NEW a \in Alarm, CancelAlarm(a), QueueInv'
  PROVE  TimeInv'
  <1>1. UNCHANGED <<now, compare, flags, seen, deadline, doing, arming, lag>>
    BY DEF CancelAlarm
  <1> QED BY <1>1 DEF TimeInv, Near, NextInTime, UpTo

(* The permanent alarm is never due: the clock does not come to its end.   *)
LEMMA DueIsClients ==
  ASSUME TimeInv, Due
  PROVE  Head(queue) \in Alarm /\ deadline[Head(queue)] <= now
  <1>1. queue # <<>> /\ deadline[Head(queue)] <= now  BY Reads DEF Due
  <1>2. Head(queue) \in Records
    <2>1. queue \in Seq(Records)  BY DEF TimeInv, QueueInv, Ordered
    <2> QED BY <1>1, <2>1
  <1>3. now \in Nat /\ now <= MaxTime /\ deadline[Permanent] = Period * Epochs - Seed
    BY DEF TimeInv, QueueInv
  <1>4. Head(queue) # Permanent  BY <1>1, <1>3, Sizes
  <1> QED BY <1>1, <1>2, <1>4, Sizes

LEMMA FireAlarmInTime ==
  ASSUME TimeInv, ReadInTime, NEW again \in Nat, FireAlarm(again), QueueInv'
  PROVE  TimeInv'
  <1> DEFINE a == Head(queue)
             more == IF again < Coalesce THEN again ELSE Coalesce
             n == Plus(deadline[a], more)
  <1>1. a \in Alarm /\ deadline[a] <= now /\ a # Permanent /\ a \in Records
    BY DueIsClients, Sizes DEF FireAlarm
  <1>2. /\ doing = "walk" /\ seen' = now
        /\ UNCHANGED <<now, compare, flags, doing, arming, lag>>
        /\ deadline' \in {deadline, [deadline EXCEPT ![a] = n]}
    BY <1>1, Reads DEF FireAlarm
  <1>3. now \in Nat /\ seen \in Nat /\ lag \in 0 .. MaxLag
        /\ now + (MaxLag - lag) < now + Period
    BY ReadRoom
  <1>4. more \in Nat /\ more <= Coalesce  BY Sizes
  <1>5. deadline[a] \in Nat  BY <1>1 DEF TimeInv
  <1> HIDE DEF more
  <1>6. n \in Nat /\ n <= deadline[a] + more  BY ONLY <1>4, <1>5, PlusAtMost DEF n
  <1> HIDE DEF n, a
  <1>7. n + MaxLag < now + Period
    <2>1. Coalesce + MaxLag < Period  BY DEF ReadInTime
    <2> QED BY <1>1, <1>3, <1>4, <1>5, <1>6, <2>1, Sizes
  <1>8. DOMAIN deadline = Records  BY DEF TimeInv, QueueInv, Ordered
  <1>9. /\ \A r \in Records : deadline'[r] \in Nat
        /\ deadline'[Permanent] = Period * Epochs - Seed
        /\ \A r \in Alarm : deadline'[r] + MaxLag < now + Period
    <2>1. CASE deadline' = deadline  BY <2>1 DEF TimeInv
    <2>2. CASE deadline' = [deadline EXCEPT ![a] = n]
      BY <1>1, <1>6, <1>7, <1>8, <2>2, Sizes DEF TimeInv
    <2> QED BY <1>2, <2>1, <2>2
  <1> QED BY <1>2, <1>3, <1>9 DEF TimeInv

LEMMA EnterHandlerInTime ==
  ASSUME TimeInv, ReadInTime, EnterHandler, QueueInv'
  PROVE  TimeInv'
  <1>1. /\ doing = "nothing" /\ flags' = {} /\ seen' = now
        /\ doing' = IF "target" \in flags THEN "walk" ELSE "nothing"
        /\ lag' = IF "target" \in flags THEN lag ELSE 0
        /\ UNCHANGED <<now, compare, queue, deadline, arming>>
    BY Reads DEF EnterHandler
  <1>2. now \in Nat /\ seen \in Nat /\ lag \in 0 .. MaxLag
        /\ now + (MaxLag - lag) < now + Period
    BY ReadRoom
  <1>3. CASE "target" \in flags
    BY <1>1, <1>2, <1>3 DEF TimeInv, Doing
  <1>4. CASE "target" \notin flags
    <2>1. Near(compare) /\ compare \in 0 .. Period - 1  BY <1>1, <1>4 DEF TimeInv
    <2>2. Near(compare)'  BY <1>1, <2>1 DEF Near, UpTo
    <2>3. \E v \in {0, compare} : now + UpTo(v, now) + MaxLag < now + Period
      BY <1>2, <2>1, ReadNow
    <2>4. NextInTime'  BY <1>1, <2>3 DEF NextInTime, UpTo
    <2>5. lag' = 0 /\ 0 \in 0 .. MaxLag /\ now + (MaxLag - 0) < now + Period
      <3>1. MaxLag < Period  BY Sizes DEF ReadInTime
      <3> QED BY <1>1, <1>2, <1>4, <3>1, Sizes
    <2> QED BY <1>1, <1>2, <1>4, <2>2, <2>4, <2>5 DEF TimeInv, Doing
  <1> QED BY <1>3, <1>4

LEMMA LeaveHandlerInTime ==
  ASSUME TimeInv, ReadInTime, LeaveHandler, QueueInv'
  PROVE  TimeInv'
  <1>1. queue # <<>> /\ Len(queue) > 0 /\ Ordered(queue, deadline)
    <2>1. Ordered(queue, deadline) /\ \E k \in 1 .. Len(queue) : queue[k] = Permanent
      BY DEF TimeInv, QueueInv, Holds
    <2>2. queue \in Seq(Records) /\ Len(queue) \in Nat  BY <2>1 DEF Ordered
    <2>3. Len(queue) > 0  BY <2>1, <2>2
    <2> QED BY <2>1, <2>2, <2>3
  <1>2. /\ seen' = now /\ doing' = "write" /\ arming' = Armed(queue, deadline)
        /\ UNCHANGED <<now, compare, flags, queue, deadline, lag>>
    BY <1>1, Reads DEF LeaveHandler
  <1>3. now \in Nat /\ seen \in Nat /\ lag \in 0 .. MaxLag
        /\ now + (MaxLag - lag) < now + Period
    BY ReadRoom
  <1>4. /\ \A r \in Records : deadline[r] \in Nat
        /\ deadline[Permanent] = Period * Epochs - Seed
        /\ \A r \in Alarm : deadline[r] + MaxLag < now + Period
    BY DEF TimeInv
  <1>5. ReadClock = now  BY Reads
  <1>6. Armed(queue, deadline) \in 0 .. Period - 1 /\ Near(Armed(queue, deadline))
    BY ONLY <1>1, <1>3, <1>4, <1>5, ReadInTime, ArmedNear
  <1>7. Near(arming)'  BY <1>2, <1>6 DEF Near, UpTo
  <1> QED BY <1>2, <1>3, <1>6, <1>7 DEF TimeInv, Doing

LEMMA WriteCompareInTime ==
  ASSUME TimeInv, ReadInTime, WriteCompare, QueueInv'
  PROVE  TimeInv'
  <1>1. /\ doing \in {"write", "writeInWalk"} /\ compare' = arming
        /\ doing' = IF doing = "write" THEN "nothing" ELSE "walk"
        /\ lag' = IF doing = "write" /\ flags = {} THEN 0 ELSE lag
        /\ UNCHANGED <<now, flags, seen, queue, deadline, arming>>
    BY DEF WriteCompare
  <1>2. seen = now /\ Near(arming) /\ arming \in 0 .. Period - 1
    BY <1>1 DEF TimeInv
  <1>3. now \in Nat /\ seen \in Nat /\ lag \in 0 .. MaxLag
        /\ now + (MaxLag - lag) < now + Period
    BY ReadRoom
  <1>4. Near(compare)'  BY <1>1, <1>2 DEF Near, UpTo
  <1>5. lag' \in 0 .. MaxLag /\ now + (MaxLag - lag') < now + Period
    <2>1. MaxLag < Period  BY Sizes DEF ReadInTime
    <2> QED BY <1>1, <1>3, <2>1, Sizes
  <1>6. NextInTime'
    <2>1. \E v \in {0, arming} : now + UpTo(v, now) + MaxLag < now + Period
      BY <1>2, <1>3, ReadNow
    <2>2. now' = now /\ compare' = arming /\ seen' = now  BY <1>1, <1>2
    <2> QED BY <2>1, <2>2 DEF NextInTime, UpTo
  <1>7. doing' \in Doing /\ doing' \notin {"write", "writeInWalk"}
    BY <1>1 DEF Doing
  <1>8. doing' = "nothing" /\ flags' = {} => lag' = 0
    BY <1>1
  <1> QED BY <1>1, <1>2, <1>3, <1>4, <1>5, <1>6, <1>7, <1>8 DEF TimeInv

LEMMA TickInTime ==
  ASSUME TimeInv, ReadInTime, Tick, QueueInv'
  PROVE  TimeInv'
  <1> DEFINE count == (now + 1) % Period
  <1>1. /\ now < MaxTime /\ doing \notin {"write", "writeInWalk"} /\ now' = now + 1
        /\ flags' = flags \cup (IF count = compare THEN {"target"} ELSE {})
                          \cup (IF count = 0 THEN {"overflow"} ELSE {})
        /\ IF doing = "nothing" /\ flags = {} THEN lag' = lag
           ELSE lag < MaxLag /\ lag' = lag + 1
        /\ UNCHANGED <<compare, seen, queue, deadline, doing, arming>>
    BY DEF Tick, ReadInTime
  <1>2. /\ now \in Nat /\ seen \in Nat /\ lag \in 0 .. MaxLag /\ seen <= now
        /\ now + (MaxLag - lag) < seen + Period /\ compare \in 0 .. Period - 1
    BY DEF TimeInv, QueueInv
  <1>3. \A v \in {0, compare} :
          /\ UpTo(v, now) \in 1 .. Period
          /\ UpTo(v, now) = 1 => count = v
          /\ UpTo(v, now) # 1 => UpTo(v, now + 1) = UpTo(v, now) - 1
    <2> TAKE v \in {0, compare}
    <2>1. v \in 0 .. Period - 1 /\ v \in Int /\ now \in Int  BY <1>2, Sizes
    <2> QED BY ONLY <2>1, UpToIs, UpToTick DEF count
  <1> HIDE DEF count
  <1>4. /\ flags \subseteq flags' /\ flags' \subseteq {"target", "overflow"}
        /\ count = compare => "target" \in flags'
        /\ count = 0 => "overflow" \in flags'
    BY <1>1 DEF TimeInv
  <1>5. /\ lag' \in 0 .. MaxLag /\ now' + (MaxLag - lag') < seen' + Period
        /\ doing = "nothing" /\ flags' = {} => lag' = 0 /\ NextInTime'
    <2>1. CASE ~(doing = "nothing" /\ flags = {})
      <3>1. lag' = lag + 1 /\ lag < MaxLag  BY <1>1, <2>1
      <3>2. ~(doing = "nothing" /\ flags' = {})  BY <1>4, <2>1
      <3> QED BY <1>1, <1>2, <3>1, <3>2, Sizes
    <2>2. CASE doing = "nothing" /\ flags = {}
      <3>1. lag' = 0 /\ lag = 0  BY <1>1, <2>2 DEF TimeInv
      <3>2. PICK v \in {0, compare} : now + UpTo(v, now) + MaxLag < seen + Period
        BY <2>2 DEF TimeInv, NextInTime
      <3>3. PICK u : u = UpTo(v, now)  OBVIOUS
      <3>4. u \in 1 .. Period  BY <1>3, <3>3
      <3>5. now' + (MaxLag - lag') < seen' + Period
        BY <1>1, <1>2, <3>1, <3>2, <3>3, <3>4, Sizes
      <3>6. ASSUME flags' = {}  PROVE NextInTime'
        <4>1. u # 1  BY <1>3, <1>4, <3>3, <3>6
        <4>2. UpTo(v, now + 1) = u - 1  BY <1>3, <3>3, <4>1
        <4>3. now + 1 + (u - 1) + MaxLag < seen + Period
          BY <1>2, <3>2, <3>3, <3>4, Sizes
        <4> QED BY <1>1, <4>2, <4>3 DEF NextInTime, UpTo
      <3> QED BY <3>1, <3>5, <3>6, Sizes
    <2> QED BY <2>1, <2>2
  <1>6. ASSUME doing = "nothing", "target" \notin flags'
        PROVE  Near(compare)'
    <2>1. Near(compare) /\ count # compare  BY <1>4, <1>6 DEF TimeInv
    <2>2. UpTo(compare, now + 1) = UpTo(compare, now) - 1
          /\ UpTo(compare, now) \in 1 .. Period
      BY <1>3, <2>1
    <2>3. compare = Period - Seed \/ UpTo(compare, now + 1) + MaxLag < Period
      BY <2>1, <2>2, Sizes DEF Near
    <2> QED BY <1>1, <2>3 DEF Near, UpTo
  <1>7. \A a \in Alarm : deadline[a] + MaxLag < now' + Period
    <2> TAKE a \in Alarm
    <2>1. deadline[a] \in Nat /\ deadline[a] + MaxLag < now + Period
      BY Sizes DEF TimeInv
    <2> QED BY <1>1, <1>2, <2>1, Sizes
  <1>8. now' <= MaxTime /\ seen' <= now'  BY <1>1, <1>2, Sizes
  <1> QED BY <1>1, <1>4, <1>5, <1>6, <1>7, <1>8 DEF TimeInv

LEMMA TimeNext ==
  ASSUME TimeInv, ReadInTime, [Next]_vars
  PROVE  TimeInv'
  <1>1. QueueInv'  BY QueueNext DEF TimeInv
  <1>2. ASSUME NEW a \in Alarm, CancelAlarm(a) PROVE TimeInv'
    BY <1>1, <1>2, CancelAlarmInTime
  <1>3. ASSUME NEW a \in Alarm, NEW delta \in Deltas, SetAlarm(a, delta)
        PROVE  TimeInv'
    BY <1>1, <1>3, SetAlarmInTime
  <1>4. ASSUME NEW again \in {0, 1, Coalesce + 1}, FireAlarm(again) PROVE TimeInv'
    <2>1. again \in Nat  BY Sizes
    <2> QED BY <1>1, <1>4, <2>1, FireAlarmInTime
  <1>5. CASE EnterHandler  BY <1>1, <1>5, EnterHandlerInTime
  <1>6. CASE LeaveHandler  BY <1>1, <1>6, LeaveHandlerInTime
  <1>7. CASE WriteCompare  BY <1>1, <1>7, WriteCompareInTime
  <1>8. CASE Tick  BY <1>1, <1>8, TickInTime
  <1>9. CASE UNCHANGED vars
    BY <1>1, <1>9 DEF vars, TimeInv, Near, NextInTime, UpTo
  <1> QED BY <1>2, <1>3, <1>4, <1>5, <1>6, <1>7, <1>8, <1>9 DEF Next

(* Every reading of the clock is right, for any alarms, delays and orders  *)
(* of setting, cancelling and firing, when requests are answered in time,  *)
(* the compare register is written in time and no alarm is set for a       *)
(* period or more (readClock, armTimer, timerHandler).                     *)
THEOREM ClockTrue == ReadInTime => (Spec => []ClockIsTrue)
  <1> SUFFICES ASSUME ReadInTime PROVE Spec => []ClockIsTrue  OBVIOUS
  <1>1. Init => TimeInv  BY TimeInit
  <1>2. TimeInv /\ [Next]_vars => TimeInv'  BY TimeNext
  <1>3. TimeInv => ClockIsTrue  BY Reads DEF ClockIsTrue
  <1> QED BY <1>1, <1>2, <1>3, PTL DEF Spec

-----------------------------------------------------------------------------
(* The alarms' interrupt.  The run of alarms that armTimer passes over     *)
(* takes a window for each.                                                *)
LEMMA RunWithin ==
  ASSUME NEW q, NEW d, Ordered(q, d), Len(q) > 0, \A a \in Records : d[a] \in Nat,
         IsFiniteSet(Alarm)
  PROVE  /\ d[q[RunOf(q, d)]] \in Nat /\ d[q[1]] \in Nat
         /\ d[q[1]] <= d[q[RunOf(q, d)]]
         /\ d[q[RunOf(q, d)]] <= d[q[1]] + Cardinality(Alarm) * Coalesce
  <1>1. PICK r : r = RunOf(q, d)  OBVIOUS
  <1>2. r \in 1 .. Len(q) /\ \A m \in 1 .. r - 1 : ~(Plus(d[q[m]], Coalesce) < d[q[m + 1]])
    BY <1>1, RunIs
  <1>3. Len(q) \in Nat /\ \A m \in 1 .. Len(q) : q[m] \in Records /\ d[q[m]] \in Nat
    <2>1. q \in Seq(Records)  BY DEF Ordered
    <2> QED BY <2>1
  <1>4. PICK c : c = Coalesce  OBVIOUS
  <1>5. c \in Nat  BY <1>4, Sizes
  <1>6. ASSUME NEW m \in 1 .. r - 1
        PROVE  d[q[m + 1]] <= d[q[m]] + c
    <2>1. PICK x, y : x = d[q[m]] /\ y = d[q[m + 1]]  OBVIOUS
    <2>2. x \in Nat /\ y \in Nat  BY <1>2, <1>3, <2>1
    <2>3. Plus(x, c) \in Nat /\ Plus(x, c) <= x + c  BY ONLY <1>5, <2>2, PlusAtMost
    <2>4. ~(Plus(x, c) < y)  BY <1>2, <1>4, <2>1
    <2> QED BY <1>5, <2>1, <2>2, <2>3, <2>4
  <1>7. \A m \in 1 .. r : d[q[m]] <= d[q[1]] + (m - 1) * c
    <2> DEFINE B == {m \in 1 .. r : ~(d[q[m]] <= d[q[1]] + (m - 1) * c)}
    <2>1. SUFFICES ASSUME B # {} PROVE FALSE  OBVIOUS
    <2>2. B \in SUBSET Nat  BY <1>2
    <2>3. PICK m \in B : \A k \in B : m <= k
      <3> HIDE DEF B
      <3> QED BY <2>1, <2>2, MinOfNaturals
    <2>4. m \in 1 .. r /\ ~(d[q[m]] <= d[q[1]] + (m - 1) * c)  OBVIOUS
    <2>5. m # 1
      <3>1. (1 - 1) * c = 0  BY <1>5
      <3> QED BY <1>2, <1>3, <2>4, <3>1
    <2>6. m - 1 \in 1 .. r - 1 /\ (m - 1) + 1 = m /\ m - 1 \in 1 .. r /\ ~(m <= m - 1)
      BY <1>2, <1>3, <2>4, <2>5
    <2>7. d[q[m - 1]] <= d[q[1]] + ((m - 1) - 1) * c
      <3> HIDE DEF B
      <3>1. m - 1 \notin B  BY <2>3, <2>6
      <3> QED BY <2>6, <3>1 DEF B
    <2>8. d[q[m]] <= d[q[m - 1]] + c  BY <1>6, <2>6
    <2>9. (m - 1) * c = ((m - 1) - 1) * c + c /\ (m - 1) * c \in Int
          /\ ((m - 1) - 1) * c \in Int
      BY <1>5, <2>6
    <2>10. /\ d[q[m]] \in Nat /\ d[q[m - 1]] \in Nat /\ d[q[1]] \in Nat
      BY <1>2, <1>3, <2>4, <2>6
    <2>11. PICK x, y, z, v, w : /\ x = d[q[m]] /\ y = d[q[m - 1]] /\ z = d[q[1]]
                               /\ v = (m - 1) * c /\ w = ((m - 1) - 1) * c
      OBVIOUS
    <2>12. /\ x \in Nat /\ y \in Nat /\ z \in Nat /\ v \in Int /\ w \in Int
           /\ ~(x <= z + v) /\ y <= z + w /\ x <= y + c /\ v = w + c
      BY ONLY <2>4, <2>7, <2>8, <2>9, <2>10, <2>11
    <2> QED BY ONLY <1>5, <2>12
  <1>8. Cardinality(Alarm) \in Nat /\ Len(q) <= Cardinality(Alarm) + 1
    <2>1. Cardinality(Alarm) \in Nat  BY FS_CardinalityType
    <2>2. IsFiniteSet(Records) /\ Cardinality(Records) = Cardinality(Alarm) + 1
      BY FS_AddElement, Sizes DEF Records
    <2>3. q \in Injection(1 .. Len(q), Records)
      <3>1. q \in [1 .. Len(q) -> Records]
        <4>1. q \in Seq(Records)  BY DEF Ordered
        <4> QED BY <4>1
      <3>2. \A m, n \in 1 .. Len(q) : q[m] = q[n] => m = n
        <4> TAKE m, n \in 1 .. Len(q)
        <4>1. m < n \/ n < m \/ m = n  BY <1>3
        <4> QED BY <4>1 DEF Ordered
      <3> QED BY <3>1, <3>2 DEF Injection, IsInjective
    <2>4. Cardinality(1 .. Len(q)) <= Cardinality(Records)
      BY <2>2, <2>3, FS_Injection
    <2>5. Cardinality(1 .. Len(q)) = Len(q)
      <3>1. 1 \in Int /\ Len(q) \in Int  BY <1>3
      <3>2. Cardinality(1 .. Len(q)) = IF 1 > Len(q) THEN 0 ELSE Len(q) - 1 + 1
        BY <3>1, FS_Interval
      <3> QED BY <1>3, <3>2
    <2> QED BY <2>1, <2>2, <2>4, <2>5
  <1>9. PICK n : n = Cardinality(Alarm)  OBVIOUS
  <1>10. (r - 1) * c <= n * c /\ (r - 1) * c \in Int /\ n * c \in Int
    <2>1. n \in Nat /\ r - 1 \in Nat /\ r - 1 <= n  BY <1>2, <1>3, <1>8, <1>9
    <2>2. \A x, y, z \in Nat : x <= y => x * z <= y * z  BY Z3
    <2> QED BY <1>5, <2>1, <2>2
  <1>11. d[q[r]] <= d[q[1]] + (r - 1) * c  BY <1>2, <1>7
  <1>12. d[q[1]] <= d[q[r]]
    <2>1. CASE r = 1  BY <1>2, <1>3, <2>1
    <2>2. CASE r # 1
      <3>1. 1 < r /\ 1 \in 1 .. Len(q)  BY <1>2, <1>3, <2>2
      <3> QED BY <1>2, <3>1 DEF Ordered
    <2> QED BY <2>1, <2>2
  <1>13. d[q[r]] \in Nat /\ d[q[1]] \in Nat  BY <1>2, <1>3
  <1>14. d[q[r]] <= d[q[1]] + n * c  BY <1>10, <1>11, <1>13
  <1> QED BY <1>1, <1>4, <1>9, <1>12, <1>13, <1>14

(* What armTimer chooses comes in time, if there is another alarm than the *)
(* permanent one or the first alarm is still to come.                      *)
LEMMA ArmedRings ==
  ASSUME NEW q, NEW d, Ordered(q, d), Len(q) > 0, \A a \in Records : d[a] \in Nat,
         IsFiniteSet(Alarm), ReadClock = now, now \in Nat,
         Alarm # {} \/ d[q[1]] > now
  PROVE  LET due == d[q[1]]
         IN  now + UpTo(Armed(q, d), now)
               <= (IF due > now THEN due ELSE now) + Cardinality(Alarm) * Coalesce
  <1>1. PICK x, y, n, c : /\ x = d[q[1]] /\ y = d[q[RunOf(q, d)]]
                          /\ n = Cardinality(Alarm) /\ c = Coalesce
    OBVIOUS
  <1>2. x \in Nat /\ y \in Nat /\ x <= y /\ y <= x + n * c
    BY <1>1, RunWithin
  <1>3. n \in Nat /\ c \in Nat \ {0} /\ (Alarm # {} => n >= 1)
    <2>1. n \in Nat  BY <1>1, FS_CardinalityType
    <2>2. Alarm # {} => n # 0  BY <1>1, FS_EmptySet
    <2> QED BY <1>1, <2>1, <2>2, Sizes
  <1>4. n * c \in Nat /\ (n >= 1 => c <= n * c)
    <2>1. \A u, v \in Nat : u * v \in Nat /\ (u >= 1 => v <= u * v)  BY Z3
    <2> QED BY <1>3, <2>1
  <1>5. Armed(q, d) = IF now < y THEN y % Period ELSE (now + c) % Period
    BY <1>1, ArmedIs
  <1>6. PICK u : u = UpTo(Armed(q, d), now)  OBVIOUS
  <1>7. CASE now < y
    <2>1. y % Period \in 0 .. Period - 1 /\ UpTo(y % Period, now) <= y - now
      BY ONLY <1>2, <1>7, now \in Nat, UpToMoment
    <2>2. u = UpTo(y % Period, now)  BY <1>5, <1>6, <1>7
    <2>3. u \in Int  BY <2>1, <2>2, UpToIs, Sizes
    <2>4. u <= y - now  BY <2>1, <2>2
    <2>5. now + u <= (IF x > now THEN x ELSE now) + n * c
      BY <1>2, <1>4, <1>7, <2>3, <2>4
    <2> QED BY <1>1, <1>6, <2>5
  <1>8. CASE ~(now < y)
    <2>1. PICK z : z = now + c  OBVIOUS
    <2>2. z \in Nat /\ z > now /\ z - now = c  BY <1>3, <2>1
    <2>3. z % Period \in 0 .. Period - 1 /\ UpTo(z % Period, now) <= z - now
      BY ONLY <2>2, now \in Nat, UpToMoment
    <2>4. u = UpTo(z % Period, now)  BY <1>5, <1>6, <1>8, <2>1
    <2>5. u \in Int  BY <2>3, <2>4, UpToIs, Sizes
    <2>6. ~(x > now)  BY <1>2, <1>8
    <2>7. c <= n * c  BY <1>1, <1>3, <1>4, <2>6
    <2>8. u <= c  BY <2>2, <2>3, <2>4
    <2>9. now + u <= (IF x > now THEN x ELSE now) + n * c
      BY <1>3, <1>4, <2>5, <2>6, <2>7, <2>8
    <2> QED BY <1>1, <1>6, <2>9
  <1> QED BY <1>7, <1>8

(* The first of a queue that is never empty.                               *)
LEMMA FirstOf ==
  ASSUME QueueInv
  PROVE  /\ Len(queue) > 0 /\ Len(queue) \in Nat /\ queue # <<>>
         /\ Head(queue) = queue[1] /\ Head(queue) \in Records
  <1>1. Ordered(queue, deadline) /\ \E k \in 1 .. Len(queue) : queue[k] = Permanent
    BY DEF QueueInv, Holds
  <1>2. queue \in Seq(Records) /\ Len(queue) \in Nat  BY <1>1 DEF Ordered
  <1>3. Len(queue) > 0  BY <1>1, <1>2
  <1> QED BY <1>2, <1>3

(* With time or a later first alarm there is only more time.               *)
LEMMA StillRings ==
  ASSUME AlarmInv, IsFiniteSet(Alarm), NEW v, Rings(v), v \in 0 .. Period - 1,
         \/ now' = now
         \/ now' = now + 1 /\ UpTo(v, now) # 1,
         deadline'[Head(queue')] \in Nat,
         deadline[Head(queue)] <= deadline'[Head(queue')]
  PROVE  LET due == deadline'[Head(queue')]
         IN  now' + UpTo(v, now') <= (IF due > now' THEN due ELSE now')
                                      + Cardinality(Alarm) * Coalesce
  <1>1. PICK x, y, n, u : /\ x = deadline[Head(queue)] /\ y = deadline'[Head(queue')]
                          /\ n = Cardinality(Alarm) * Coalesce /\ u = UpTo(v, now)
    OBVIOUS
  <1>2. now \in Nat /\ QueueInv  BY DEF AlarmInv, TimeInv, QueueInv
  <1>3. x \in Nat /\ y \in Nat /\ x <= y
    <2>1. Head(queue) \in Records  BY <1>2, FirstOf
    <2> QED BY <1>1, <2>1 DEF AlarmInv, TimeInv
  <1>4. n \in Nat
    <2>1. Cardinality(Alarm) \in Nat /\ Coalesce \in Nat
      BY FS_CardinalityType, Sizes
    <2>2. \A i, j \in Nat : i * j \in Nat  OBVIOUS
    <2> QED BY <1>1, <2>1, <2>2
  <1>5. u \in 1 .. Period /\ u \in Int /\ v \in Int /\ now \in Int
    BY <1>1, <1>2, UpToIs, Sizes
  <1>6. now + u <= (IF x > now THEN x ELSE now) + n  BY <1>1 DEF Rings
  <1>7. CASE now' = now
    <2>1. now + u <= (IF y > now THEN y ELSE now) + n
      BY <1>2, <1>3, <1>4, <1>5, <1>6
    <2> QED BY <1>1, <1>7, <2>1
  <1>8. CASE now' = now + 1 /\ u # 1
    <2>1. UpTo(v, now + 1) = u - 1  BY <1>1, <1>5, <1>8, UpToTick
    <2>2. now + 1 + (u - 1) <= (IF y > now + 1 THEN y ELSE now + 1) + n
      BY <1>2, <1>3, <1>4, <1>5, <1>6
    <2> QED BY <1>1, <1>8, <2>1, <2>2
  <1> QED BY <1>1, <1>7, <1>8

LEMMA AlarmStarts ==
  ASSUME ReadInTime, IsFiniteSet(Alarm), Alarm # {}, Init
  PROVE  AlarmInv
  <1>1. TimeInv  BY TimeInit
  <1>2. now = 0 /\ compare = Granularity % Period /\ doing = "nothing"
    BY DEF Init
  <1>3. UpTo(compare, now) <= Granularity /\ compare \in 0 .. Period - 1
    <2>1. Granularity \in Nat /\ now \in Nat /\ Granularity > now /\ Granularity - now = Granularity
      BY <1>2, Sizes
    <2>2. /\ Granularity % Period \in 0 .. Period - 1
          /\ UpTo(Granularity % Period, now) <= Granularity - now
      BY ONLY <2>1, UpToMoment
    <2> QED BY <1>2, <2>1, <2>2
  <1>4. PICK x, n, c, u : /\ x = deadline[Head(queue)] /\ n = Cardinality(Alarm)
                          /\ c = Coalesce /\ u = UpTo(compare, now)
    OBVIOUS
  <1>5. x \in Nat
    <2>1. Head(queue) \in Records  BY <1>1, FirstOf DEF TimeInv
    <2> QED BY <1>1, <1>4, <2>1 DEF TimeInv
  <1>6. n \in Nat /\ n >= 1 /\ c \in Nat /\ c >= Granularity
    <2>1. n \in Nat  BY <1>4, FS_CardinalityType
    <2>2. n # 0  BY <1>4, FS_EmptySet
    <2> QED BY <1>4, <2>1, <2>2, Sizes
  <1>7. n * c \in Nat /\ c <= n * c
    <2>1. \A i, j \in Nat : i * j \in Nat /\ (i >= 1 => j <= i * j)  BY Z3
    <2> QED BY <1>6, <2>1
  <1>8. u \in Int  BY <1>2, <1>3, <1>4, UpToIs, Sizes
  <1>9. now + u <= (IF x > now THEN x ELSE now) + n * c
    BY <1>2, <1>3, <1>4, <1>5, <1>6, <1>7, <1>8, Sizes
  <1>10. Rings(compare)  BY <1>4, <1>9 DEF Rings
  <1> QED BY <1>1, <1>2, <1>10 DEF AlarmInv

LEMMA SetAlarmRings ==
  ASSUME AlarmInv, TimeInv', IsFiniteSet(Alarm), NEW a \in Alarm, NEW delta \in Deltas,
         SetAlarm(a, delta)
  PROVE  AlarmInv'
  <1>1. /\ arming' = Armed(queue', deadline') /\ now' = now
        /\ doing' \in {"write", "writeInWalk"}
    BY DEF SetAlarm
  <1>2. ReadClock = now /\ now \in Nat  BY Reads DEF AlarmInv, TimeInv, QueueInv
  <1>3. PICK q, d : q = queue' /\ d = deadline'  OBVIOUS
  <1>4. Ordered(q, d) /\ (\A r \in Records : d[r] \in Nat) /\ Holds(q, Permanent)
    BY <1>3 DEF TimeInv, QueueInv, Ordered, Holds
  <1>5. q \in Seq(Records) /\ Len(q) > 0 /\ Head(q) = q[1]
    <2>1. q \in Seq(Records) /\ Len(q) \in Nat  BY <1>4 DEF Ordered
    <2>2. Len(q) > 0  BY <1>4, <2>1 DEF Holds
    <2> QED BY <2>1, <2>2
  <1>6. Alarm # {}  OBVIOUS
  <1>7. LET due == d[q[1]]
        IN  now + UpTo(Armed(q, d), now)
              <= (IF due > now THEN due ELSE now) + Cardinality(Alarm) * Coalesce
    BY ONLY <1>2, <1>4, <1>5, <1>6, IsFiniteSet(Alarm), ArmedRings
  <1>8. Rings(arming)'  BY <1>1, <1>3, <1>5, <1>7 DEF Rings, UpTo
  <1> QED BY <1>1, <1>8 DEF AlarmInv

LEMMA CancelAlarmRings ==
  ASSUME AlarmInv, TimeInv', IsFiniteSet(Alarm), NEW a \in Alarm, CancelAlarm(a)
  PROVE  AlarmInv'
  <1>1. /\ queue' = Without(queue, a) /\ a \in Queued /\ doing \in {"nothing", "walk"}
        /\ UNCHANGED <<now, compare, flags, seen, deadline, doing, arming, lag>>
    BY DEF CancelAlarm
  <1>2. QueueInv /\ QueueInv' /\ compare \in 0 .. Period - 1
    BY DEF AlarmInv, TimeInv
  <1>3. Holds(queue, a)  BY <1>1, <1>2, QueuedHolds DEF QueueInv
  <1>4. Holds(queue, Head(queue')) /\ Head(queue') \in Records
    <2>1. PICK q : q = queue'  OBVIOUS
    <2>2. Ordered(q, deadline) /\ \E k \in 1 .. Len(q) : q[k] = Permanent
      BY <1>1, <1>2, <2>1 DEF QueueInv, Holds
    <2>3. q \in Seq(Records) /\ Len(q) \in Nat  BY <2>2 DEF Ordered
    <2>4. 1 \in 1 .. Len(q) /\ Head(q) = q[1] /\ q[1] \in Records  BY <2>2, <2>3
    <2>5. Holds(q, Head(q))  BY <2>4 DEF Holds
    <2>6. \A b : Holds(q, b) => Holds(queue, b)
      BY <1>1, <1>2, <1>3, <2>1, WithoutOrders DEF QueueInv
    <2> QED BY <2>1, <2>4, <2>5, <2>6
  <1>5. deadline[Head(queue)] <= deadline[Head(queue')] /\ deadline[Head(queue')] \in Nat
    <2>1. PICK k \in 1 .. Len(queue) : queue[k] = Head(queue')  BY <1>4 DEF Holds
    <2>2. Head(queue) = queue[1] /\ Len(queue) \in Nat /\ Ordered(queue, deadline)
      BY <1>2, FirstOf DEF QueueInv
    <2>3. deadline[Head(queue')] \in Nat  BY <1>4 DEF AlarmInv, TimeInv
    <2>4. CASE k = 1  BY <2>1, <2>2, <2>3, <2>4
    <2>5. CASE k # 1
      <3>1. 1 \in 1 .. Len(queue) /\ 1 < k  BY <2>2, <2>5
      <3> QED BY <2>1, <2>2, <2>3, <3>1 DEF Ordered
    <2> QED BY <2>4, <2>5
  <1>6. ASSUME doing' = "nothing", "target" \notin flags'
        PROVE  Rings(compare)'
    <2>1. Rings(compare)  BY <1>1, <1>6 DEF AlarmInv
    <2>2. LET due == deadline'[Head(queue')]
          IN  now' + UpTo(compare, now') <= (IF due > now' THEN due ELSE now')
                                      + Cardinality(Alarm) * Coalesce
      BY <1>1, <1>2, <1>5, <2>1, StillRings
    <2> QED BY <1>1, <2>2 DEF Rings, UpTo
  <1> QED BY <1>1, <1>6 DEF AlarmInv

LEMMA LeaveHandlerRings ==
  ASSUME AlarmInv, TimeInv', IsFiniteSet(Alarm), LeaveHandler
  PROVE  AlarmInv'
  <1>1. QueueInv /\ ReadClock = now /\ now \in Nat
    BY Reads DEF AlarmInv, TimeInv, QueueInv
  <1>2. Len(queue) > 0 /\ queue # <<>> /\ Head(queue) = queue[1] /\ Head(queue) \in Records
    BY <1>1, FirstOf
  <1>3. /\ arming' = Armed(queue, deadline) /\ doing' = "write" /\ ~Due
        /\ UNCHANGED <<now, queue, deadline>>
    BY <1>2 DEF LeaveHandler
  <1>4. Ordered(queue, deadline) /\ \A r \in Records : deadline[r] \in Nat
    BY DEF AlarmInv, TimeInv, QueueInv
  <1>5. deadline[queue[1]] > now  BY <1>1, <1>2, <1>3, <1>4 DEF Due
  <1>6. LET due == deadline[queue[1]]
        IN  now + UpTo(Armed(queue, deadline), now)
              <= (IF due > now THEN due ELSE now) + Cardinality(Alarm) * Coalesce
    BY ONLY <1>1, <1>2, <1>4, <1>5, IsFiniteSet(Alarm), ArmedRings
  <1>7. Rings(arming)'  BY <1>2, <1>3, <1>6 DEF Rings, UpTo
  <1> QED BY <1>3, <1>7 DEF AlarmInv

LEMMA TickRings ==
  ASSUME AlarmInv, TimeInv', IsFiniteSet(Alarm), ReadInTime, Tick
  PROVE  AlarmInv'
  <1>1. /\ doing \notin {"write", "writeInWalk"} /\ now' = now + 1
        /\ flags \subseteq flags'
        /\ (now + 1) % Period = compare => "target" \in flags'
        /\ UNCHANGED <<compare, queue, deadline, doing, arming>>
    BY DEF Tick, ReadInTime
  <1>2. QueueInv /\ compare \in 0 .. Period - 1 /\ now \in Nat
    BY DEF AlarmInv, TimeInv, QueueInv
  <1>3. ASSUME doing' = "nothing", "target" \notin flags'
        PROVE  Rings(compare)'
    <2>1. Rings(compare)  BY <1>1, <1>3 DEF AlarmInv
    <2>2. UpTo(compare, now) # 1
      <3>1. now \in Int  BY <1>2
      <3> QED BY <1>1, <1>2, <1>3, <3>1, UpToTick
    <2>3. Head(queue) \in Records  BY <1>2, FirstOf
    <2>4. PICK x : x = deadline[Head(queue)]  OBVIOUS
    <2>5. x \in Nat /\ x <= x  BY <2>3, <2>4 DEF AlarmInv, TimeInv
    <2>6. LET due == deadline'[Head(queue')]
          IN  now' + UpTo(compare, now') <= (IF due > now' THEN due ELSE now')
                                      + Cardinality(Alarm) * Coalesce
      BY <1>1, <1>2, <2>1, <2>2, <2>4, <2>5, StillRings
    <2> QED BY <1>1, <2>6 DEF Rings, UpTo
  <1> QED BY <1>1, <1>3 DEF AlarmInv

LEMMA AlarmNext ==
  ASSUME AlarmInv, ReadInTime, IsFiniteSet(Alarm), [Next]_vars
  PROVE  AlarmInv'
  <1>1. TimeInv'  BY TimeNext DEF AlarmInv
  <1>2. ASSUME NEW a \in Alarm, CancelAlarm(a) PROVE AlarmInv'
    BY <1>1, <1>2, CancelAlarmRings
  <1>3. ASSUME NEW a \in Alarm, NEW delta \in Deltas, SetAlarm(a, delta)
        PROVE  AlarmInv'
    BY <1>1, <1>3, SetAlarmRings
  <1>4. ASSUME NEW again \in {0, 1, Coalesce + 1}, FireAlarm(again) PROVE AlarmInv'
    BY <1>1, <1>4 DEF FireAlarm, AlarmInv
  <1>5. CASE EnterHandler
    BY <1>1, <1>5 DEF EnterHandler, AlarmInv, Rings, UpTo
  <1>6. CASE LeaveHandler  BY <1>1, <1>6, LeaveHandlerRings
  <1>7. CASE WriteCompare
    BY <1>1, <1>7 DEF WriteCompare, AlarmInv, Rings, UpTo
  <1>8. CASE Tick  BY <1>1, <1>8, TickRings
  <1>9. CASE UNCHANGED vars
    BY <1>1, <1>9 DEF vars, AlarmInv, Rings, UpTo
  <1> QED BY <1>2, <1>3, <1>4, <1>5, <1>6, <1>7, <1>8, <1>9 DEF Next

(* Under the same conditions, for any finite number of alarms, the timer   *)
(* has always an interrupt coming for the first of the queue, however      *)
(* alarms are set, cancelled and fired: no later than the windows of the   *)
(* alarms that may share it, from its deadline or, if that is past, from   *)
(* now (armTimer).                                                         *)
THEOREM AlarmsWillRing ==
  ReadInTime /\ IsFiniteSet(Alarm) /\ Alarm # {} => (Spec => []AlarmWillRing)
  <1> SUFFICES ASSUME ReadInTime, IsFiniteSet(Alarm), Alarm # {}
               PROVE  Spec => []AlarmWillRing
    OBVIOUS
  <1>1. Init => AlarmInv  BY AlarmStarts
  <1>2. AlarmInv /\ [Next]_vars => AlarmInv'  BY AlarmNext
  <1>3. AlarmInv => AlarmWillRing
    BY DEF AlarmInv, AlarmWillRing, ToTarget, Rings, UpTo
  <1> QED BY <1>1, <1>2, <1>3, PTL DEF Spec

-----------------------------------------------------------------------------
(***************************************************************************)
(* No completed transfer is stranded, for any lines and channels.  The     *)
(* property speaks of the moments between interrupts; what carries it      *)
(* through the dispatch is where the walk over the banks may leave the     *)
(* request high without a pending line, and that the pulse ends it.        *)
(***************************************************************************)
Walking == {"Scan", "Bank1", "Serve1", "Bank2", "Serve2", "PulseLow"}
DispatchPlace ==
  Walking \cup {"Thread", "Handler", "Return", "PulseHigh"}

(* A request is announced: the DMA line is pending. *)
Announced == Request(dicr) => DmaLine \in stat

IntrmanShape ==
  /\ DOMAIN walk = {"at", "line", "left", "called"}
  /\ walk.at \in DispatchPlace
  /\ walk.called \in BOOLEAN
  /\ DOMAIN dicr = {"enable", "flag", "master", "force"}

(* Calls are made from a thread or a handler only, so between the scan     *)
(* that found nothing and the end of the pulse nobody forces a request or  *)
(* sets the master enable; outside the walk and the pulse a request is     *)
(* announced; the DMA line keeps its handler.                              *)
Guarded ==
  /\ walk.called => walk.at \in {"Serve1", "Serve2"}
  /\ walk.at \in {"PulseLow", "PulseHigh"} => ~dicr.force
  /\ walk.at = "PulseHigh" => ~dicr.master
  /\ walk.at \in {"Thread", "Handler", "Return"} => Announced
  /\ DmaLine \in handled

IntrmanInv == IntrmanShape /\ Guarded

(* A write of DICR announces the request it raises, and keeps one that is  *)
(* announced (the edge-triggered DMA bit of I_STAT).                       *)
LEMMA WriteAnnounces ==
  ASSUME NEW d, Announced \/ ~Request(dicr), WriteDicr(d)
  PROVE  Announced'
  BY DEF Announced, WriteDicr

(* The start of the module leaves every register clear.                    *)
LEMMA IntrmanInitHolds == IntrmanInit => IntrmanInv
  BY DEF IntrmanInit, IntrmanInv, IntrmanShape, Guarded, Announced, Request,
         Thread, DispatchPlace, Walking

(* What the devices, the threads' and the handlers' calls do.              *)
LEMMA LineCallsHold ==
  ASSUME IntrmanInv,
         \/ \E c \in Channel : Complete(c)
         \/ ForceRequest
         \/ \E l \in PlainLine : RaiseLine(l)
         \/ \E i \in Irq \ {DmaLine} :
              RegisterIntrHandler(i) \/ ReleaseIntrHandler(i)
         \/ \E i \in Irq : EnableIntr(i) \/ DisableIntr(i)
                           \/ DisableDispatchIntr(i) \/ EnableDispatchIntr(i)
  PROVE  IntrmanInv'
  <1> USE DEF IntrmanInv, IntrmanShape, Guarded, Announced, DispatchPlace, Walking
  <1>1. CASE \E c \in Channel : Complete(c)
    BY <1>1 DEF Complete, WriteDicr, Request
  <1>2. CASE ForceRequest
    BY <1>2 DEF ForceRequest, Calling, WriteDicr, Request
  <1>3. CASE \E l \in PlainLine : RaiseLine(l)
    BY <1>3 DEF RaiseLine
  <1>4. CASE \E i \in Irq \ {DmaLine} :
               RegisterIntrHandler(i) \/ ReleaseIntrHandler(i)
    BY <1>4 DEF RegisterIntrHandler, ReleaseIntrHandler
  <1>5. ASSUME NEW i \in Irq, EnableIntr(i)
        PROVE  IntrmanInv'
    BY <1>5 DEF EnableIntr, Calling, WriteDicr, Request
  <1>6. ASSUME NEW i \in Irq, DisableIntr(i)
        PROVE  IntrmanInv'
    BY <1>6 DEF DisableIntr, Calling, WriteDicr, Request
  <1>7. CASE \E i \in Irq : DisableDispatchIntr(i) \/ EnableDispatchIntr(i)
    BY <1>7 DEF DisableDispatchIntr, EnableDispatchIntr
  <1> QED BY <1>1, <1>2, <1>3, <1>4, <1>5, <1>6, <1>7

(* The dispatch of a line, and its return.                                 *)
LEMMA DispatchHolds ==
  ASSUME IntrmanInv,
         \/ TakeInterrupt
         \/ \E keep \in BOOLEAN : HandlerAnswers(keep)
         \/ ReturnFromInterrupt
  PROVE  IntrmanInv'
  <1> USE DEF IntrmanInv, IntrmanShape, Guarded, Announced, DispatchPlace, Walking
  <1>1. CASE TakeInterrupt
    <2> DEFINE irq == Min(Pending)
    <2>1. CASE irq = DmaLine
      BY <1>1, <2>1 DEF TakeInterrupt, Request
    <2>2. CASE irq # DmaLine
      BY <1>1, <2>2 DEF TakeInterrupt, Request
    <2> QED BY <2>1, <2>2
  <1>2. CASE \E keep \in BOOLEAN : HandlerAnswers(keep)
    <2> PICK keep \in BOOLEAN : HandlerAnswers(keep)
      BY <1>2
    <2>1. CASE keep
      <3>1. walk' = [walk EXCEPT !.at = "Return"]
        BY <2>1 DEF HandlerAnswers
      <3> QED BY <3>1 DEF HandlerAnswers, Request
    <2>2. CASE ~keep
      <3>1. walk' = Thread /\ walk.at = "Handler"
        BY <2>2 DEF HandlerAnswers
      <3>2. UNCHANGED <<stat, dicr, handled>>
        BY DEF HandlerAnswers
      <3> QED BY <3>1, <3>2 DEF Thread, Request
    <2> QED BY <2>1, <2>2
  <1>3. CASE ReturnFromInterrupt
    BY <1>3 DEF ReturnFromInterrupt, Thread
  <1> QED BY <1>1, <1>2, <1>3

(* A bank's walk either ends or clears the flag of one more channel.       *)
LEMMA ServeChannelHolds ==
  ASSUME NEW serving \in {"Serve1", "Serve2"},
         NEW next \in {"Bank2", "Scan"},
         IntrmanInv, ServeChannel(serving, next)
  PROVE  IntrmanInv'
  <1> USE DEF IntrmanInv, IntrmanShape, Guarded, Announced, DispatchPlace, Walking
  <1>1. CASE walk.left = {}
    BY <1>1 DEF ServeChannel
  <1>2. CASE walk.left # {}
    <2> DEFINE called == Min(walk.left) \in handled
               left == walk.left \ {Min(walk.left)}
    <2>1. /\ walk' = [walk EXCEPT !.left = left, !.called = called]
          /\ dicr' = [dicr EXCEPT !.flag = dicr.flag \ {Min(walk.left)}]
          /\ handled' = handled
          /\ walk.at = serving
      BY <1>2 DEF ServeChannel, WriteDicr
    <2>2. called \in BOOLEAN
      OBVIOUS
    <2> HIDE DEF called, left
    <2> QED BY <2>1, <2>2
  <1> QED BY <1>1, <1>2

(* The walk over the banks, and the pulse.                                 *)
LEMMA WalkHolds ==
  ASSUME IntrmanInv,
         \/ DmaScan
         \/ ReadBank(Bank1, "Bank1", "Serve1")
         \/ ServeChannel("Serve1", "Bank2")
         \/ ReadBank(Bank2, "Bank2", "Serve2")
         \/ ServeChannel("Serve2", "Scan")
         \/ PulseLow
         \/ PulseHigh
  PROVE  IntrmanInv'
  <1> USE DEF IntrmanInv, IntrmanShape, Guarded, Announced, DispatchPlace, Walking
  <1>1. CASE DmaScan
    BY <1>1 DEF DmaScan, WriteDicr
  <1>2. CASE ReadBank(Bank1, "Bank1", "Serve1")
    BY <1>2 DEF ReadBank
  <1>3. CASE ServeChannel("Serve1", "Bank2")
    BY <1>3, ServeChannelHolds
  <1>4. CASE ReadBank(Bank2, "Bank2", "Serve2")
    BY <1>4 DEF ReadBank
  <1>5. CASE ServeChannel("Serve2", "Scan")
    BY <1>5, ServeChannelHolds
  <1>6. CASE PulseLow
    BY <1>6 DEF PulseLow, WriteDicr
  <1>7. CASE PulseHigh
    BY <1>7, WriteAnnounces DEF PulseHigh, Request, WriteDicr
  <1> QED BY <1>1, <1>2, <1>3, <1>4, <1>5, <1>6, <1>7

(***************************************************************************)
(* Outside an interrupt a flagged, enabled channel has the DMA line        *)
(* pending, in every behaviour of the tables, the masks and the dispatch   *)
(* (_intrman_dispatch and dmaDispatch, intrman.cpp).                       *)
(***************************************************************************)
THEOREM IntrmanNoTransferStranded == IntrmanSpec => []NoTransferStranded
  <1>1. IntrmanInv /\ [IntrmanNext]_intrmanVars => IntrmanInv'
    <2> SUFFICES ASSUME IntrmanInv, [IntrmanNext]_intrmanVars
                 PROVE  IntrmanInv'
      OBVIOUS
    <2>1. CASE UNCHANGED intrmanVars
      BY <2>1 DEF intrmanVars, IntrmanInv, IntrmanShape, Guarded, Announced,
                  Request
    <2>2. CASE IntrmanNext
      BY <2>2, LineCallsHold, DispatchHolds, WalkHolds DEF IntrmanNext
    <2> QED BY <2>1, <2>2
  <1>2. IntrmanInv => NoTransferStranded
    BY DEF IntrmanInv, Guarded, Announced, NoTransferStranded
  <1> QED BY IntrmanInitHolds, <1>1, <1>2, PTL DEF IntrmanSpec

-----------------------------------------------------------------------------
(***************************************************************************)
(* The EE's handler lists.  Each record in use is in the list of a source  *)
(* w[k] and has a rank r[k] there; what leads to it is the record of the   *)
(* next lower rank, or the head.  A record that a walk stands on leads on  *)
(* in the same way after it was removed, as long as no list is changed,    *)
(* which Disciplined sees to.  A walk owes calls to records of higher rank *)
(* than the one it is at, and only to those.                               *)
(***************************************************************************)
Used == {k \in PoolRecord : pool[k].id # 0}
Stood == {levels[n].at : n \in DOMAIN levels} \ {Empty}
In(w, s) == {k \in Used : w[k] = s}
Later(w, r, k) == {j \in Used : w[j] = w[k] /\ r[k] < r[j]}

(* x is the record of S with the lowest rank.                              *)
Foremost(x, S, r) ==
    IF S = {} THEN x = Empty ELSE x \in S /\ \A j \in S : r[x] <= r[j]

HandlersListed(w, r) ==
    /\ \A k \in Used : w[k] \in Source
    /\ \A i, j \in Used : w[i] = w[j] /\ r[i] = r[j] => i = j
    /\ \A s \in Source : Foremost(heads[s], In(w, s), r)
    /\ \A k \in Used \cup Stood : Foremost(pool[k].next, Later(w, r, k), r)

OwedLater(w, r) ==
    \A n \in DOMAIN levels :
        IF levels[n].at = Empty THEN levels[n].owed = {}
        ELSE levels[n].owed \subseteq {pool[j].id : j \in Later(w, r, levels[n].at)}

PoolEntry == [id : Nat, next : PoolRecord \cup {Empty}]
WalkLevel == [left : SUBSET Source, intc : BOOLEAN, at : PoolRecord \cup {Empty},
              owed : SUBSET Nat]

HandlerType ==
    /\ pool \in [PoolRecord -> PoolEntry]
    /\ heads \in [Source -> PoolRecord \cup {Empty}]
    /\ nextId \in Nat \ {0} /\ raised \subseteq Source /\ levels \in Seq(WalkLevel)

HandlerInv ==
    /\ HandlerType
    /\ \E w \in [PoolRecord -> Source \cup {Empty}], r \in [PoolRecord -> Nat] :
         HandlersListed(w, r) /\ OwedLater(w, r)


(* The walk of ListOf meets the records of the source and no other: it     *)
(* goes up in rank without leaving one out, and the pool ends before it    *)
(* does.  What its recursion gives at n is shown by taking the least n for *)
(* which it fails.                                                         *)
LEMMA ListOfHas ==
  ASSUME HandlerType, NEW w \in [PoolRecord -> Source \cup {Empty}],
         NEW r \in [PoolRecord -> Nat],
         HandlersListed(w, r), NEW s \in Source
  PROVE  ListOf(s) = In(w, s)
  <1> DEFINE N == Cardinality(PoolRecord)
             Follow(f, n) == IF n = 0 THEN heads[s]
                           ELSE IF f[n - 1] = Empty THEN Empty
                                ELSE pool[f[n - 1]].next
             Whole(f, m) == f = [n \in 0 .. m |-> Follow(f, n)]
             Meets == CHOOSE f : f = [n \in 0 .. N |-> Follow(f, n)]
             S == In(w, s)
  <1>1. ListOf(s) = {Meets[n] : n \in 0 .. N} \ {Empty}  BY DEF ListOf
  <1>2. N \in Nat /\ Empty \notin PoolRecord /\ S \subseteq PoolRecord
    BY EEIntcAssumption, FS_CardinalityType DEF In, Used
  <1> HIDE DEF N
  <1>3. \A m \in Nat : \E f : Whole(f, m)
    <2> DEFINE Bad == {m \in Nat : ~ \E f : Whole(f, m)}
    <2>1. ASSUME NEW m \in Bad, \A n \in Bad : m <= n  PROVE FALSE
      <3>1. CASE m = 0
        <4> DEFINE f == [n \in 0 .. 0 |-> heads[s]]
        <4>1. Whole(f, 0)  OBVIOUS
        <4> QED BY <2>1, <3>1, <4>1
      <3>2. CASE m # 0
        <4>1. m \in Nat /\ m - 1 \in Nat /\ ~(m <= m - 1)  BY <3>2
        <4>2. m - 1 \notin Bad
          <5> HIDE DEF Bad
          <5> QED BY <2>1, <4>1
        <4>3. PICK f : Whole(f, m - 1)  BY <4>1, <4>2
        <4> DEFINE g == [n \in 0 .. m |-> IF n < m THEN f[n] ELSE Follow(f, m)]
        <4>4. ASSUME NEW n \in 0 .. m  PROVE g[n] = Follow(g, n)
          <5>1. n # 0 => g[n - 1] = f[n - 1]  BY <4>1
          <5>2. Follow(g, n) = Follow(f, n)
            <6> HIDE DEF g
            <6> QED BY <5>1
          <5>3. n < m => n \in 0 .. (m - 1)  BY <4>1
          <5>4. g[n] = IF n < m THEN f[n] ELSE Follow(f, m)  OBVIOUS
          <5>5. n < m \/ n = m  BY <4>1
          <5>6. n < m => f[n] = Follow(f, n)
            <6> DEFINE T == [x \in 0 .. m - 1 |-> Follow(f, x)]
            <6>1. f = T  BY <4>3
            <6>2. n < m => T[n] = Follow(f, n)  BY <5>3
            <6> HIDE DEF T, Follow
            <6> QED BY <6>1, <6>2
          <5> HIDE DEF Follow, g, Whole
          <5> QED BY <5>2, <5>4, <5>5, <5>6
        <4> DEFINE G(x) == Follow(g, x)
        <4>5. g = [x \in 0 .. m |-> G(x)]
          <5>1. \A x \in 0 .. m : g[x] = G(x)  BY <4>4
          <5>2. g = [x \in 0 .. m |-> g[x]]  OBVIOUS
          <5> HIDE DEF G, g
          <5> QED BY <5>1, <5>2
        <4>6. Whole(g, m)  BY <4>5
        <4> QED BY <4>6
      <3> QED BY <3>1, <3>2
    <2>2. Bad = {}
      <3>1. Bad \in SUBSET Nat  OBVIOUS
      <3> HIDE DEF Bad
      <3>2. Bad # {} => Min(Bad) \in Bad /\ \A y \in Bad : Min(Bad) <= y
        BY <3>1, MinOfNaturals
      <3> QED BY <2>1, <3>2
    <2> HIDE DEF Whole
    <2> QED BY <2>2
  <1>4. Whole(Meets, N)
    <2>1. PICK f : Whole(f, N)  BY <1>2, <1>3
    <2> QED BY <2>1
  <1> HIDE DEF Meets
  <1>5. \A n \in 0 .. N : Meets[n] = Follow(Meets, n)  BY <1>4
  <1> HIDE DEF Whole, S
  <1>6. Foremost(heads[s], S, r)  BY DEF HandlersListed, S
  <1>7. \A k \in S : Foremost(pool[k].next, Later(w, r, k), r)
                     /\ Later(w, r, k) = {j \in S : r[k] < r[j]}
    BY DEF HandlersListed, S, In, Later
  <1>8. Meets[0] = heads[s]  BY <1>2, <1>5
  <1>9. \A n \in 1 .. N : Meets[n] = IF Meets[n - 1] = Empty THEN Empty
                                    ELSE pool[Meets[n - 1]].next
    BY <1>2, <1>5
  <1> HIDE DEF Follow
  <1>10. \A n \in 0 .. N : Meets[n] \in S \cup {Empty}
    <2> DEFINE Bad == {n \in 0 .. N : Meets[n] \notin S \cup {Empty}}
    <2>1. ASSUME NEW n \in Bad, \A m \in Bad : n <= m  PROVE FALSE
      <3>1. n # 0  BY <1>2, <1>6, <1>8 DEF Foremost
      <3>2. n \in 1 .. N /\ n - 1 \in 0 .. N /\ ~(n <= n - 1)  BY <1>2, <3>1
      <3>3. Meets[n - 1] \in S \cup {Empty}
        <4>1. n - 1 \notin Bad
          <5> HIDE DEF Bad
          <5> QED BY <2>1, <3>2
        <4> QED BY <3>2, <4>1
      <3>4. Meets[n] \in S \cup {Empty}
        BY <1>7, <1>9, <3>2, <3>3 DEF Foremost
      <3> QED BY <3>4
    <2>2. Bad \in SUBSET Nat  BY <1>2
    <2>3. Bad = {}
      <3> HIDE DEF Bad
      <3>2. Bad # {} => Min(Bad) \in Bad /\ \A y \in Bad : Min(Bad) <= y
        BY <2>2, MinOfNaturals
      <3> QED BY <2>1, <3>2
    <2> QED BY <2>3
  <1>11. \A n \in 1 .. N : Meets[n] # Empty =>
           Meets[n - 1] \in S /\ Meets[n] \in S /\ r[Meets[n - 1]] < r[Meets[n]]
           /\ \A j \in S : ~(r[Meets[n - 1]] < r[j] /\ r[j] < r[Meets[n]])
    <2> SUFFICES ASSUME NEW n \in 1 .. N, Meets[n] # Empty
                 PROVE  Meets[n - 1] \in S /\ Meets[n] \in S /\ r[Meets[n - 1]] < r[Meets[n]]
                        /\ \A j \in S : ~(r[Meets[n - 1]] < r[j] /\ r[j] < r[Meets[n]])
      OBVIOUS
    <2>1. n - 1 \in 0 .. N /\ n \in 0 .. N  BY <1>2
    <2>2. Meets[n - 1] \in S /\ Meets[n] \in S /\ Meets[n] = pool[Meets[n - 1]].next
      BY <1>9, <1>10, <2>1
    <2>3. Meets[n] \in {j \in S : r[Meets[n - 1]] < r[j]}
          /\ \A j \in {i \in S : r[Meets[n - 1]] < r[i]} : r[Meets[n]] <= r[j]
      BY <1>2, <1>7, <2>2, EEIntcAssumption DEF Foremost
    <2>4. \A j \in S : r[j] \in Nat  BY <1>2
    <2> QED BY <2>2, <2>3, <2>4
  <1>12. ASSUME NEW k \in S  PROVE \E n \in 0 .. N : Meets[n] = k
    <2> SUFFICES ASSUME \A n \in 0 .. N : Meets[n] # k  PROVE FALSE  OBVIOUS
    <2> DEFINE Bad == {n \in 0 .. N : ~(Meets[n] \in S /\ r[Meets[n]] < r[k])}
    <2>0. \A j \in S : r[j] \in Nat  BY <1>2
    <2>1. ASSUME NEW n \in Bad, \A m \in Bad : n <= m  PROVE FALSE
      <3>1. n # 0
        <4>1. heads[s] \in S /\ r[heads[s]] <= r[k]  BY <1>6 DEF Foremost
        <4>2. heads[s] # k  BY <1>2, <1>8
        <4>3. r[heads[s]] # r[k]  BY <4>1, <4>2 DEF HandlersListed, S, In
        <4> QED BY <1>8, <2>0, <4>1, <4>3
      <3>2. n \in 1 .. N /\ n \in 0 .. N /\ n - 1 \in 0 .. N /\ ~(n <= n - 1)
        BY <1>2, <3>1
      <3>3. Meets[n - 1] \in S /\ r[Meets[n - 1]] < r[k]
        <4>1. n - 1 \notin Bad
          <5> HIDE DEF Bad
          <5> QED BY <2>1, <3>2
        <4> QED BY <3>2, <4>1
      <3>4. k \in {j \in S : r[Meets[n - 1]] < r[j]}  BY <3>3
      <3>5. Meets[n] \in S /\ r[Meets[n]] <= r[k]
        BY <1>2, <1>7, <1>9, <3>2, <3>3, <3>4 DEF Foremost
      <3>6. r[Meets[n]] # r[k]  BY <3>2, <3>5 DEF HandlersListed, S, In
      <3>7. r[Meets[n]] < r[k]  BY <2>0, <3>5, <3>6
      <3> QED BY <3>5, <3>7
    <2>2. Bad \in SUBSET Nat  BY <1>2
    <2>3. Bad = {}
      <3> HIDE DEF Bad
      <3>2. Bad # {} => Min(Bad) \in Bad /\ \A y \in Bad : Min(Bad) <= y
        BY <2>2, MinOfNaturals
      <3> QED BY <2>1, <3>2
    <2>4. \A n \in 0 .. N : Meets[n] \in S  BY <2>3
    <2>5. \A n \in 1 .. N : r[Meets[n - 1]] < r[Meets[n]]
      <3> SUFFICES ASSUME NEW n \in 1 .. N PROVE r[Meets[n - 1]] < r[Meets[n]]
        OBVIOUS
      <3>1. n \in 0 .. N  BY <1>2
      <3>2. Meets[n] # Empty  BY <1>2, <2>4, <3>1
      <3> QED BY <1>11, <3>2
    <2>6. \A n, m \in 0 .. N : n < m => r[Meets[n]] < r[Meets[m]]
      <3> SUFFICES ASSUME NEW n \in 0 .. N
                   PROVE  \A m \in 0 .. N : n < m => r[Meets[n]] < r[Meets[m]]
        OBVIOUS
      <3> DEFINE Off == {m \in 0 .. N : n < m /\ ~(r[Meets[n]] < r[Meets[m]])}
      <3>1. ASSUME NEW m \in Off, \A x \in Off : m <= x  PROVE FALSE
        <4>1. m \in 1 .. N /\ m - 1 \in 0 .. N /\ ~(m <= m - 1)
              /\ (m - 1 = n \/ n < m - 1)
          BY <1>2
        <4>2. m - 1 \notin Off
          <5> HIDE DEF Off
          <5> QED BY <3>1, <4>1
        <4>3. r[Meets[m - 1]] < r[Meets[m]]  BY <2>5, <4>1
        <4>4. r[Meets[n]] \in Nat /\ r[Meets[m - 1]] \in Nat /\ r[Meets[m]] \in Nat
          BY <2>0, <2>4, <4>1
        <4>5. m - 1 = n \/ r[Meets[n]] < r[Meets[m - 1]]  BY <4>1, <4>2
        <4> QED BY <4>3, <4>4, <4>5
      <3>2. Off \in SUBSET Nat  BY <1>2
      <3>3. Off = {}
        <4> HIDE DEF Off
        <4>1. Off # {} => Min(Off) \in Off /\ \A y \in Off : Min(Off) <= y
          BY <3>2, MinOfNaturals
        <4> QED BY <3>1, <4>1
      <3> QED BY <3>3
    <2> DEFINE Places == 0 .. N
               F == [n \in Places |-> Meets[n]]
    <2>7. IsFiniteSet(Places) /\ Cardinality(Places) = N + 1
      <3>1. 0 \in Int /\ N \in Int /\ ~(0 > N) /\ N - 0 + 1 = N + 1  BY <1>2
      <3> QED BY <3>1, FS_Interval
    <2>8. F \in [Places -> PoolRecord]  BY <1>2, <2>4
    <2>9. IsFiniteSet(PoolRecord) /\ Cardinality(PoolRecord) < Cardinality(Places)
      <3>1. N < N + 1  BY <1>2
      <3> QED BY <2>7, <3>1, EEIntcAssumption DEF N
    <2>10. \E x, y \in Places : x # y /\ F[x] = F[y]
      <3> HIDE DEF Places, F
      <3> QED BY <2>7, <2>8, <2>9, FS_PigeonHole
    <2>11. PICK x, y \in 0 .. N : x # y /\ Meets[x] = Meets[y]  BY <2>10
    <2>12. r[Meets[x]] \in Nat /\ (x < y \/ y < x)  BY <1>2, <2>0, <2>4, <2>11
    <2> QED BY <2>6, <2>11, <2>12
  <1> QED BY <1>1, <1>2, <1>10, <1>12 DEF S

LEMMA HandlersInit == EEIntcInit => HandlerInv
  <1> SUFFICES ASSUME EEIntcInit PROVE HandlerInv  OBVIOUS
  <1>1. HandlerType
    <2>1. pool \in [PoolRecord -> PoolEntry]  BY DEF EEIntcInit, PoolEntry
    <2>2. heads \in [Source -> PoolRecord \cup {Empty}]  BY DEF EEIntcInit
    <2> QED BY <2>1, <2>2 DEF EEIntcInit, HandlerType
  <1>2. Used = {} /\ Stood = {} /\ levels = <<>> /\ heads = [s \in Source |-> Empty]
    BY DEF EEIntcInit, Used, Stood
  <1> DEFINE w == [k \in PoolRecord |-> Empty]
             r == [k \in PoolRecord |-> 0]
  <1>3. w \in [PoolRecord -> Source \cup {Empty}] /\ r \in [PoolRecord -> Nat]
    OBVIOUS
  <1> HIDE DEF w, r
  <1>4. HandlersListed(w, r) /\ OwedLater(w, r)
    BY <1>2 DEF HandlersListed, OwedLater, Foremost, In
  <1> QED BY <1>1, <1>3, <1>4 DEF HandlerInv

(* The lists are as they were.  A level that stands on a record does so    *)
(* on one that was stood on, or on one in use.                             *)
LEMMA ListsStay ==
  ASSUME HandlerType, HandlerType', NEW w, NEW r, HandlersListed(w, r),
         UNCHANGED <<pool, heads>>,
         \A n \in DOMAIN levels' :
           levels'[n].at # Empty => levels'[n].at \in Used \cup Stood
  PROVE  HandlersListed(w, r)'
  <1>1. Used' = Used /\ (\A s : In(w, s)' = In(w, s))
        /\ (\A k : Later(w, r, k)' = Later(w, r, k))
    BY DEF Used, In, Later
  <1>2. Stood' \subseteq Used \cup Stood  BY DEF Stood
  <1> QED BY <1>1, <1>2 DEF HandlersListed

(* Where handlers are disciplined, walks stand on records in use only.     *)
LEMMA StoodUsed ==
  ASSUME HandlerType, Disciplined
  PROVE  Stood \subseteq Used
  <1>1. \A n \in DOMAIN levels : levels[n] \in WalkLevel  BY DEF HandlerType
  <1>2. \A n \in DOMAIN levels : levels[n].at \in PoolRecord \cup {Empty}
    BY <1>1 DEF WalkLevel
  <1>3. \A n \in DOMAIN levels : levels[n].at # Empty => levels[n].at \in Used
    BY <1>2 DEF Disciplined, Used
  <1> QED BY <1>3 DEF Stood

LEMMA AddHolds ==
  ASSUME HandlerInv, NEW s \in Source, AddHandler(s)
  PROVE  HandlerInv'
  <1>1. PICK w \in [PoolRecord -> Source \cup {Empty}], r \in [PoolRecord -> Nat] :
          HandlersListed(w, r) /\ OwedLater(w, r)
    BY DEF HandlerInv
  <1> DEFINE free == {k \in PoolRecord : pool[k].id = 0}
  <1>2. HandlerType /\ free # {} /\ Disciplined  BY DEF HandlerInv, AddHandler
  <1>3. PICK f \in free : f = Min(free)
    <2>1. free \in SUBSET Nat  BY EEIntcAssumption
    <2> HIDE DEF free
    <2> QED BY <1>2, <2>1, MinOfNaturals
  <1>4. /\ pool' = [pool EXCEPT ![f] = [id |-> nextId, next |-> heads[s]]]
        /\ heads' = [heads EXCEPT ![s] = f]
        /\ nextId' = nextId + 1 /\ raised' = raised /\ levels' = levels
    BY <1>3 DEF AddHandler
  <1>5. f \in PoolRecord /\ f \notin Used /\ nextId # 0
    BY <1>2, <1>3 DEF Used, HandlerType
  <1> HIDE DEF free
  <1>6. HandlerType'
    <2>1. [id |-> nextId, next |-> heads[s]] \in PoolEntry
      BY <1>2 DEF HandlerType, PoolEntry
    <2>2. pool' \in [PoolRecord -> PoolEntry]  BY <1>2, <1>4, <1>5, <2>1 DEF HandlerType
    <2>3. heads' \in [Source -> PoolRecord \cup {Empty}]
      BY <1>2, <1>4, <1>5 DEF HandlerType
    <2> QED BY <1>2, <1>4, <2>2, <2>3 DEF HandlerType
  <1>7. PICK u \in [PoolRecord -> Source \cup {Empty}], q \in [PoolRecord -> Nat] :
          /\ u[f] = s /\ q[f] = 0
          /\ \A x \in PoolRecord : x # f => u[x] = w[x] /\ q[x] = r[x] + 1
    <2> DEFINE u == [w EXCEPT ![f] = s]
               q == [x \in PoolRecord |-> IF x = f THEN 0 ELSE r[x] + 1]
    <2>1. u \in [PoolRecord -> Source \cup {Empty}] /\ q \in [PoolRecord -> Nat]
          /\ u[f] = s /\ q[f] = 0
          /\ \A x \in PoolRecord : x # f => u[x] = w[x] /\ q[x] = r[x] + 1
      BY <1>5
    <2> HIDE DEF u, q
    <2> QED BY <2>1
  <1>8. Used' = Used \cup {f} /\ \A x \in PoolRecord : x # f => pool'[x] = pool[x]
    <2>1. \A x \in PoolRecord : x # f => pool'[x] = pool[x]
      BY <1>2, <1>4, <1>5 DEF HandlerType
    <2>2. pool'[f].id # 0
      <3>1. pool'[f] = [id |-> nextId, next |-> heads[s]]
        BY <1>2, <1>4, <1>5 DEF HandlerType
      <3> QED BY <1>5, <3>1
    <2>3. \A x \in PoolRecord : pool'[x].id # 0 <=> pool[x].id # 0 \/ x = f
      BY <2>1, <2>2
    <2>4. Used' = {x \in PoolRecord : pool'[x].id # 0}  BY DEF Used
    <2>5. Used = {x \in PoolRecord : pool[x].id # 0}  BY DEF Used
    <2>6. Used' = Used \cup {f}  BY <1>5, <2>3, <2>4, <2>5
    <2> QED BY <2>1, <2>6
  <1>9. Stood \subseteq Used /\ Stood' = Stood
    BY <1>2, <1>4, StoodUsed DEF Stood
  <1>10. Used \subseteq PoolRecord /\ \A x \in Used : x # f  BY <1>5 DEF Used
  <1>11. \A x \in Used : r[x] \in Nat /\ q[x] = r[x] + 1 /\ q[f] < q[x]
    BY <1>7, <1>10
  <1>12. \A x \in Used : Later(u, q, x)' = Later(w, r, x)
    <2> SUFFICES ASSUME NEW x \in Used  PROVE Later(u, q, x)' = Later(w, r, x)
      OBVIOUS
    <2>1. \A j \in Used : u[j] = w[j] /\ (q[x] < q[j] <=> r[x] < r[j])
      BY <1>7, <1>10, <1>11
    <2>2. u[x] = w[x] /\ ~(q[x] < q[f])  BY <1>7, <1>10, <1>11
    <2> QED BY <1>8, <2>1, <2>2 DEF Later
  <1>13. Later(u, q, f)' = In(w, s)
    <2>1. \A j \in Used : u[j] = w[j] /\ q[f] < q[j]  BY <1>7, <1>10, <1>11
    <2>2. u[f] = s /\ ~(q[f] < q[f])  BY <1>7
    <2> QED BY <1>8, <2>1, <2>2 DEF Later, In
  <1>14. ASSUME NEW x, NEW S \in SUBSET Used, Foremost(x, S, r)
         PROVE  Foremost(x, S, q)
    BY <1>11, <1>14 DEF Foremost
  <1>15. HandlersListed(u, q)'
    <2>1. \A k \in Used' : u[k] \in Source
      BY <1>1, <1>7, <1>8, <1>10 DEF HandlersListed
    <2>2. \A i, j \in Used' : u[i] = u[j] /\ q[i] = q[j] => i = j
      <3> SUFFICES ASSUME NEW i \in Used', NEW j \in Used', u[i] = u[j], q[i] = q[j]
                   PROVE  i = j
        OBVIOUS
      <3>1. i \in Used \/ i = f  BY <1>8
      <3>2. j \in Used \/ j = f  BY <1>8
      <3>3. i = f => j = f  BY <1>7, <1>11, <3>2
      <3>4. j = f => i = f  BY <1>7, <1>11, <3>1
      <3>5. i \in Used /\ j \in Used => i = j
        <4> SUFFICES ASSUME i \in Used, j \in Used  PROVE i = j  OBVIOUS
        <4>1. w[i] = w[j]  BY <1>7, <1>10
        <4>2. r[i] = r[j]  BY <1>11
        <4> QED BY <1>1, <4>1, <4>2 DEF HandlersListed
      <3> QED BY <3>1, <3>2, <3>3, <3>4, <3>5
    <2>3. ASSUME NEW t \in Source  PROVE Foremost(heads[t], In(u, t), q)'
      <3>1. CASE t = s
        <4>1. heads'[s] = f  BY <1>2, <1>4 DEF HandlerType
        <4>2. f \in In(u, s)'  BY <1>7, <1>8 DEF In
        <4>3. \A j \in In(u, s)' : q[f] <= q[j]  BY <1>7, <1>8, <1>11 DEF In
        <4>4. Foremost(f, In(u, s)', q)  BY <4>2, <4>3 DEF Foremost
        <4> QED BY <3>1, <4>1, <4>4 DEF Foremost
      <3>2. CASE t # s
        <4>1. heads'[t] = heads[t]  BY <1>2, <1>4, <3>2 DEF HandlerType
        <4>2. In(u, t)' = In(w, t)  BY <1>7, <1>8, <1>10, <3>2 DEF In
        <4>3. Foremost(heads[t], In(w, t), r)  BY <1>1 DEF HandlersListed
        <4>4. Foremost(heads[t], In(w, t), q)  BY <1>14, <4>3 DEF In
        <4> QED BY <4>1, <4>2, <4>4 DEF Foremost
      <3> QED BY <3>1, <3>2
    <2>4. ASSUME NEW k \in Used' \cup Stood'
          PROVE  Foremost(pool[k].next, Later(u, q, k), q)'
      <3>1. CASE k = f
        <4>1. pool'[f].next = heads[s]  BY <1>2, <1>4, <1>5 DEF HandlerType
        <4>2. Foremost(heads[s], In(w, s), r)  BY <1>1 DEF HandlersListed
        <4>3. Foremost(heads[s], In(w, s), q)  BY <1>14, <4>2 DEF In
        <4> QED BY <1>13, <3>1, <4>1, <4>3 DEF Foremost
      <3>2. CASE k # f
        <4>1. k \in Used  BY <1>8, <1>9, <2>4, <3>2
        <4>2. pool'[k] = pool[k]  BY <1>8, <1>10, <4>1
        <4>3. Foremost(pool[k].next, Later(w, r, k), r)
          BY <1>1, <4>1 DEF HandlersListed
        <4>4. Foremost(pool[k].next, Later(w, r, k), q)
          BY <1>14, <4>3 DEF Later
        <4> QED BY <1>12, <4>1, <4>2, <4>4 DEF Foremost
      <3> QED BY <3>1, <3>2
    <2> QED BY <2>1, <2>2, <2>3, <2>4 DEF HandlersListed
  <1>16. OwedLater(u, q)'
    <2> SUFFICES ASSUME NEW n \in DOMAIN levels, levels[n].at # Empty
                 PROVE  levels[n].owed
                          \subseteq {pool'[j].id : j \in Later(u, q, levels[n].at)'}
      BY <1>1, <1>4 DEF OwedLater
    <2>1. levels[n].at \in Used  BY <1>9 DEF Stood
    <2>2. levels[n].owed \subseteq {pool[j].id : j \in Later(w, r, levels[n].at)}
      BY <1>1 DEF OwedLater
    <2>3. \A j \in Later(w, r, levels[n].at) : pool'[j] = pool[j]
      BY <1>8, <1>10 DEF Later
    <2>4. Later(u, q, levels[n].at)' = Later(w, r, levels[n].at)
      <3>1. Later(u, q, levels[n].at)' = {j \in Used' : u[j] = u[levels'[n].at]
                                             /\ q[levels'[n].at] < q[j]}
        BY DEF Later
      <3>2. \A x : {j \in Used' : u[j] = u[x] /\ q[x] < q[j]} = Later(u, q, x)'
        BY DEF Later
      <3> QED BY <1>4, <1>12, <2>1, <3>1, <3>2
    <2> DEFINE L == Later(w, r, levels[n].at)
    <2> HIDE DEF L
    <2>5. {pool'[j].id : j \in L} = {pool[j].id : j \in L}  BY <2>3 DEF L
    <2> QED BY <2>2, <2>4, <2>5 DEF L
  <1> QED BY <1>6, <1>7, <1>15, <1>16 DEF HandlerInv

LEMMA RemoveHolds ==
  ASSUME HandlerInv, NEW s \in Source, NEW k \in PoolRecord, RemoveHandler(s, k)
  PROVE  HandlerInv'
  <1>1. PICK w \in [PoolRecord -> Source \cup {Empty}], r \in [PoolRecord -> Nat] :
          HandlersListed(w, r) /\ OwedLater(w, r)
    BY DEF HandlerInv
  <1>2. HandlerType /\ Disciplined  BY DEF HandlerInv, RemoveHandler
  <1>3. ListOf(s) = In(w, s)  BY <1>1, <1>2, ListOfHas
  <1>4. k \in Used /\ w[k] = s  BY <1>3 DEF RemoveHandler, In
  <1> DEFINE before == {x \in ListOf(s) \ {k} : pool[x].next = k}
  <1>5. /\ heads' = IF heads[s] = k THEN [heads EXCEPT ![s] = pool[k].next] ELSE heads
        /\ pool' = [x \in PoolRecord |->
                      CASE x = k -> [pool[k] EXCEPT !.id = 0]
                        [] x \in before -> [pool[x] EXCEPT !.next = pool[k].next]
                        [] OTHER -> pool[x]]
        /\ levels' = [n \in DOMAIN levels |->
                        [levels[n] EXCEPT !.owed = @ \ {pool[k].id}]]
        /\ nextId' = nextId /\ raised' = raised
    BY DEF RemoveHandler
  <1>6. \A x \in PoolRecord : pool[x] \in PoolEntry  BY <1>2 DEF HandlerType
  <1>7. /\ pool'[k].id = 0 /\ pool'[k].next = pool[k].next
        /\ \A x \in PoolRecord : x # k =>
             /\ pool'[x].id = pool[x].id
             /\ pool'[x].next = IF x \in Used /\ w[x] = s /\ pool[x].next = k
                                THEN pool[k].next ELSE pool[x].next
    BY <1>3, <1>5, <1>6 DEF PoolEntry, In
  <1>8. /\ \A n \in DOMAIN levels :
             /\ levels'[n].at = levels[n].at
             /\ levels'[n].owed = levels[n].owed \ {pool[k].id}
        /\ levels' \in Seq(WalkLevel) /\ DOMAIN levels' = DOMAIN levels
    <2>1. levels \in Seq(WalkLevel) /\ DOMAIN levels' = DOMAIN levels
      BY <1>2, <1>5 DEF HandlerType
    <2>2. \A n \in DOMAIN levels : levels[n] \in WalkLevel  BY <2>1
    <2> DEFINE F(n) == [levels[n] EXCEPT !.owed = @ \ {pool[k].id}]
    <2>3. \A n \in DOMAIN levels : F(n) \in WalkLevel /\ F(n).at = levels[n].at
                                   /\ F(n).owed = levels[n].owed \ {pool[k].id}
      BY <2>2 DEF WalkLevel
    <2>4. levels' = [n \in DOMAIN levels |-> F(n)]  BY <1>5
    <2> HIDE DEF F
    <2>5. levels' \in Seq(WalkLevel)
      <3>1. DOMAIN levels = 1 .. Len(levels) /\ Len(levels) \in Nat  BY <2>1
      <3>2. levels' \in [1 .. Len(levels) -> WalkLevel]  BY <2>3, <2>4, <3>1
      <3> QED BY <3>1, <3>2, SeqDef
    <2> QED BY <2>1, <2>3, <2>4, <2>5
  <1>9. HandlerType'
    <2>1. \A x \in PoolRecord : pool'[x] \in PoolEntry
      BY <1>5, <1>6 DEF PoolEntry
    <2>2. pool' \in [PoolRecord -> PoolEntry]  BY <1>5, <2>1
    <2>3. heads' \in [Source -> PoolRecord \cup {Empty}]
      BY <1>2, <1>5, <1>6 DEF HandlerType, PoolEntry
    <2>4. nextId' = nextId /\ raised' = raised  BY <1>5
    <2>5. levels' \in Seq(WalkLevel)  BY <1>8
    <2> QED BY <1>2, <2>2, <2>3, <2>4, <2>5 DEF HandlerType
  <1> HIDE DEF before
  <1>10. Used' = Used \ {k}
    <2>1. \A x \in PoolRecord : pool'[x].id # 0 <=> pool[x].id # 0 /\ x # k
      BY <1>7
    <2>2. Used' = {x \in PoolRecord : pool'[x].id # 0}  BY DEF Used
    <2>3. Used = {x \in PoolRecord : pool[x].id # 0}  BY DEF Used
    <2> QED BY <2>1, <2>2, <2>3
  <1>11. Stood' = Stood /\ Stood \subseteq Used
    <2>1. \A n \in DOMAIN levels : levels'[n].at = levels[n].at  BY <1>8
    <2>2. DOMAIN levels' = DOMAIN levels  BY <1>8
    <2>3. Stood' = Stood  BY <2>1, <2>2 DEF Stood
    <2> QED BY <1>2, <2>3, StoodUsed
  <1>12. Used \subseteq PoolRecord /\ \A x \in Used : r[x] \in Nat
    BY DEF Used
  <1>13. \A x : Later(w, r, x)' = Later(w, r, x) \ {k}  BY <1>10 DEF Later
  <1>14. \A t : In(w, t)' = In(w, t) \ {k}  BY <1>10 DEF In
  (* A place that led to k leads on to what k led to.                      *)
  <1>15. ASSUME NEW x, NEW S \in SUBSET Used, Foremost(x, S, r),
                NEW y, y = IF x = k THEN pool[k].next ELSE x,
                k \in S => /\ \A j \in S : w[j] = w[k]
                           /\ Later(w, r, k) = {j \in S : r[k] < r[j]}
         PROVE  Foremost(y, S \ {k}, r)
    <2>1. CASE x # k
      <3>1. CASE S = {}  BY <1>15, <2>1, <3>1 DEF Foremost
      <3>2. CASE S # {}
        <4>1. x \in S \ {k}  BY <1>15, <2>1, <3>2 DEF Foremost
        <4> QED BY <1>15, <2>1, <4>1 DEF Foremost
      <3> QED BY <3>1, <3>2
    <2>2. CASE x = k
      <3>1. S # {} /\ k \in S
        BY <1>4, <1>12, <1>15, <2>2, EEIntcAssumption DEF Foremost
      <3>2. \A j \in S : r[k] <= r[j]  BY <1>15, <2>2, <3>1 DEF Foremost
      <3>3. Foremost(pool[k].next, Later(w, r, k), r)  BY <1>1, <1>4 DEF HandlersListed
      <3>4. \A j \in S : r[j] = r[k] => j = k
        BY <1>1, <1>4, <1>15, <3>1 DEF HandlersListed
      <3>5. {j \in S : r[k] < r[j]} = S \ {k}
        BY <1>4, <1>12, <1>15, <3>2, <3>4
      <3> QED BY <1>15, <2>2, <3>1, <3>3, <3>5
    <2> QED BY <2>1, <2>2
  <1>16. \A x \in PoolRecord : k \in Later(w, r, x) =>
           /\ \A j \in Later(w, r, x) : w[j] = w[k]
           /\ Later(w, r, k) = {j \in Later(w, r, x) : r[k] < r[j]}
    <2> SUFFICES ASSUME NEW x \in PoolRecord, k \in Later(w, r, x)
                 PROVE  /\ \A j \in Later(w, r, x) : w[j] = w[k]
                        /\ Later(w, r, k) = {j \in Later(w, r, x) : r[k] < r[j]}
      OBVIOUS
    <2>1. w[k] = w[x] /\ r[x] < r[k]  BY DEF Later
    <2>2. \A j \in Used : r[k] < r[j] => r[x] < r[j]  BY <1>12, <2>1
    <2> QED BY <2>1, <2>2 DEF Later
  <1>17. HandlersListed(w, r)'
    <2>1. \A x \in Used' : w[x] \in Source  BY <1>1, <1>10 DEF HandlersListed
    <2>2. \A i, j \in Used' : w[i] = w[j] /\ r[i] = r[j] => i = j
      BY <1>1, <1>10 DEF HandlersListed
    <2>3. ASSUME NEW t \in Source  PROVE Foremost(heads[t], In(w, t), r)'
      <3>1. Foremost(heads[t], In(w, t), r)  BY <1>1 DEF HandlersListed
      <3>2. heads'[t] = IF heads[t] = k THEN pool[k].next ELSE heads[t]
        <4>1. CASE t = s  BY <1>2, <1>5, <4>1 DEF HandlerType
        <4>2. CASE t # s
          <5>1. heads'[t] = heads[t]  BY <1>2, <1>5, <4>2 DEF HandlerType
          <5>2. heads[t] # k
            BY <1>4, <1>12, <3>1, <4>2, EEIntcAssumption DEF Foremost, In
          <5> QED BY <5>1, <5>2
        <4> QED BY <4>1, <4>2
      <3>3. /\ In(w, t) \subseteq Used
            /\ k \in In(w, t) => /\ \A j \in In(w, t) : w[j] = w[k]
                                 /\ Later(w, r, k) = {j \in In(w, t) : r[k] < r[j]}
        BY DEF In, Later
      <3>4. Foremost(heads'[t], In(w, t) \ {k}, r)  BY <1>15, <3>1, <3>2, <3>3
      <3> QED BY <1>14, <3>4 DEF Foremost
    <2>4. ASSUME NEW x \in Used' \cup Stood'
          PROVE  Foremost(pool[x].next, Later(w, r, x), r)'
      <3>1. x \in Used \cup Stood /\ x \in Used  BY <1>10, <1>11, <2>4
      <3>2. Foremost(pool[x].next, Later(w, r, x), r)
        BY <1>1, <3>1 DEF HandlersListed
      <3>3. pool'[x].next = IF pool[x].next = k THEN pool[k].next ELSE pool[x].next
        <4>1. CASE x = k
          <5>1. pool[k].next # k
            BY <1>4, <1>12, <3>2, <4>1, EEIntcAssumption DEF Foremost, Later
          <5> QED BY <1>7, <4>1, <5>1
        <4>2. CASE x # k
          <5>1. pool[x].next = k => w[x] = s
            BY <1>4, <1>12, <3>2, EEIntcAssumption DEF Foremost, Later
          <5> QED BY <1>7, <1>12, <3>1, <4>2, <5>1
        <4> QED BY <4>1, <4>2
      <3>4. Later(w, r, x) \subseteq Used  BY DEF Later
      <3>5. Foremost(pool'[x].next, Later(w, r, x) \ {k}, r)
        BY <1>12, <1>15, <1>16, <3>1, <3>2, <3>3, <3>4
      <3> QED BY <1>13, <3>5 DEF Foremost
    <2> QED BY <2>1, <2>2, <2>3, <2>4 DEF HandlersListed
  <1>18. OwedLater(w, r)'
    <2> SUFFICES ASSUME NEW n \in DOMAIN levels
                 PROVE  IF levels'[n].at = Empty THEN levels'[n].owed = {}
                        ELSE levels'[n].owed \subseteq
                               {pool'[j].id : j \in {j \in Used' :
                                  w[j] = w[levels'[n].at] /\ r[levels'[n].at] < r[j]}}
      BY <1>8 DEF OwedLater, Later
    <2>1. CASE levels[n].at = Empty
      BY <1>1, <1>8, <2>1 DEF OwedLater
    <2>2. CASE levels[n].at # Empty
      <3> DEFINE L == Later(w, r, levels[n].at)
      <3>1. levels[n].owed \subseteq {pool[j].id : j \in L}
        BY <1>1, <2>2 DEF OwedLater
      <3>2. L \subseteq PoolRecord  BY <1>12 DEF Later
      <3>3. {j \in Used' : w[j] = w[levels[n].at] /\ r[levels[n].at] < r[j]} = L \ {k}
        BY <1>10 DEF Later
      <3> HIDE DEF L
      <3>4. levels[n].owed \ {pool[k].id} \subseteq {pool'[j].id : j \in L \ {k}}
        BY <1>7, <3>1, <3>2
      <3> QED BY <1>8, <2>2, <3>3, <3>4
    <2> QED BY <2>1, <2>2
  <1> QED BY <1>9, <1>17, <1>18 DEF HandlerInv

(* A level that stands where levels stood, or on a record in use, and owes *)
(* calls to later records only.                                            *)
Rightly(w, r, lev) ==
    IF lev.at = Empty THEN lev.owed = {}
    ELSE /\ lev.at \in Used \cup Stood
         /\ lev.owed \subseteq {pool[j].id : j \in Later(w, r, lev.at)}

LEMMA LevelsMove ==
  ASSUME HandlerType, HandlerType', NEW w \in [PoolRecord -> Source \cup {Empty}],
         NEW r \in [PoolRecord -> Nat], HandlersListed(w, r),
         UNCHANGED <<pool, heads>>,
         NEW lv, levels' = lv, \A n \in DOMAIN lv : Rightly(w, r, lv[n])
  PROVE  HandlerInv'
  <1>1. HandlersListed(w, r)'
    BY ListsStay DEF Rightly
  <1>2. OwedLater(w, r)'
    <2> SUFFICES ASSUME NEW n \in DOMAIN lv
                 PROVE  IF lv[n].at = Empty THEN lv[n].owed = {}
                        ELSE lv[n].owed \subseteq
                               {pool'[j].id : j \in {j \in Used' :
                                  w[j] = w[lv[n].at] /\ r[lv[n].at] < r[j]}}
      BY DEF OwedLater, Later
    <2>1. Used' = Used  BY DEF Used
    <2> QED BY <2>1 DEF Rightly, Later
  <1> QED BY <1>1, <1>2 DEF HandlerInv

LEMMA DispatchRights ==
  ASSUME HandlerType, NEW w, NEW r, OwedLater(w, r), NEW n \in DOMAIN levels
  PROVE  Rightly(w, r, levels[n])
  BY DEF OwedLater, Rightly, Stood

LEMMA HandlerDispatch ==
  ASSUME HandlerInv,
         \/ \E s \in Source : Raise(s)
         \/ EnterInterrupt \/ TakeSource \/ NextHandler \/ TakeDmac \/ LeaveInterrupt
  PROVE  HandlerInv'
  <1>1. PICK w \in [PoolRecord -> Source \cup {Empty}], r \in [PoolRecord -> Nat] :
          HandlersListed(w, r) /\ OwedLater(w, r)
    BY DEF HandlerInv
  <1>2. HandlerType  BY DEF HandlerInv
  <1>3. \A n \in DOMAIN levels : Rightly(w, r, levels[n]) /\ levels[n] \in WalkLevel
    BY <1>1, <1>2, DispatchRights DEF HandlerType
  <1>4. levels \in Seq(WalkLevel) /\ raised \subseteq Source  BY <1>2 DEF HandlerType
  <1>5. ASSUME NEW lv \in Seq(WalkLevel), levels' = lv, UNCHANGED <<pool, heads, nextId>>,
               raised' \subseteq Source,
               \A n \in DOMAIN lv : Rightly(w, r, lv[n])
        PROVE  HandlerInv'
    <2>1. HandlerType'  BY <1>2, <1>5 DEF HandlerType
    <2> QED BY <1>1, <1>2, <1>5, <2>1, LevelsMove
  (* The innermost level is at lev.                                        *)
  <1>6. ASSUME levels # <<>>, NEW lev \in WalkLevel, Rightly(w, r, lev),
               levels' = [levels EXCEPT ![1] = lev],
               UNCHANGED <<pool, heads, nextId>>, raised' \subseteq Source
        PROVE  HandlerInv'
    <2> DEFINE lv == [levels EXCEPT ![1] = lev]
    <2>1. lv \in Seq(WalkLevel) /\ DOMAIN lv = DOMAIN levels  BY <1>4, <1>6
    <2>2. \A n \in DOMAIN lv : lv[n] = IF n = 1 THEN lev ELSE levels[n]
      BY <1>4, <2>1
    <2>3. \A n \in DOMAIN lv : Rightly(w, r, lv[n])  BY <1>3, <1>6, <2>1, <2>2
    <2> HIDE DEF lv
    <2> QED BY <1>5, <1>6, <2>1, <2>3 DEF lv
  <1>7. levels # <<>> => levels[1] \in WalkLevel /\ Rightly(w, r, levels[1])
    BY <1>3, <1>4
  <1>8. ASSUME NEW s \in Source, Raise(s)  PROVE HandlerInv'
    BY <1>3, <1>4, <1>5, <1>8 DEF Raise
  <1>9. CASE EnterInterrupt
    <2> DEFINE lev == [left |-> raised \cap IntcCause, intc |-> TRUE,
                       at |-> Empty, owed |-> {}]
               lv == <<lev>> \o levels
    <2>1. lev \in WalkLevel /\ Rightly(w, r, lev)
      BY <1>4 DEF WalkLevel, Rightly
    <2> HIDE DEF lev
    <2>2. lv \in Seq(WalkLevel) /\ DOMAIN lv = 1 .. Len(levels) + 1
          /\ Len(levels) \in Nat
      BY <1>4, <2>1
    <2>3. \A n \in DOMAIN lv : lv[n] = lev \/ (n - 1 \in DOMAIN levels /\ lv[n] = levels[n - 1])
      BY <1>4, <2>1, <2>2
    <2>4. \A n \in DOMAIN lv : Rightly(w, r, lv[n])  BY <1>3, <2>1, <2>3
    <2>5. levels' = lv /\ UNCHANGED <<pool, heads, nextId>> /\ raised' = raised
      BY <1>9 DEF EnterInterrupt, lev
    <2> HIDE DEF lv
    <2> QED BY <1>4, <1>5, <2>2, <2>4, <2>5
  <1>10. CASE TakeSource
    <2> DEFINE s == Min(levels[1].left)
               first == heads[s]
               ids == {pool[k].id : k \in ListOf(s)}
               lev == [levels[1] EXCEPT !.left = @ \ {s}, !.at = first,
                         !.owed = IF first = Empty THEN {} ELSE ids \ {pool[first].id}]
    <2>1. levels # <<>> /\ levels[1].left # {} /\ levels[1].left \subseteq Source
      BY <1>7, <1>10 DEF TakeSource, WalkLevel
    <2>2. s \in Source
      <3>1. levels[1].left \in SUBSET Nat  BY <2>1, EEIntcAssumption DEF Source
      <3> QED BY <2>1, <3>1, MinOfNaturals
    <2>3. levels' = [levels EXCEPT ![1] = lev]
          /\ UNCHANGED <<pool, heads, nextId>> /\ raised' \subseteq Source
      BY <1>4, <1>10 DEF TakeSource
    <2> HIDE DEF s
    <2>4. ListOf(s) = In(w, s)  BY <1>1, <1>2, <2>2, ListOfHas
    <2>5. Foremost(first, In(w, s), r) /\ first \in PoolRecord \cup {Empty}
      BY <1>1, <1>2, <2>2 DEF HandlersListed, HandlerType
    <2>6. In(w, s) \subseteq PoolRecord /\ \A k \in PoolRecord : pool[k].id \in Nat
      BY <1>2 DEF In, Used, HandlerType, PoolEntry
    <2>7. ids \subseteq Nat  BY <2>4, <2>6
    <2> HIDE DEF ids, first
    <2>8. lev \in WalkLevel /\ lev.at = first
          /\ lev.owed = IF first = Empty THEN {} ELSE ids \ {pool[first].id}
      BY <1>7, <2>1, <2>5, <2>7 DEF WalkLevel
    <2> HIDE DEF lev
    <2>9. Rightly(w, r, lev)
      <3>1. CASE first = Empty  BY <2>8, <3>1 DEF Rightly
      <3>2. CASE first # Empty
        <4>1. first \in In(w, s) /\ \A j \in In(w, s) : r[first] <= r[j]
          BY <2>5, <3>2 DEF Foremost
        <4>2. \A j \in In(w, s) : r[j] \in Nat /\ (r[j] = r[first] => j = first)
          BY <1>1, <2>6, <4>1 DEF HandlersListed, In
        <4>3. \A j \in In(w, s) : j # first => r[first] < r[j]
          BY <4>1, <4>2
        <4>4. \A j \in In(w, s) : j # first => j \in Later(w, r, first)
          BY <4>1, <4>3 DEF Later, In
        <4>5. ids \ {pool[first].id} \subseteq {pool[j].id : j \in Later(w, r, first)}
          BY <2>4, <4>4 DEF ids
        <4> QED BY <2>8, <3>2, <4>1, <4>5 DEF Rightly, In
      <3> QED BY <3>1, <3>2
    <2> QED BY <1>6, <2>1, <2>3, <2>8, <2>9
  <1>11. CASE NextHandler
    <2> DEFINE at == levels[1].at
               after == pool[at].next
               lev == [levels[1] EXCEPT !.at = after,
                         !.owed = IF after = Empty THEN @ ELSE @ \ {pool[after].id}]
    <2>1. levels # <<>> /\ at # Empty  BY <1>11 DEF NextHandler, InHandler
    <2>2. levels' = [levels EXCEPT ![1] = lev]
          /\ UNCHANGED <<pool, heads, nextId>> /\ raised' = raised
      BY <1>4, <1>11 DEF NextHandler
    <2>3. at \in PoolRecord /\ at \in Used \cup Stood
          /\ levels[1].owed \subseteq {pool[j].id : j \in Later(w, r, at)}
      BY <1>7, <2>1 DEF Rightly, WalkLevel
    <2>4. Foremost(after, Later(w, r, at), r) /\ after \in PoolRecord \cup {Empty}
      BY <1>1, <1>2, <2>3 DEF HandlersListed, HandlerType, PoolEntry
    <2> HIDE DEF at, after
    <2>5. lev \in WalkLevel /\ lev.at = after
          /\ lev.owed = IF after = Empty THEN levels[1].owed
                        ELSE levels[1].owed \ {pool[after].id}
      BY <1>7, <2>1, <2>4 DEF WalkLevel
    <2> HIDE DEF lev
    <2>6. Rightly(w, r, lev)
      <3>1. CASE after = Empty
        <4>1. Later(w, r, at) = {}
          BY <2>4, <3>1, EEIntcAssumption DEF Foremost, Later, Used
        <4> QED BY <2>3, <2>5, <3>1, <4>1 DEF Rightly
      <3>2. CASE after # Empty
        <4>1. after \in Later(w, r, at) /\ \A j \in Later(w, r, at) : r[after] <= r[j]
          BY <2>4, <3>2 DEF Foremost
        <4>2. \A j \in Later(w, r, at) : r[j] \in Nat /\ (r[j] = r[after] => j = after)
          BY <1>1, <4>1 DEF HandlersListed, Later, Used
        <4>3. \A j \in Later(w, r, at) : j # after => j \in Later(w, r, after)
          BY <4>1, <4>2 DEF Later
        <4>4. levels[1].owed \ {pool[after].id}
                \subseteq {pool[j].id : j \in Later(w, r, after)}
          BY <2>3, <4>3
        <4>5. after \in Used  BY <4>1 DEF Later
        <4> QED BY <2>5, <3>2, <4>4, <4>5 DEF Rightly
      <3> QED BY <3>1, <3>2
    <2> QED BY <1>4, <1>6, <2>1, <2>2, <2>5, <2>6
  <1>12. CASE TakeDmac
    <2> DEFINE lev == [levels[1] EXCEPT !.left = raised \cap DmacChannel, !.intc = FALSE]
    <2>1. levels # <<>>  BY <1>12 DEF TakeDmac
    <2>2. levels' = [levels EXCEPT ![1] = lev]
          /\ UNCHANGED <<pool, heads, nextId>> /\ raised' = raised
      BY <1>4, <1>12 DEF TakeDmac
    <2>3. lev \in WalkLevel /\ lev.at = levels[1].at /\ lev.owed = levels[1].owed
      BY <1>4, <1>7, <2>1 DEF WalkLevel
    <2> HIDE DEF lev
    <2>4. Rightly(w, r, lev)  BY <1>7, <2>1, <2>3 DEF Rightly
    <2> QED BY <1>4, <1>6, <2>1, <2>2, <2>3, <2>4
  <1>13. CASE LeaveInterrupt
    <2> DEFINE lv == Tail(levels)
    <2>1. levels # <<>> /\ levels' = lv /\ UNCHANGED <<pool, heads, nextId>>
          /\ raised' = raised
      BY <1>13 DEF LeaveInterrupt
    <2>2. lv \in Seq(WalkLevel) /\ \A n \in DOMAIN lv : n + 1 \in DOMAIN levels
                                                   /\ lv[n] = levels[n + 1]
      BY <1>4, <2>1
    <2>3. \A n \in DOMAIN lv : Rightly(w, r, lv[n])  BY <1>3, <2>2
    <2> HIDE DEF lv
    <2> QED BY <1>4, <1>5, <2>1, <2>2, <2>3
  <1> QED BY <1>8, <1>9, <1>10, <1>11, <1>12, <1>13

(***************************************************************************)
(* An interrupt calls every handler that was on a source's list when the   *)
(* source was taken and was not removed before its turn, however handlers  *)
(* are added and removed by it or in interrupts inside it, and the lists   *)
(* share no record of the pool (callHandlers, install and remove of        *)
(* kernel/interrupt.cpp).                                                  *)
(***************************************************************************)
THEOREM EEIntcEveryHandlerCalled ==
  EEIntcInit /\ [][EEIntcNext]_eeIntcVars => []EveryHandlerCalled
  <1>1. HandlerInv /\ [EEIntcNext]_eeIntcVars => HandlerInv'
    <2> SUFFICES ASSUME HandlerInv, [EEIntcNext]_eeIntcVars  PROVE HandlerInv'
      OBVIOUS
    <2>1. CASE UNCHANGED eeIntcVars
      <3>1. PICK w \in [PoolRecord -> Source \cup {Empty}], r \in [PoolRecord -> Nat] :
              HandlersListed(w, r) /\ OwedLater(w, r)
        BY DEF HandlerInv
      <3>2. HandlerType /\ HandlerType'
        BY <2>1 DEF HandlerInv, HandlerType, eeIntcVars
      <3>3. \A n \in DOMAIN levels : Rightly(w, r, levels[n])
        BY <3>1, <3>2, DispatchRights
      <3> QED BY <2>1, <3>1, <3>2, <3>3, LevelsMove DEF eeIntcVars
    <2>2. CASE EEIntcNext
      BY <2>2, AddHolds, RemoveHolds, HandlerDispatch DEF EEIntcNext
    <2> QED BY <2>1, <2>2
  <1>2. HandlerInv => EveryHandlerCalled
    <2> SUFFICES ASSUME HandlerInv PROVE EveryHandlerCalled  OBVIOUS
    <2>1. PICK w \in [PoolRecord -> Source \cup {Empty}], r \in [PoolRecord -> Nat] :
            HandlersListed(w, r) /\ OwedLater(w, r)
      BY DEF HandlerInv
    <2>2. \A s \in Source : ListOf(s) = In(w, s)
      BY <2>1, ListOfHas DEF HandlerInv
    <2>3. \A k \in Used : w[k] \in Source  BY <2>1 DEF HandlersListed
    <2>4. \A s, t \in Source : s # t => ListOf(s) \cap ListOf(t) = {}
      BY <2>2 DEF In
    <2>5. UNION {ListOf(s) : s \in Source} = {k \in PoolRecord : pool[k].id # 0}
      <3>1. UNION {ListOf(s) : s \in Source} = UNION {In(w, s) : s \in Source}
        BY <2>2
      <3> QED BY <2>3, <3>1 DEF In, Used
    <2>6. \A n \in DOMAIN levels : levels[n].at = Empty => levels[n].owed = {}
      BY <2>1 DEF OwedLater
    <2> QED BY <2>4, <2>5, <2>6 DEF EveryHandlerCalled
  <1> QED BY HandlersInit, <1>1, <1>2, PTL

-----------------------------------------------------------------------------
(***************************************************************************)
(* VBLANK: whatever its handlers unregister on the way, an edge's walk     *)
(* reaches everybody promised, and no record leaves the three lists or is  *)
(* in two.  Behind the links the invariant sees sequences of records;      *)
(* UnlinkTakes and InsertPuts say what the two operations on links do to   *)
(* the sequences, and ChainIs that a walk along the links meets them.      *)
(***************************************************************************)
List == Edge \cup {"free"}

Nth(s, n) == IF n \in 1 .. Len(s) THEN s[n] ELSE NoRecord

(* The heads and both links of list q run through the records of s.        *)
Spells(k, q, s) ==
  /\ k.head[q] = Nth(s, 1)
  /\ \A n \in 1 .. Len(s) : /\ k.next[s[n]] = Nth(s, n + 1)
                            /\ k.previous[s[n]] = Nth(s, n - 1)

MayBe == Record \cup {NoRecord}
Links == [next : [Record -> MayBe], previous : [Record -> MayBe],
          head : [List -> MayBe]]

(* No record twice, in one list or in two.                                 *)
NoneTwice(a) == \A p, q \in List : \A i \in 1 .. Len(a[p]), j \in 1 .. Len(a[q]) :
              a[p][i] = a[q][j] => p = q /\ i = j

Held(a) == Len(a["free"]) + Len(a["start"]) + Len(a["end"])

Pool(k, a) ==
  /\ k \in Links /\ a \in [List -> Seq(Record)]
  /\ NoneTwice(a) /\ Held(a) <= NumRecords
  /\ \A q \in List : Spells(k, q, a[q])

LEMMA ListLens ==
  ASSUME NEW a \in [List -> Seq(Record)], NEW q \in List
  PROVE  /\ a[q] \in Seq(Record) /\ Len(a[q]) \in Nat /\ DOMAIN a[q] = 1 .. Len(a[q])
         /\ \A n \in 1 .. Len(a[q]) : a[q][n] \in Record /\ a[q][n] # NoRecord
         /\ Len(a[q]) <= Held(a) /\ Held(a) \in Nat
  <1>1. \A p \in List : a[p] \in Seq(Record)  OBVIOUS
  <1>2. \A p \in List : Len(a[p]) \in Nat /\ DOMAIN a[p] = 1 .. Len(a[p])
    BY <1>1, LenProperties
  <1>3. \A n \in 1 .. Len(a[q]) : a[q][n] \in Record  BY <1>1, ElementOfSeq
  <1>4. Len(a[q]) <= Held(a) /\ Held(a) \in Nat  BY <1>2 DEF Held, List, Edge
  <1> QED BY <1>1, <1>2, <1>3, <1>4, VblankAssumption

(* The chain that the head and the next links make is the list they spell. *)
LEMMA ChainIs ==
  ASSUME NEW k, NEW a, Pool(k, a), NEW q \in List
  PROVE  Chain(k, q) = a[q]
  <1> DEFINE s == a[q]
             L == Len(s)
             N == NumRecords
             Follow(f, n) == IF n = 0 THEN k.head[q]
                             ELSE IF f[n - 1] = NoRecord THEN NoRecord
                                  ELSE k.next[f[n - 1]]
             from == CHOOSE f : f = [n \in 0 .. N |-> Follow(f, n)]
             met == {n \in 1 .. N : from[n - 1] # NoRecord}
             g == [n \in 0 .. N |-> Nth(s, n + 1)]
  <1>1. Chain(k, q) = [n \in 1 .. Cardinality(met) |-> from[n - 1]]  BY DEF Chain
  <1>2. /\ s \in Seq(Record) /\ L \in Nat /\ L <= N /\ N \in Nat
        /\ \A n \in 1 .. L : s[n] \in Record /\ s[n] # NoRecord
    BY ListLens, VblankAssumption DEF Pool
  <1>3. /\ k.head[q] = Nth(s, 1)
        /\ \A n \in 1 .. L : k.next[s[n]] = Nth(s, n + 1)
    BY DEF Pool, Spells
  <1> HIDE DEF s
  <1>4. \A n \in 1 .. N : n - 1 \in 0 .. N /\ n - 1 + 1 = n  BY <1>2
  <1>5. ASSUME NEW n \in 0 .. N  PROVE g[n] = Follow(g, n)
    <2>1. CASE n = 0  BY <1>2, <1>3, <2>1
    <2>2. CASE n # 0
      <3>1. n \in 1 .. N  BY <1>2, <2>2
      <3>2. g[n - 1] = Nth(s, n) /\ g[n] = Nth(s, n + 1)  BY <1>4, <3>1
      <3>3. CASE n \in 1 .. L  BY <1>2, <1>3, <2>2, <3>2, <3>3 DEF Nth
      <3>4. CASE n \notin 1 .. L
        <4>1. n + 1 \notin 1 .. L  BY <1>2, <3>1, <3>4
        <4> QED BY <2>2, <3>2, <3>4, <4>1 DEF Nth
      <3> QED BY <3>3, <3>4
    <2> QED BY <2>1, <2>2
  <1>6. g = [n \in 0 .. N |-> Follow(g, n)]
    <2> DEFINE F(n) == Follow(g, n)
    <2>1. \A n \in 0 .. N : g[n] = F(n)  BY <1>5
    <2>2. g = [n \in 0 .. N |-> g[n]]  OBVIOUS
    <2> HIDE DEF F, g
    <2>3. g = [n \in 0 .. N |-> F(n)]  BY <2>1, <2>2
    <2> QED BY <2>3 DEF F
  <1>7. from = [n \in 0 .. N |-> Follow(from, n)]  
    <2> HIDE DEF g
    <2> QED BY <1>6
  <1> HIDE DEF from
  <1>8. \A n \in 0 .. N : from[n] = Follow(from, n)  BY <1>7
  <1>9. \A n \in 0 .. N : from[n] = g[n]
    <2> DEFINE Bad == {n \in 0 .. N : from[n] # g[n]}
    <2>1. ASSUME NEW n \in Bad, \A m \in Bad : n <= m  PROVE FALSE
      <3>1. n # 0  BY <1>2, <1>5, <1>8
      <3>2. n \in 0 .. N /\ n - 1 \in 0 .. N /\ ~(n <= n - 1)  BY <1>2, <3>1
      <3>3. from[n - 1] = g[n - 1]
        <4>1. n - 1 \notin Bad
          <5> HIDE DEF Bad
          <5> QED BY <2>1, <3>2
        <4> QED BY <3>2, <4>1
      <3>4. from[n] # g[n]  OBVIOUS
      <3> HIDE DEF g, Bad
      <3> QED BY <1>5, <1>8, <3>2, <3>3, <3>4
    <2>2. Bad \in SUBSET Nat  BY <1>2
    <2>3. Bad = {}
      <3> HIDE DEF Bad
      <3>1. Bad # {} => Min(Bad) \in Bad /\ \A y \in Bad : Min(Bad) <= y
        BY <2>2, MinOfNaturals
      <3> QED BY <2>1, <3>1
    <2> QED BY <2>3
  <1>10. \A n \in 1 .. N : from[n - 1] = Nth(s, n)
    <2>1. \A n \in 0 .. N : from[n] = Nth(s, n + 1)  BY <1>9
    <2> QED BY <1>4, <2>1
  <1>11. met = 1 .. L
    <2> HIDE DEF Follow, g
    <2> QED BY <1>2, <1>10 DEF Nth
  <1>12. Cardinality(met) = L
    <2>1. 1 \in Int /\ L \in Int /\ (1 > L => L = 0) /\ L - 1 + 1 = L  BY <1>2
    <2>2. Cardinality(1 .. L) = IF 1 > L THEN 0 ELSE L - 1 + 1  BY <2>1, FS_Interval
    <2> HIDE DEF met, L
    <2> QED BY <1>11, <2>1, <2>2
  <1> HIDE DEF met, g, Follow
  <1>13. Chain(k, q) = [n \in 1 .. L |-> from[n - 1]]  BY <1>1, <1>12
  <1>14. \A n \in 1 .. L : from[n - 1] = s[n]  BY <1>2, <1>10 DEF Nth
  <1>15. s = [n \in 1 .. L |-> s[n]]  BY <1>2
  <1>16. Chain(k, q) = s  BY <1>13, <1>14, <1>15
  <1> QED BY <1>16 DEF s

(* A sequence with its n-th element taken out, and with x put at n.        *)
LEMMA RemoveAtIs ==
  ASSUME NEW S, NEW s \in Seq(S), NEW n \in 1 .. Len(s)
  PROVE  /\ RemoveAt(s, n) \in Seq(S) /\ Len(RemoveAt(s, n)) = Len(s) - 1
         /\ \A j \in 1 .. Len(s) - 1 :
              RemoveAt(s, n)[j] = IF j < n THEN s[j] ELSE s[j + 1]
  <1> DEFINE a == SubSeq(s, 1, n - 1)
             b == SubSeq(s, n + 1, Len(s))
  <1>1. Len(s) \in Nat /\ \A j \in 1 .. Len(s) : s[j] \in S
    BY LenProperties, ElementOfSeq
  <1>2. a \in Seq(S) /\ Len(a) = n - 1 /\ \A j \in 1 .. n - 1 : a[j] = s[j]
    BY <1>1, SubSeqProperties
  <1>3. /\ b \in Seq(S) /\ Len(b) = Len(s) - n
        /\ \A j \in 1 .. Len(s) - n : b[j] = s[n + j]
    BY <1>1, SubSeqProperties
  <1> HIDE DEF a, b
  <1>4. /\ a \o b \in Seq(S) /\ Len(a \o b) = Len(a) + Len(b)
        /\ \A j \in 1 .. Len(a) + Len(b) :
             (a \o b)[j] = IF j <= Len(a) THEN a[j] ELSE b[j - Len(a)]
    BY <1>2, <1>3, ConcatProperties
  <1>5. RemoveAt(s, n) = a \o b  BY DEF RemoveAt, a, b
  <1>6. Len(a) + Len(b) = Len(s) - 1  BY <1>1, <1>2, <1>3
  <1>7. ASSUME NEW j \in 1 .. Len(s) - 1
        PROVE  (a \o b)[j] = IF j < n THEN s[j] ELSE s[j + 1]
    <2>1. j \in 1 .. Len(a) + Len(b)  BY <1>6
    <2>2. CASE j < n
      <3>1. j \in 1 .. n - 1 /\ j <= Len(a)  BY <1>1, <1>2, <2>2
      <3> QED BY <1>2, <1>4, <2>1, <2>2, <3>1
    <2>3. CASE ~(j < n)
      <3> DEFINE y == j - (n - 1)
      <3>1. /\ ~(j <= Len(a)) /\ j - Len(a) = y /\ y \in 1 .. Len(s) - n
            /\ n + y = j + 1
        BY <1>1, <1>2, <2>3
      <3> HIDE DEF y
      <3> QED BY <1>3, <1>4, <2>1, <2>3, <3>1
    <2> QED BY <2>2, <2>3
  <1> QED BY <1>4, <1>5, <1>6, <1>7

Grown(t, S, s, n, x) ==
  /\ t \in Seq(S) /\ Len(t) = Len(s) + 1
  /\ \A j \in 1 .. Len(s) + 1 :
       t[j] = IF j < n THEN s[j] ELSE IF j = n THEN x ELSE s[j - 1]

LEMMA InsertAtIs ==
  ASSUME NEW S, NEW s \in Seq(S), NEW n \in 1 .. Len(s) + 1, NEW x \in S
  PROVE  Grown(InsertAt(s, n, x), S, s, n, x)
  <1> DEFINE a == SubSeq(s, 1, n - 1)
             b == SubSeq(s, n, Len(s))
             m == <<x>>
  <1>1. Len(s) \in Nat /\ \A j \in 1 .. Len(s) : s[j] \in S
    BY LenProperties, ElementOfSeq
  <1>2. a \in Seq(S) /\ Len(a) = n - 1 /\ \A j \in 1 .. n - 1 : a[j] = s[j]
    BY <1>1, SubSeqProperties
  <1>3. /\ b \in Seq(S) /\ Len(b) = Len(s) - n + 1
        /\ \A j \in 1 .. Len(s) - n + 1 : b[j] = s[n + j - 1]
    BY <1>1, SubSeqProperties
  <1>4. m \in Seq(S) /\ Len(m) = 1 /\ m[1] = x
    OBVIOUS
  <1> HIDE DEF a, b, m
  <1>5. /\ a \o m \in Seq(S) /\ Len(a \o m) = n
        /\ \A j \in 1 .. n : (a \o m)[j] = IF j <= n - 1 THEN a[j] ELSE m[j - (n - 1)]
    <2>1. /\ a \o m \in Seq(S) /\ Len(a \o m) = Len(a) + Len(m)
          /\ \A j \in 1 .. Len(a) + Len(m) :
               (a \o m)[j] = IF j <= Len(a) THEN a[j] ELSE m[j - Len(a)]
      BY <1>2, <1>4, ConcatProperties
    <2>2. Len(a) + Len(m) = n /\ Len(a) = n - 1  BY <1>2, <1>4
    <2> QED BY <2>1, <2>2
  <1> DEFINE c == a \o m
  <1> HIDE DEF c
  <1>6. /\ c \in Seq(S) /\ Len(c) = n
        /\ \A j \in 1 .. n : c[j] = IF j < n THEN s[j] ELSE x
    BY <1>1, <1>2, <1>4, <1>5 DEF c
  <1>7. /\ c \o b \in Seq(S) /\ Len(c \o b) = Len(c) + Len(b)
        /\ \A j \in 1 .. Len(c) + Len(b) :
             (c \o b)[j] = IF j <= Len(c) THEN c[j] ELSE b[j - Len(c)]
    BY <1>3, <1>6, ConcatProperties
  <1>8. InsertAt(s, n, x) = c \o b  BY DEF InsertAt, a, b, c, m
  <1>9. Len(c) + Len(b) = Len(s) + 1  BY <1>1, <1>3, <1>6
  <1>10. \A j \in 1 .. Len(s) + 1 : ~(j <= n) => b[j - n] = s[j - 1]
    BY <1>1, <1>3
  <1>11. \A j \in 1 .. Len(s) + 1 :
           (c \o b)[j] = IF j < n THEN s[j] ELSE IF j = n THEN x ELSE s[j - 1]
    BY <1>1, <1>6, <1>7, <1>9, <1>10
  <1> QED BY <1>7, <1>8, <1>9, <1>11 DEF Grown

LEMMA RemovedNth ==
  ASSUME NEW s \in Seq(Record), NEW i \in 1 .. Len(s), NEW n \in Int
  PROVE  Nth(RemoveAt(s, i), n) = IF n < i THEN Nth(s, n) ELSE Nth(s, n + 1)
  <1>1. Len(s) \in Nat  BY LenProperties
  <1>2. /\ Len(RemoveAt(s, i)) = Len(s) - 1
        /\ \A j \in 1 .. Len(s) - 1 :
             RemoveAt(s, i)[j] = IF j < i THEN s[j] ELSE s[j + 1]
    BY RemoveAtIs
  <1> QED BY <1>1, <1>2 DEF Nth

LEMMA InsertedNth ==
  ASSUME NEW s \in Seq(Record), NEW i \in 1 .. Len(s) + 1, NEW r \in Record,
         NEW n \in Int
  PROVE  Nth(InsertAt(s, i, r), n) = IF n < i THEN Nth(s, n)
                                     ELSE IF n = i THEN r ELSE Nth(s, n - 1)
  <1>1. Len(s) \in Nat  BY LenProperties
  <1>2. /\ Len(InsertAt(s, i, r)) = Len(s) + 1
        /\ \A j \in 1 .. Len(s) + 1 :
             InsertAt(s, i, r)[j] = IF j < i THEN s[j]
                                    ELSE IF j = i THEN r ELSE s[j - 1]
    <2>1. Grown(InsertAt(s, i, r), Record, s, i, r)  BY InsertAtIs
    <2> QED BY <2>1 DEF Grown
  <1> QED BY <1>1, <1>2 DEF Nth

(* What unlinking and inserting write.                                     *)
LEMMA UnlinkWrites ==
  ASSUME NEW k \in Links, NEW q \in List, NEW r \in Record,
         NEW before, before = k.previous[r], NEW after, after = k.next[r]
  PROVE  LET u == Unlink(k, q, r)
         IN  /\ u \in Links
             /\ \A x \in Record :
                  /\ u.next[x] = IF x = r THEN NoRecord
                                 ELSE IF x = before THEN after ELSE k.next[x]
                  /\ u.previous[x] = IF x = r THEN NoRecord
                                     ELSE IF x = after THEN before
                                     ELSE k.previous[x]
             /\ \A p \in List :
                  u.head[p] = IF p = q /\ before = NoRecord THEN after ELSE k.head[p]
  <1> DEFINE u == Unlink(k, q, r)
             next == IF before = NoRecord THEN k.next
                     ELSE [k.next EXCEPT ![before] = after]
             previous == IF after = NoRecord THEN k.previous
                         ELSE [k.previous EXCEPT ![after] = before]
             head == IF before = NoRecord THEN [k.head EXCEPT ![q] = after]
                     ELSE k.head
  <1>1. u = [next |-> [next EXCEPT ![r] = NoRecord],
             previous |-> [previous EXCEPT ![r] = NoRecord], head |-> head]
    BY DEF Unlink
  <1>2. k.next \in [Record -> MayBe] /\ k.previous \in [Record -> MayBe]
        /\ k.head \in [List -> MayBe] /\ before \in MayBe /\ after \in MayBe
        /\ NoRecord \in MayBe /\ NoRecord \notin Record
    BY VblankAssumption DEF Links, MayBe
  <1>3. next \in [Record -> MayBe]
        /\ \A x \in Record : next[x] = IF x = before THEN after ELSE k.next[x]
    BY <1>2
  <1>4. previous \in [Record -> MayBe]
        /\ \A x \in Record : previous[x] = IF x = after THEN before ELSE k.previous[x]
    BY <1>2
  <1>5. head \in [List -> MayBe]
        /\ \A p \in List : head[p] = IF p = q /\ before = NoRecord THEN after
                                     ELSE k.head[p]
    BY <1>2
  <1> HIDE DEF next, previous, head
  <1>6. /\ u.next \in [Record -> MayBe]
        /\ \A x \in Record : u.next[x] = IF x = r THEN NoRecord ELSE next[x]
    BY <1>1, <1>2, <1>3
  <1>7. /\ u.previous \in [Record -> MayBe]
        /\ \A x \in Record : u.previous[x] = IF x = r THEN NoRecord ELSE previous[x]
    BY <1>1, <1>2, <1>4
  <1>8. u.head = head  BY <1>1
  <1>9. u \in Links  BY <1>1, <1>5, <1>6, <1>7 DEF Links
  <1> HIDE DEF u
  <1> QED BY <1>3, <1>4, <1>5, <1>6, <1>7, <1>8, <1>9 DEF u

LEMMA InsertWrites ==
  ASSUME NEW k \in Links, NEW q \in List, NEW r \in Record, NEW before \in MayBe,
         NEW prior \in MayBe,
         prior = IF before # NoRecord THEN k.previous[before]
                 ELSE IF Chain(k, q) = <<>> THEN NoRecord ELSE Last(Chain(k, q))
  PROVE  LET u == InsertBefore(k, q, r, before)
         IN  /\ u \in Links
             /\ \A x \in Record :
                  /\ u.next[x] = IF x = prior THEN r
                                 ELSE IF x = r THEN before ELSE k.next[x]
                  /\ u.previous[x] = IF x = before THEN r
                                     ELSE IF x = r THEN prior ELSE k.previous[x]
             /\ \A p \in List :
                  u.head[p] = IF p = q /\ prior = NoRecord THEN r ELSE k.head[p]
  <1> DEFINE u == InsertBefore(k, q, r, before)
             next == [k.next EXCEPT ![r] = before]
             previous == [k.previous EXCEPT ![r] = prior]
             onward == IF prior = NoRecord THEN next ELSE [next EXCEPT ![prior] = r]
             back == IF before = NoRecord THEN previous
                     ELSE [previous EXCEPT ![before] = r]
             head == IF prior = NoRecord THEN [k.head EXCEPT ![q] = r] ELSE k.head
  <1>1. u = [next |-> onward, previous |-> back, head |-> head]
    BY DEF InsertBefore
  <1>2. k.next \in [Record -> MayBe] /\ k.previous \in [Record -> MayBe]
        /\ k.head \in [List -> MayBe] /\ r \in MayBe
        /\ NoRecord \in MayBe /\ NoRecord \notin Record
        /\ (before # NoRecord => before \in Record)
        /\ (prior # NoRecord => prior \in Record)
    BY VblankAssumption DEF Links, MayBe
  <1>3. next \in [Record -> MayBe]
        /\ \A x \in Record : next[x] = IF x = r THEN before ELSE k.next[x]
    BY <1>2
  <1>4. previous \in [Record -> MayBe]
        /\ \A x \in Record : previous[x] = IF x = r THEN prior ELSE k.previous[x]
    BY <1>2
  <1>5. head \in [List -> MayBe]
        /\ \A p \in List : head[p] = IF p = q /\ prior = NoRecord THEN r
                                     ELSE k.head[p]
    BY <1>2
  <1> HIDE DEF next, previous, head
  <1>6. /\ onward \in [Record -> MayBe]
        /\ \A x \in Record : onward[x] = IF x = prior THEN r ELSE next[x]
    BY <1>2, <1>3
  <1>7. /\ back \in [Record -> MayBe]
        /\ \A x \in Record : back[x] = IF x = before THEN r ELSE previous[x]
    BY <1>2, <1>4
  <1> HIDE DEF onward, back
  <1>8. u.next = onward /\ u.previous = back /\ u.head = head  BY <1>1
  <1>9. u \in Links  BY <1>1, <1>5, <1>6, <1>7 DEF Links
  <1> HIDE DEF u
  <1> QED BY <1>3, <1>4, <1>5, <1>6, <1>7, <1>8, <1>9 DEF u

(* A list kept by neither: another list's entries are none of those whose  *)
(* links the step writes.                                                  *)
LEMMA SpellsStay ==
  ASSUME NEW k, NEW u, NEW q \in List, NEW s \in Seq(Record), Spells(k, q, s),
         u.head[q] = k.head[q],
         \A n \in 1 .. Len(s) : u.next[s[n]] = k.next[s[n]]
                                /\ u.previous[s[n]] = k.previous[s[n]]
  PROVE  Spells(u, q, s)
  BY DEF Spells

LEMMA HeldMoves ==
  ASSUME NEW a \in [List -> Seq(Record)], NEW b \in [List -> Seq(Record)],
         NEW q \in List, NEW d \in Int, Len(b[q]) = Len(a[q]) + d,
         \A p \in List : p # q => b[p] = a[p]
  PROVE  Held(b) = Held(a) + d
  <1>1. "free" \in List /\ "start" \in List /\ "end" \in List  BY DEF List, Edge
  <1> DEFINE x == Len(a["free"])
             y == Len(a["start"])
             z == Len(a["end"])
  <1>2. x \in Nat /\ y \in Nat /\ z \in Nat
    BY <1>1, ListLens
  <1>3. Held(a) = x + y + z  BY DEF Held
  <1>4. CASE q = "free"
    <2>1. Len(b["start"]) = Len(a["start"]) /\ Len(b["end"]) = Len(a["end"])
      BY <1>1, <1>4
    <2>2. Len(b["free"]) = Len(a["free"]) + d  BY <1>4
    <2>3. Held(b) = (x + d) + y + z  BY <2>1, <2>2 DEF Held
    <2> HIDE DEF x, y, z
    <2> QED BY <1>2, <1>3, <2>3
  <1>5. CASE q = "start"
    <2>1. Len(b["free"]) = Len(a["free"]) /\ Len(b["end"]) = Len(a["end"])
      BY <1>1, <1>5
    <2>2. Len(b["start"]) = Len(a["start"]) + d  BY <1>5
    <2>3. Held(b) = x + (y + d) + z  BY <2>1, <2>2 DEF Held
    <2> HIDE DEF x, y, z
    <2> QED BY <1>2, <1>3, <2>3
  <1>6. CASE q = "end"
    <2>1. Len(b["free"]) = Len(a["free"]) /\ Len(b["start"]) = Len(a["start"])
      BY <1>1, <1>6
    <2>2. Len(b["end"]) = Len(a["end"]) + d  BY <1>6
    <2>3. Held(b) = x + y + (z + d)  BY <2>1, <2>2 DEF Held
    <2> HIDE DEF x, y, z
    <2> QED BY <1>2, <1>3, <2>3
  <1> QED BY <1>4, <1>5, <1>6 DEF List, Edge

(* Taken out of its list, a record is in none, and the rest close up.      *)
LEMMA UnlinkTakes ==
  ASSUME NEW k, NEW a, Pool(k, a), NEW q \in List, NEW i \in 1 .. Len(a[q])
  PROVE  LET b == [a EXCEPT ![q] = RemoveAt(a[q], i)]
         IN  /\ Pool(Unlink(k, q, a[q][i]), b)
             /\ Held(b) = Held(a) - 1
             /\ \A p \in List : \A n \in 1 .. Len(b[p]) : b[p][n] # a[q][i]
  <1> DEFINE s == a[q]
             r == s[i]
             t == RemoveAt(s, i)
             b == [a EXCEPT ![q] = t]
             u == Unlink(k, q, r)
             before == Nth(s, i - 1)
             after == Nth(s, i + 1)
  <1>1. /\ s \in Seq(Record) /\ Len(s) \in Nat
        /\ \A n \in 1 .. Len(s) : s[n] \in Record /\ s[n] # NoRecord
        /\ i \in 1 .. Len(s)
    BY ListLens DEF Pool
  <1>2. k \in Links /\ a \in [List -> Seq(Record)] /\ NoneTwice(a)
        /\ Held(a) \in Nat /\ Held(a) <= NumRecords
    BY ListLens DEF Pool
  <1>3. \A p \in List : Spells(k, p, a[p])  BY DEF Pool
  <1>4. k.head[q] = Nth(s, 1)
        /\ \A n \in 1 .. Len(s) : k.next[s[n]] = Nth(s, n + 1)
                                  /\ k.previous[s[n]] = Nth(s, n - 1)
    BY <1>3 DEF Spells
  <1>5. \A m, n \in 1 .. Len(s) : s[m] = s[n] => m = n  BY <1>2 DEF NoneTwice
  <1>6. /\ t \in Seq(Record) /\ Len(t) = Len(s) - 1
        /\ \A j \in 1 .. Len(s) - 1 : t[j] = IF j < i THEN s[j] ELSE s[j + 1]
    BY <1>1, RemoveAtIs
  <1>7. \A n \in Int : Nth(t, n) = IF n < i THEN Nth(s, n) ELSE Nth(s, n + 1)
    BY <1>1, RemovedNth
  <1>8. b \in [List -> Seq(Record)] /\ b[q] = t
        /\ \A p \in List : p # q => b[p] = a[p]
    BY <1>2, <1>6
  <1>9. before = k.previous[r] /\ after = k.next[r] /\ r \in Record
    BY <1>1, <1>4
  <1> HIDE DEF s, t, b, r
  <1>10. /\ u \in Links
         /\ \A x \in Record :
              /\ u.next[x] = IF x = r THEN NoRecord
                             ELSE IF x = before THEN after ELSE k.next[x]
              /\ u.previous[x] = IF x = r THEN NoRecord
                                 ELSE IF x = after THEN before ELSE k.previous[x]
         /\ \A p \in List :
              u.head[p] = IF p = q /\ before = NoRecord THEN after ELSE k.head[p]
    <2> HIDE DEF before, after
    <2> QED BY <1>2, <1>9, UnlinkWrites
  <1> HIDE DEF u
  <1>11. \A p \in List : p # q => \A n \in 1 .. Len(a[p]), m \in 1 .. Len(s) :
           a[p][n] # s[m]
    BY <1>2 DEF NoneTwice, s
  <1>12. Nth(s, i) = r /\ \A m \in Int : m \in 1 .. Len(s) => Nth(s, m) = s[m]
    BY <1>1 DEF Nth, r
  <1>13. \A m \in Int : m \notin 1 .. Len(s) => Nth(s, m) = NoRecord  BY DEF Nth
  <1>14. ASSUME NEW p \in List, p # q  PROVE Spells(u, p, b[p])
    <2>1. \A n \in 1 .. Len(a[p]) : a[p][n] \in Record  BY <1>2, ListLens
    <2>2. \A n \in 1 .. Len(a[p]) :
            a[p][n] # r /\ a[p][n] # before /\ a[p][n] # after
      BY <1>1, <1>11, <1>14, <2>1, VblankAssumption DEF Nth, r
    <2>3. u.head[p] = k.head[p]  BY <1>10, <1>14
    <2>4. \A n \in 1 .. Len(a[p]) : u.next[a[p][n]] = k.next[a[p][n]]
                                    /\ u.previous[a[p][n]] = k.previous[a[p][n]]
      <3> HIDE DEF before, after
      <3> QED BY <1>10, <2>1, <2>2
    <2>5. a[p] \in Seq(Record) /\ b[p] = a[p]  BY <1>2, <1>8, <1>14
    <2> QED BY <1>3, <2>3, <2>4, <2>5, SpellsStay
  <1>15. Spells(u, q, t)
    <2>1. u.head[q] = Nth(t, 1)
      <3>1. CASE i = 1
        <4>1. before = NoRecord /\ after = Nth(t, 1)  BY <1>7, <1>13, <3>1
        <4> QED BY <1>10, <4>1
      <3>2. CASE i # 1
        <4>1. i - 1 \in 1 .. Len(s) /\ i - 1 \in Int /\ 1 < i  BY <1>1, <3>2
        <4>2. Nth(t, 1) = Nth(s, 1)  BY <1>7, <4>1
        <4>3. before = s[i - 1]  BY <1>12, <4>1
        <4>4. before # NoRecord  BY <1>1, <4>1, <4>3
        <4> QED BY <1>4, <1>10, <4>2, <4>4
      <3> QED BY <3>1, <3>2
    <2>2. ASSUME NEW n \in 1 .. Len(t)
          PROVE  u.next[t[n]] = Nth(t, n + 1) /\ u.previous[t[n]] = Nth(t, n - 1)
      <3>1. CASE n < i
        <4>1. n \in 1 .. Len(s) /\ t[n] = s[n] /\ n # i /\ n # i + 1
          BY <1>1, <1>6, <2>2, <3>1
        <4>2. t[n] \in Record /\ t[n] # r  BY <1>1, <1>5, <4>1 DEF r
        <4>3. t[n] # after
          BY <1>1, <1>5, <1>12, <1>13, <4>1, <4>2, VblankAssumption
        <4>4. t[n] = before <=> n = i - 1
          BY <1>1, <1>5, <1>12, <1>13, <4>1, <4>2, VblankAssumption
        <4>5. u.previous[t[n]] = Nth(s, n - 1)
          BY <1>4, <1>10, <4>1, <4>2, <4>3
        <4>6. Nth(t, n - 1) = Nth(s, n - 1)  BY <1>7, <2>2, <3>1
        <4>7. CASE n = i - 1
          <5>1. u.next[t[n]] = after  BY <1>10, <4>2, <4>4, <4>7
          <5>2. Nth(t, n + 1) = Nth(s, i + 1)  BY <1>1, <1>7, <4>7
          <5> QED BY <4>5, <4>6, <5>1, <5>2
        <4>8. CASE n # i - 1
          <5>1. u.next[t[n]] = Nth(s, n + 1)  BY <1>4, <1>10, <4>1, <4>2, <4>4, <4>8
          <5>2. Nth(t, n + 1) = Nth(s, n + 1)  BY <1>1, <1>7, <3>1, <4>8
          <5> QED BY <4>5, <4>6, <5>1, <5>2
        <4> QED BY <4>7, <4>8
      <3>2. CASE ~(n < i)
        <4> DEFINE y == n + 1
        <4>0. y \in Int /\ y - 1 = n /\ y > i /\ n \in Int /\ n + 1 = y  BY <1>1, <3>2
        <4>1. y \in 1 .. Len(s) /\ t[n] = s[y] /\ y # i /\ y # i - 1
          BY <1>1, <1>6, <2>2, <3>2
        <4>6. Nth(t, n + 1) = Nth(s, y + 1)  BY <1>7, <4>0
        <4> HIDE DEF y
        <4>2. t[n] \in Record /\ t[n] # r  BY <1>1, <1>5, <4>1 DEF r
        <4>3. t[n] # before
          BY <1>1, <1>5, <1>12, <1>13, <4>1, <4>2, VblankAssumption
        <4>4. t[n] = after <=> y = i + 1
          BY <1>1, <1>5, <1>12, <1>13, <4>1, <4>2, VblankAssumption
        <4>5. u.next[t[n]] = Nth(s, y + 1)
          BY <1>4, <1>10, <4>1, <4>2, <4>3
        <4>7. CASE y = i + 1
          <5>1. u.previous[t[n]] = before  BY <1>10, <4>2, <4>4, <4>7
          <5>2. Nth(t, n - 1) = Nth(s, i - 1)  
            <6>1. n = i  BY <1>1, <4>0, <4>7
            <6> QED BY <1>1, <1>7, <6>1
          <5> QED BY <4>5, <4>6, <5>1, <5>2
        <4>8. CASE y # i + 1
          <5>1. u.previous[t[n]] = Nth(s, y - 1)  BY <1>4, <1>10, <4>1, <4>2, <4>4, <4>8
          <5>2. Nth(t, n - 1) = Nth(s, y - 1)
            <6>1. n - 1 \in Int /\ ~(n - 1 < i) /\ n - 1 + 1 = y - 1  BY <1>1, <4>0, <4>8
            <6> QED BY <1>7, <6>1
          <5> QED BY <4>5, <4>6, <5>1, <5>2
        <4> QED BY <4>7, <4>8
      <3> QED BY <3>1, <3>2
    <2> QED BY <2>1, <2>2 DEF Spells
  <1>16. \A p \in List : \A n \in 1 .. Len(b[p]) :
           \E m \in 1 .. Len(a[p]) : /\ b[p][n] = a[p][m]
                                     /\ p = q => m # i /\ m = IF n < i THEN n ELSE n + 1
                                     /\ p # q => m = n
    <2> TAKE p \in List
    <2> TAKE n \in 1 .. Len(b[p])
    <2>1. CASE p = q
      <3>1. n \in 1 .. Len(t) /\ b[p][n] = t[n]  BY <1>8, <2>1
      <3> DEFINE m == IF n < i THEN n ELSE n + 1
      <3>2. m \in 1 .. Len(s) /\ t[n] = s[m] /\ m # i  BY <1>1, <1>6, <3>1
      <3> HIDE DEF m
      <3>3. m \in 1 .. Len(a[p]) /\ b[p][n] = a[p][m]  BY <2>1, <3>1, <3>2 DEF s
      <3> QED BY <2>1, <3>2, <3>3 DEF m
    <2>2. CASE p # q  BY <1>8, <2>2
    <2> QED BY <2>1, <2>2
  <1>17. NoneTwice(b)
    <2> SUFFICES ASSUME NEW p \in List, NEW p2 \in List, NEW n \in 1 .. Len(b[p]),
                        NEW n2 \in 1 .. Len(b[p2]), b[p][n] = b[p2][n2]
                 PROVE  p = p2 /\ n = n2
      BY DEF NoneTwice
    <2>1. PICK m \in 1 .. Len(a[p]) :
            /\ b[p][n] = a[p][m]
            /\ p = q => m # i /\ m = IF n < i THEN n ELSE n + 1
            /\ p # q => m = n
      BY <1>16
    <2>2. PICK m2 \in 1 .. Len(a[p2]) :
            /\ b[p2][n2] = a[p2][m2]
            /\ p2 = q => m2 # i /\ m2 = IF n2 < i THEN n2 ELSE n2 + 1
            /\ p2 # q => m2 = n2
      BY <1>16
    <2>3. p = p2 /\ m = m2
      <3>1. a[p][m] = a[p2][m2]  BY <2>1, <2>2
      <3> QED BY <1>2, <3>1 DEF NoneTwice
    <2>4. i \in Int /\ n \in Int /\ n2 \in Int  BY <1>1
    <2>5. n = n2
      <3>1. CASE p = q  BY <2>1, <2>2, <2>3, <2>4, <3>1
      <3>2. CASE p # q  BY <2>1, <2>2, <2>3, <3>2
      <3> QED BY <3>1, <3>2
    <2> QED BY <2>3, <2>5
  <1>18. \A p \in List : \A n \in 1 .. Len(b[p]) : b[p][n] # r
    <2> TAKE p \in List
    <2> TAKE n \in 1 .. Len(b[p])
    <2>1. PICK m \in 1 .. Len(a[p]) : b[p][n] = a[p][m] /\ (p = q => m # i)
      BY <1>16
    <2>2. a[q][i] = r  BY DEF r, s
    <2> QED BY <1>2, <2>1, <2>2 DEF NoneTwice
  <1>19. Held(b) = Held(a) - 1
    <2>1. Len(b[q]) = Len(a[q]) + (-1)  BY <1>1, <1>6, <1>8 DEF s
    <2>2. -1 \in Int  OBVIOUS
    <2>3. Held(b) = Held(a) + (-1)
      BY ONLY <1>2, <1>8, <2>1, <2>2, q \in List, HeldMoves
    <2> QED BY <1>2, <2>3
  <1>20. \A p \in List : Spells(u, p, b[p])  BY <1>8, <1>14, <1>15
  <1>21. Held(b) <= NumRecords  BY <1>2, <1>19, VblankAssumption
  <1>22. Pool(u, b)  BY <1>8, <1>10, <1>17, <1>20, <1>21 DEF Pool
  <1> QED BY <1>18, <1>19, <1>22 DEF b, t, s, u, r

(* Put in at a place of a list, it stands there and nothing else moves.    *)
LEMMA InsertPuts ==
  ASSUME NEW k, NEW a, Pool(k, a), Held(a) < NumRecords, NEW q \in List,
         NEW r \in Record, \A p \in List : \A n \in 1 .. Len(a[p]) : a[p][n] # r,
         NEW i \in 1 .. Len(a[q]) + 1, NEW before, before = Nth(a[q], i)
  PROVE  LET b == [a EXCEPT ![q] = InsertAt(a[q], i, r)]
         IN  Pool(InsertBefore(k, q, r, before), b) /\ Held(b) = Held(a) + 1
  <1> DEFINE s == a[q]
             t == InsertAt(s, i, r)
             b == [a EXCEPT ![q] = t]
             u == InsertBefore(k, q, r, before)
             prior == Nth(s, i - 1)
  <1>1. /\ s \in Seq(Record) /\ Len(s) \in Nat /\ DOMAIN s = 1 .. Len(s)
        /\ \A n \in 1 .. Len(s) : s[n] \in Record /\ s[n] # NoRecord /\ s[n] # r
        /\ i \in 1 .. Len(s) + 1
    BY ListLens DEF Pool
  <1>2. k \in Links /\ a \in [List -> Seq(Record)] /\ NoneTwice(a)
        /\ Held(a) \in Nat /\ Held(a) < NumRecords
    BY ListLens DEF Pool
  <1>3. \A p \in List : Spells(k, p, a[p])  BY DEF Pool
  <1>4. k.head[q] = Nth(s, 1)
        /\ \A n \in 1 .. Len(s) : k.next[s[n]] = Nth(s, n + 1)
                                  /\ k.previous[s[n]] = Nth(s, n - 1)
    BY <1>3 DEF Spells
  <1>5. \A m, n \in 1 .. Len(s) : s[m] = s[n] => m = n  BY <1>2 DEF NoneTwice
  <1>6. /\ t \in Seq(Record) /\ Len(t) = Len(s) + 1
        /\ \A j \in 1 .. Len(s) + 1 :
             t[j] = IF j < i THEN s[j] ELSE IF j = i THEN r ELSE s[j - 1]
    <2> HIDE DEF s
    <2>1. r \in Record  OBVIOUS
    <2>2. s \in Seq(Record) /\ i \in 1 .. Len(s) + 1  BY <1>1
    <2>3. Grown(t, Record, s, i, r)  BY ONLY <2>1, <2>2, InsertAtIs
    <2> QED BY <2>3 DEF Grown
  <1>7. \A n \in Int : Nth(t, n) = IF n < i THEN Nth(s, n)
                                   ELSE IF n = i THEN r ELSE Nth(s, n - 1)
    BY <1>1, InsertedNth
  <1>8. b \in [List -> Seq(Record)] /\ b[q] = t
        /\ \A p \in List : p # q => b[p] = a[p]
    BY <1>2, <1>6
  <1>9. Chain(k, q) = s  BY ChainIs
  <1> HIDE DEF s, t, b
  <1>10. \A m \in Int : m \in 1 .. Len(s) => Nth(s, m) = s[m]  BY DEF Nth
  <1>11. \A m \in Int : m \notin 1 .. Len(s) => Nth(s, m) = NoRecord  BY DEF Nth
  <1>12. before = Nth(s, i)  BY DEF s
  <1>13. prior = IF before # NoRecord THEN k.previous[before]
                 ELSE IF Chain(k, q) = <<>> THEN NoRecord ELSE Last(Chain(k, q))
    <2>1. CASE i \in 1 .. Len(s)
      <3>1. before = s[i] /\ before # NoRecord  BY <1>1, <1>10, <1>12, <2>1
      <3>2. k.previous[s[i]] = Nth(s, i - 1)  BY <1>4, <2>1
      <3> QED BY <3>1, <3>2
    <2>2. CASE i = Len(s) + 1
      <3>1. before = NoRecord  BY <1>1, <1>11, <1>12, <2>2
      <3>2. i - 1 = Len(s)  BY <1>1, <2>2
      <3>3. CASE s = <<>>
        <4>1. Len(s) = 0  BY <3>3
        <4>2. prior = NoRecord  BY <1>11, <3>2, <4>1
        <4> QED BY <1>9, <3>1, <3>3, <4>2
      <3>4. CASE s # <<>>
        <4>1. Len(s) \in 1 .. Len(s)  BY <1>1, <3>4, EmptySeq
        <4>2. prior = s[Len(s)]  BY <1>10, <3>2, <4>1
        <4> QED BY <1>9, <3>1, <3>4, <4>2 DEF Last
      <3> QED BY <3>3, <3>4
    <2> QED BY <1>1, <2>1, <2>2
  <1>14. before \in MayBe /\ prior \in MayBe /\ NoRecord \notin Record
         /\ before # r /\ prior # r
    BY <1>1, <1>12, VblankAssumption DEF Nth, MayBe
  <1> HIDE DEF prior
  <1>15. /\ u \in Links
         /\ \A x \in Record :
              /\ u.next[x] = IF x = prior THEN r
                             ELSE IF x = r THEN before ELSE k.next[x]
              /\ u.previous[x] = IF x = before THEN r
                                 ELSE IF x = r THEN prior ELSE k.previous[x]
         /\ \A p \in List :
              u.head[p] = IF p = q /\ prior = NoRecord THEN r ELSE k.head[p]
    BY <1>2, <1>13, <1>14, InsertWrites
  <1> HIDE DEF u
  <1>16. ASSUME NEW p \in List, p # q  PROVE Spells(u, p, b[p])
    <2>1. \A n \in 1 .. Len(a[p]) : a[p][n] \in Record /\ a[p][n] # r  BY <1>2, ListLens
    <2>2. \A n \in 1 .. Len(a[p]), m \in 1 .. Len(s) : a[p][n] # s[m]
      BY <1>2, <1>16 DEF NoneTwice, s
    <2>3. \A n \in 1 .. Len(a[p]) : a[p][n] # before /\ a[p][n] # prior
      BY <1>12, <1>14, <2>1, <2>2 DEF Nth, prior
    <2>4. u.head[p] = k.head[p]  BY <1>15, <1>16
    <2>5. \A n \in 1 .. Len(a[p]) : u.next[a[p][n]] = k.next[a[p][n]]
                                    /\ u.previous[a[p][n]] = k.previous[a[p][n]]
      BY <1>15, <2>1, <2>3
    <2>6. a[p] \in Seq(Record) /\ b[p] = a[p]  BY <1>2, <1>8, <1>16
    <2> QED BY <1>3, <2>4, <2>5, <2>6, SpellsStay
  <1>17. prior = Nth(s, i - 1)  BY DEF prior
  <1>18. Spells(u, q, t)
    <2>1. u.head[q] = Nth(t, 1)
      <3>1. CASE i = 1
        <4>1. prior = NoRecord /\ Nth(t, 1) = r  BY <1>7, <1>11, <1>17, <3>1
        <4> QED BY <1>15, <4>1
      <3>2. CASE i # 1
        <4>1. i - 1 \in 1 .. Len(s) /\ i - 1 \in Int /\ 1 < i  BY <1>1, <3>2
        <4>2. Nth(t, 1) = Nth(s, 1)  BY <1>7, <4>1
        <4>3. prior = s[i - 1]  BY <1>10, <1>17, <4>1
        <4>4. prior # NoRecord  BY <1>1, <4>1, <4>3
        <4> QED BY <1>4, <1>15, <4>2, <4>4
      <3> QED BY <3>1, <3>2
    <2>2. ASSUME NEW n \in 1 .. Len(t)
          PROVE  u.next[t[n]] = Nth(t, n + 1) /\ u.previous[t[n]] = Nth(t, n - 1)
      <3>1. n \in 1 .. Len(s) + 1 /\ n \in Int /\ i \in Int  BY <1>1, <1>6, <2>2
      <3>2. CASE n < i
        <4>1. n \in 1 .. Len(s) /\ t[n] = s[n]  BY <1>1, <1>6, <3>1, <3>2
        <4>2. t[n] \in Record /\ t[n] # r  BY <1>1, <4>1
        <4>3. t[n] # before
          BY <1>1, <1>5, <1>10, <1>11, <1>12, <1>14, <3>2, <4>1, <4>2
        <4>4. t[n] = prior <=> n = i - 1
          BY <1>1, <1>5, <1>10, <1>11, <1>14, <1>17, <4>1, <4>2
        <4>5. u.previous[t[n]] = Nth(s, n - 1)  BY <1>4, <1>15, <4>1, <4>2, <4>3
        <4>6. Nth(t, n - 1) = Nth(s, n - 1)  BY <1>7, <3>1, <3>2
        <4>7. CASE n = i - 1
          <5>1. u.next[t[n]] = r  BY <1>15, <4>2, <4>4, <4>7
          <5>2. Nth(t, n + 1) = r  BY <1>7, <3>1, <4>7
          <5> QED BY <4>5, <4>6, <5>1, <5>2
        <4>8. CASE n # i - 1
          <5>1. u.next[t[n]] = Nth(s, n + 1)  BY <1>4, <1>15, <4>1, <4>2, <4>4, <4>8
          <5>2. Nth(t, n + 1) = Nth(s, n + 1)  BY <1>7, <3>1, <3>2, <4>8
          <5> QED BY <4>5, <4>6, <5>1, <5>2
        <4> QED BY <4>7, <4>8
      <3>3. CASE n = i
        <4>1. t[n] = r  BY <1>6, <3>1, <3>3
        <4>2. u.next[r] = before /\ u.previous[r] = prior  BY <1>14, <1>15
        <4>3. Nth(t, n + 1) = Nth(s, i)
          <5>1. n + 1 \in Int /\ ~(n + 1 < i) /\ n + 1 # i /\ n + 1 - 1 = i
            BY <3>1, <3>3
          <5> QED BY <1>7, <5>1
        <4>4. Nth(t, n - 1) = Nth(s, i - 1)  BY <1>7, <3>1, <3>3
        <4> QED BY <1>12, <1>17, <4>1, <4>2, <4>3, <4>4
      <3>4. CASE n > i
        <4> DEFINE y == n - 1
        <4>0. y \in Int /\ y + 1 = n /\ y >= i /\ n + 1 - 1 = y + 1  BY <3>1, <3>4
        <4>1. y \in 1 .. Len(s) /\ t[n] = s[y]  BY <1>1, <1>6, <3>1, <3>4
        <4>6. Nth(t, n + 1) = Nth(s, y + 1)
          <5>1. n + 1 \in Int /\ ~(n + 1 < i) /\ n + 1 # i  BY <3>1, <3>4
          <5> QED BY <1>7, <4>0, <5>1
        <4>9. Nth(t, n - 1) = IF y = i THEN r ELSE Nth(s, y - 1)  BY <1>7, <4>0
        <4> HIDE DEF y
        <4>2. t[n] \in Record /\ t[n] # r  BY <1>1, <4>1
        <4>3. t[n] # prior
          <5>1. y # i - 1  BY <3>1, <4>0
          <5> QED BY <1>1, <1>5, <1>10, <1>11, <1>14, <1>17, <4>1, <4>2, <5>1
        <4>4. t[n] = before <=> y = i
          BY <1>1, <1>5, <1>10, <1>11, <1>12, <1>14, <4>1, <4>2
        <4>5. u.next[t[n]] = Nth(s, y + 1)  BY <1>4, <1>15, <4>1, <4>2, <4>3
        <4>7. CASE y = i  BY <1>15, <4>2, <4>4, <4>5, <4>6, <4>7, <4>9
        <4>8. CASE y # i
          <5>1. u.previous[t[n]] = Nth(s, y - 1)  BY <1>4, <1>15, <4>1, <4>2, <4>4, <4>8
          <5> QED BY <4>5, <4>6, <4>8, <4>9, <5>1
        <4> QED BY <4>7, <4>8
      <3> QED BY <3>1, <3>2, <3>3, <3>4
    <2> QED BY <2>1, <2>2 DEF Spells
  <1>19. \A p \in List : \A n \in 1 .. Len(b[p]) :
           \/ p = q /\ n = i /\ b[p][n] = r
           \/ \E m \in 1 .. Len(a[p]) :
                /\ b[p][n] = a[p][m] /\ b[p][n] # r
                /\ p = q => n # i /\ m = IF n < i THEN n ELSE n - 1
                /\ p # q => m = n
    <2> TAKE p \in List
    <2> TAKE n \in 1 .. Len(b[p])
    <2>1. CASE p = q
      <3>1. n \in 1 .. Len(t) /\ b[p][n] = t[n]  BY <1>8, <2>1
      <3>2. CASE n = i  BY <1>6, <2>1, <3>1, <3>2
      <3>3. CASE n # i
        <4> DEFINE m == IF n < i THEN n ELSE n - 1
        <4>1. m \in 1 .. Len(s) /\ t[n] = s[m]  BY <1>1, <1>6, <3>1, <3>3
        <4> HIDE DEF m
        <4>2. m \in 1 .. Len(a[p]) /\ b[p][n] = a[p][m] /\ b[p][n] # r
          BY <1>1, <2>1, <3>1, <4>1 DEF s
        <4> QED BY <2>1, <3>3, <4>2 DEF m
      <3> QED BY <3>2, <3>3
    <2>2. CASE p # q  BY <1>8, <2>2
    <2> QED BY <2>1, <2>2
  <1>20. NoneTwice(b)
    <2> SUFFICES ASSUME NEW p \in List, NEW p2 \in List, NEW n \in 1 .. Len(b[p]),
                        NEW n2 \in 1 .. Len(b[p2]), b[p][n] = b[p2][n2]
                 PROVE  p = p2 /\ n = n2
      BY DEF NoneTwice
    <2>0. i \in Int /\ n \in Int /\ n2 \in Int  BY <1>1
    <2>1. CASE b[p][n] = r
      <3>1. p = q /\ n = i  BY <1>19, <2>1
      <3>2. b[p2][n2] = r  BY <2>1
      <3>3. p2 = q /\ n2 = i  BY <1>19, <3>2
      <3> QED BY <3>1, <3>3
    <2>2. CASE b[p][n] # r
      <3>1. PICK m \in 1 .. Len(a[p]) :
              /\ b[p][n] = a[p][m]
              /\ p = q => n # i /\ m = IF n < i THEN n ELSE n - 1
              /\ p # q => m = n
        BY <1>19, <2>2
      <3>2. PICK m2 \in 1 .. Len(a[p2]) :
              /\ b[p2][n2] = a[p2][m2]
              /\ p2 = q => n2 # i /\ m2 = IF n2 < i THEN n2 ELSE n2 - 1
              /\ p2 # q => m2 = n2
        BY <1>19, <2>2
      <3>3. p = p2 /\ m = m2
        <4>1. a[p][m] = a[p2][m2]  BY <3>1, <3>2
        <4>2. NoneTwice(a)  BY <1>2
        <4> QED BY <4>1, <4>2 DEF NoneTwice
      <3>4. CASE p = q  BY <2>0, <3>1, <3>2, <3>3, <3>4
      <3>5. CASE p # q  BY <3>1, <3>2, <3>3, <3>5
      <3> QED BY <3>3, <3>4, <3>5
    <2> QED BY <2>1, <2>2
  <1>21. Held(b) = Held(a) + 1
    <2>1. Len(b[q]) = Len(a[q]) + 1  BY <1>6, <1>8 DEF s
    <2>2. 1 \in Int  OBVIOUS
    <2> QED BY ONLY <1>2, <1>8, <2>1, <2>2, q \in List, HeldMoves
  <1>22. \A p \in List : Spells(u, p, b[p])  BY <1>8, <1>16, <1>18
  <1>23. Held(b) <= NumRecords  BY <1>2, <1>21, VblankAssumption
  <1>24. Pool(u, b)  BY <1>8, <1>15, <1>20, <1>22, <1>23 DEF Pool
  <1> QED BY <1>21, <1>24 DEF b, t, s, u

(* A record moves from the head of the free list to a place in an edge's,  *)
(* and from there back to that head.                                       *)
Took(k, a, e, c, r) ==
  \E b \in [List -> Seq(Record)] :
    /\ Pool(k, b) /\ Held(b) = Held(a)
    /\ b["free"] = RemoveAt(a["free"], 1) /\ b[e] = InsertAt(a[e], c, r)
    /\ \A p \in Edge : p # e => b[p] = a[p]

LEMMA Installs ==
  ASSUME NEW k, NEW a, Pool(k, a), NEW e \in Edge, k.head["free"] # NoRecord,
         NEW rec, NEW handler, NEW priority, NEW c \in 1 .. Len(a[e]) + 1,
         Place(k, rec, e, priority) = Nth(a[e], c)
  PROVE  LET r == k.head["free"]
         IN  /\ r = Nth(a["free"], 1) /\ r \in Record
             /\ \A p \in Edge : \A n \in 1 .. Len(a[p]) : a[p][n] # r
             /\ Took(Installed(k, rec, e, handler, priority), a, e, c, r)
  <1> DEFINE f == "free"
             r == k.head[f]
             m == [a EXCEPT ![f] = RemoveAt(a[f], 1)]
             u == Unlink(k, f, r)
             b == [m EXCEPT ![e] = InsertAt(m[e], c, r)]
  <1>1. f \in List /\ e \in List /\ e # f /\ Edge \subseteq List
        /\ \A p \in Edge : p # f
    BY DEF List, Edge
  <1>2. /\ a \in [List -> Seq(Record)] /\ NoneTwice(a) /\ Held(a) \in Nat
        /\ Held(a) <= NumRecords /\ Len(a[f]) \in Nat
        /\ \A n \in 1 .. Len(a[f]) : a[f][n] \in Record
        /\ a[f] \in Seq(Record) /\ a[e] \in Seq(Record)
    BY <1>1, ListLens DEF Pool
  <1>3. r = Nth(a[f], 1)  BY <1>1 DEF Pool, Spells
  <1>4. 1 \in 1 .. Len(a[f]) /\ r = a[f][1] /\ r \in Record  BY <1>2, <1>3 DEF Nth
  <1>5. \A p \in Edge : \A n \in 1 .. Len(a[p]) : a[p][n] # r
    BY <1>1, <1>2, <1>4 DEF NoneTwice
  <1> HIDE DEF f, r, m, u
  <1>6. /\ Pool(u, m) /\ Held(m) = Held(a) - 1
        /\ \A p \in List : \A n \in 1 .. Len(m[p]) : m[p][n] # r
    <2>1. /\ Pool(Unlink(k, f, a[f][1]), [a EXCEPT ![f] = RemoveAt(a[f], 1)])
          /\ Held([a EXCEPT ![f] = RemoveAt(a[f], 1)]) = Held(a) - 1
          /\ \A p \in List : \A n \in 1 .. Len([a EXCEPT ![f] = RemoveAt(a[f], 1)][p]) :
               [a EXCEPT ![f] = RemoveAt(a[f], 1)][p][n] # a[f][1]
      BY ONLY <1>1, <1>4, Pool(k, a), UnlinkTakes
    <2> QED BY <1>4, <2>1 DEF m, u
  <1>7. m[e] = a[e] /\ m[f] = RemoveAt(a[f], 1) /\ m \in [List -> Seq(Record)]
        /\ \A p \in Edge : m[p] = a[p]
    <2>1. RemoveAt(a[f], 1) \in Seq(Record)  BY <1>2, <1>4, RemoveAtIs
    <2> QED BY <1>1, <1>2, <2>1 DEF m
  <1>8. Held(m) < NumRecords  BY <1>2, <1>6, VblankAssumption
  <1> DEFINE before == Nth(m[e], c)
  <1>9. Place(k, rec, e, priority) = before /\ c \in 1 .. Len(m[e]) + 1  BY <1>7
  <1>10. Pool(InsertBefore(u, e, r, before), b) /\ Held(b) = Held(m) + 1
    <2> HIDE DEF before
    <2>1. before = Nth(m[e], c)  BY DEF before
    <2> QED BY ONLY <1>1, <1>4, <1>6, <1>8, <1>9, <2>1, InsertPuts
  <1>11. Installed(k, rec, e, handler, priority) = InsertBefore(u, e, r, before)
    BY <1>9 DEF Installed, u, r, f
  <1>12. b \in [List -> Seq(Record)]
    <2>1. InsertAt(a[e], c, r) \in Seq(Record)
      <3>1. a[e] \in Seq(Record) /\ r \in Record /\ c \in 1 .. Len(a[e]) + 1
        BY <1>2, <1>4
      <3>2. Grown(InsertAt(a[e], c, r), Record, a[e], c, r)
        BY ONLY <3>1, InsertAtIs
      <3> QED BY <3>2 DEF Grown
    <2> QED BY <1>7, <2>1
  <1>13. /\ b[f] = RemoveAt(a[f], 1) /\ b[e] = InsertAt(a[e], c, r)
         /\ \A p \in Edge : p # e => b[p] = a[p]
    BY <1>1, <1>7
  <1>14. Held(b) = Held(a)  BY <1>2, <1>6, <1>10
  <1> HIDE DEF b, before
  <1>15. \E d \in [List -> Seq(Record)] :
           /\ Pool(Installed(k, rec, e, handler, priority), d) /\ Held(d) = Held(a)
           /\ d[f] = RemoveAt(a[f], 1) /\ d[e] = InsertAt(a[e], c, r)
           /\ \A p \in Edge : p # e => d[p] = a[p]
    BY <1>10, <1>11, <1>12, <1>13, <1>14
  <1> QED BY <1>3, <1>4, <1>5, <1>15 DEF r, f, Took

Gave(k, a, e, i) ==
  \E b \in [List -> Seq(Record)] :
    /\ Pool(k, b) /\ Held(b) = Held(a)
    /\ b[e] = RemoveAt(a[e], i) /\ \A p \in Edge : p # e => b[p] = a[p]

LEMMA Frees ==
  ASSUME NEW k, NEW a, Pool(k, a), NEW e \in Edge, NEW i \in 1 .. Len(a[e])
  PROVE  Gave(Freed(k, e, a[e][i]), a, e, i)
  <1> DEFINE f == "free"
             r == a[e][i]
             m == [a EXCEPT ![e] = RemoveAt(a[e], i)]
             u == Unlink(k, e, r)
             b == [m EXCEPT ![f] = InsertAt(m[f], 1, r)]
  <1>1. f \in List /\ e \in List /\ e # f /\ Edge \subseteq List
        /\ \A p \in Edge : p # f
    BY DEF List, Edge
  <1>2. /\ a \in [List -> Seq(Record)] /\ Held(a) \in Nat
        /\ Held(a) <= NumRecords /\ a[f] \in Seq(Record) /\ Len(a[f]) \in Nat
        /\ a[e] \in Seq(Record) /\ r \in Record
    BY <1>1, ListLens DEF Pool
  <1> HIDE DEF f, r, m, u
  <1>3. /\ Pool(u, m) /\ Held(m) = Held(a) - 1
        /\ \A p \in List : \A n \in 1 .. Len(m[p]) : m[p][n] # r
    <2>1. /\ Pool(Unlink(k, e, a[e][i]), [a EXCEPT ![e] = RemoveAt(a[e], i)])
          /\ Held([a EXCEPT ![e] = RemoveAt(a[e], i)]) = Held(a) - 1
          /\ \A p \in List : \A n \in 1 .. Len([a EXCEPT ![e] = RemoveAt(a[e], i)][p]) :
               [a EXCEPT ![e] = RemoveAt(a[e], i)][p][n] # a[e][i]
      BY ONLY <1>1, i \in 1 .. Len(a[e]), Pool(k, a), UnlinkTakes
    <2> QED BY <2>1 DEF m, u, r
  <1>4. m[f] = a[f] /\ m[e] = RemoveAt(a[e], i) /\ m \in [List -> Seq(Record)]
        /\ \A p \in Edge : p # e => m[p] = a[p]
    <2>1. RemoveAt(a[e], i) \in Seq(Record)  BY <1>2, RemoveAtIs
    <2> QED BY <1>1, <1>2, <2>1 DEF m
  <1>5. Held(m) < NumRecords  BY <1>2, <1>3, VblankAssumption
  <1>6. u.head[f] = Nth(m[f], 1)  BY <1>1, <1>3 DEF Pool, Spells
  <1> DEFINE before == u.head[f]
  <1>7. Pool(InsertBefore(u, f, r, before), b) /\ Held(b) = Held(m) + 1
    <2> HIDE DEF before
    <2>1. before = Nth(m[f], 1) /\ 1 \in 1 .. Len(m[f]) + 1
      BY <1>2, <1>4, <1>6 DEF before
    <2>2. PICK c : c = 1  OBVIOUS
    <2>3. /\ Pool(InsertBefore(u, f, r, before), [m EXCEPT ![f] = InsertAt(m[f], c, r)])
          /\ Held([m EXCEPT ![f] = InsertAt(m[f], c, r)]) = Held(m) + 1
      <3>1. /\ before = Nth(m[f], c) /\ c \in 1 .. Len(m[f]) + 1
            /\ f \in List /\ r \in Record /\ Pool(u, m) /\ Held(m) < NumRecords
        BY <1>1, <1>2, <1>3, <1>5, <2>1, <2>2
      <3>2. \A p \in List : \A n \in 1 .. Len(m[p]) : m[p][n] # r  BY <1>3
      <3> QED BY ONLY <3>1, <3>2, InsertPuts
    <2> QED BY <2>2, <2>3
  <1>8. Freed(k, e, r) = InsertBefore(u, f, r, before)  BY DEF Freed, u, f
  <1>9. b \in [List -> Seq(Record)]
    <2>1. InsertAt(a[f], 1, r) \in Seq(Record)
      <3>1. a[f] \in Seq(Record) /\ r \in Record /\ 1 \in 1 .. Len(a[f]) + 1
        BY <1>2
      <3>2. Grown(InsertAt(a[f], 1, r), Record, a[f], 1, r)
        BY ONLY <3>1, InsertAtIs
      <3> QED BY <3>2 DEF Grown
    <2> QED BY <1>4, <2>1
  <1>10. b[e] = RemoveAt(a[e], i) /\ \A p \in Edge : p # e => b[p] = a[p]
    BY <1>1, <1>4
  <1>11. Held(b) = Held(a)  BY <1>2, <1>3, <1>7
  <1> HIDE DEF b, before
  <1>12. Pool(Freed(k, e, r), b)  BY <1>7, <1>8
  <1> QED BY <1>9, <1>10, <1>11, <1>12 DEF r, Gave

(***************************************************************************)
(* The invariant.  Behind the lists' links are sequences of records, a;    *)
(* an edge's spells out the handlers promised for it, which stand in order *)
(* of priority, no handler twice, the module's own among them; and a walk  *)
(* stands at the first record of those whose handlers it still owes a      *)
(* call.  Once the module's own was called nobody sleeps for the edge.     *)
(***************************************************************************)
Entry == [handler : Client \cup {"none", Own.start, Own.end}, priority : Int]

LinesUp(e, x) ==
  /\ x \in Seq(Entry)
  /\ \A m, n \in 1 .. Len(x) : m < n => x[m].priority <= x[n].priority
  /\ \A m, n \in 1 .. Len(x) : x[m].handler = x[n].handler => m = n
  /\ \E n \in 1 .. Len(x) : x[n].handler = Own[e]

Promised(a) ==
  /\ Pool(links, a) /\ Held(a) = NumRecords
  /\ \A e \in Edge : expected[e] = [n \in 1 .. Len(a[e]) |-> record[a[e][n]]]

WalkOn(a) ==
  \/ edgeWalk = [edge |-> "none", at |-> NoRecord]
  \/ \E e \in Edge : \E j \in 1 .. Len(a[e]) + 1 :
       /\ edgeWalk = [edge |-> e, at |-> Nth(a[e], j)]
       /\ owed = SubSeq(expected[e], j, Len(expected[e]))
       /\ \/ \E n \in j .. Len(expected[e]) : expected[e][n].handler = Own[e]
          \/ \A s \in Sleeper : sleeping[s] \notin {e, Level[e]}

VblankInv ==
  /\ record \in [Record -> Entry] /\ expected \in [Edge -> Seq(Entry)]
  /\ \A e \in Edge : LinesUp(e, expected[e])
  /\ edgeBits \in {{}, {"inside"}, {"outside"}}
  /\ \E a \in [List -> Seq(Record)] : Promised(a) /\ WalkOn(a)

(* The handlers of an edge line up after one more of its own rank, and     *)
(* without one that is not the module's own.                               *)
LEMMA InsertLinesUp ==
  ASSUME NEW e \in Edge, NEW x, LinesUp(e, x), NEW entry \in Entry,
         \A n \in 1 .. Len(x) : x[n].handler # entry.handler,
         NEW c \in 1 .. Len(x) + 1,
         \A n \in 1 .. Len(x) : x[n].priority <= entry.priority <=> n < c
  PROVE  LinesUp(e, InsertAt(x, c, entry))
  <1> DEFINE y == InsertAt(x, c, entry)
             L == Len(x)
  <1>1. /\ x \in Seq(Entry) /\ L \in Nat
        /\ \A n \in 1 .. L : x[n] \in Entry /\ x[n].priority \in Int
        /\ entry.priority \in Int /\ c \in 1 .. L + 1
    <2>1. x \in Seq(Entry)  BY DEF LinesUp
    <2>2. L \in Nat /\ \A n \in 1 .. L : x[n] \in Entry  BY <2>1, LenProperties, ElementOfSeq
    <2> QED BY <2>1, <2>2 DEF Entry
  <1>2. y \in Seq(Entry) /\ Len(y) = L + 1
        /\ \A n \in 1 .. L + 1 :
             y[n] = IF n < c THEN x[n] ELSE IF n = c THEN entry ELSE x[n - 1]
    <2>1. x \in Seq(Entry) /\ c \in 1 .. Len(x) + 1 /\ entry \in Entry  BY <1>1
    <2>2. Grown(y, Entry, x, c, entry)  BY ONLY <2>1, InsertAtIs
    <2> HIDE DEF y
    <2> QED BY <2>2 DEF Grown
  <1> HIDE DEF y, L
  <1>3. \A n \in 1 .. L + 1 :
          \/ n = c /\ y[n] = entry
          \/ \E m \in 1 .. L : /\ y[n] = x[m] /\ n # c
                               /\ (m < c /\ n = m) \/ (~(m < c) /\ n = m + 1)
    <2> TAKE n \in 1 .. L + 1
    <2>1. CASE n = c  BY <1>2, <2>1
    <2>2. CASE n < c
      <3>1. n \in 1 .. L /\ n # c  BY <1>1, <2>2
      <3> QED BY <1>2, <2>2, <3>1
    <2>3. CASE n > c
      <3> DEFINE m == n - 1
      <3>1. m \in 1 .. L /\ ~(m < c) /\ n = m + 1 /\ n # c /\ ~(n < c)  BY <1>1, <2>3
      <3>2. y[n] = x[m]  BY <1>2, <3>1
      <3> HIDE DEF m
      <3> QED BY <3>1, <3>2
    <2> QED BY <1>1, <2>1, <2>2, <2>3
  <1>4. \A m, n \in 1 .. L : m < n => x[m].priority <= x[n].priority
    BY DEF LinesUp, L
  <1>5. \A m, n \in 1 .. L : x[m].handler = x[n].handler => m = n
    BY DEF LinesUp, L
  <1>6. \A n \in 1 .. L : /\ x[n].handler # entry.handler
                          /\ x[n].priority <= entry.priority <=> n < c
    BY DEF L
  <1>7. ASSUME NEW m \in 1 .. L + 1, NEW n \in 1 .. L + 1, m < n
        PROVE  y[m].priority <= y[n].priority
    <2>1. CASE m = c
      <3>1. n # c  BY <1>7, <2>1
      <3>2. PICK o \in 1 .. L : y[n] = x[o] /\ ((o < c /\ n = o) \/ (~(o < c) /\ n = o + 1))
        BY <1>3, <3>1
      <3>3. ~(o < c)  BY <1>1, <1>7, <2>1, <3>2
      <3> QED BY <1>1, <1>3, <1>6, <2>1, <3>2, <3>3
    <2>2. CASE n = c
      <3>1. m # c  BY <1>7, <2>2
      <3>2. PICK o \in 1 .. L : y[m] = x[o] /\ ((o < c /\ m = o) \/ (~(o < c) /\ m = o + 1))
        BY <1>3, <3>1
      <3>3. o < c  BY <1>1, <1>7, <2>2, <3>2
      <3> QED BY <1>1, <1>3, <1>6, <2>2, <3>2, <3>3
    <2>3. CASE m # c /\ n # c
      <3>1. PICK o \in 1 .. L : y[m] = x[o] /\ ((o < c /\ m = o) \/ (~(o < c) /\ m = o + 1))
        BY <1>3, <2>3
      <3>2. PICK w \in 1 .. L : y[n] = x[w] /\ ((w < c /\ n = w) \/ (~(w < c) /\ n = w + 1))
        BY <1>3, <2>3
      <3>3. o < w  BY <1>1, <1>7, <3>1, <3>2
      <3> QED BY <1>4, <3>1, <3>2, <3>3
    <2> QED BY <2>1, <2>2, <2>3
  <1>8. ASSUME NEW m \in 1 .. L + 1, NEW n \in 1 .. L + 1, y[m].handler = y[n].handler
         PROVE  m = n
    <2>1. CASE m = c
      <3>1. CASE n # c
        <4>1. PICK o \in 1 .. L : y[n] = x[o]  BY <1>3, <3>1
        <4> QED BY <1>3, <1>6, <1>8, <2>1, <4>1
      <3> QED BY <2>1, <3>1
    <2>2. CASE n = c
      <3>1. CASE m # c
        <4>1. PICK o \in 1 .. L : y[m] = x[o]  BY <1>3, <3>1
        <4> QED BY <1>3, <1>6, <1>8, <2>2, <4>1
      <3> QED BY <2>2, <3>1
    <2>3. CASE m # c /\ n # c
      <3>1. PICK o \in 1 .. L : y[m] = x[o] /\ ((o < c /\ m = o) \/ (~(o < c) /\ m = o + 1))
        BY <1>3, <2>3
      <3>2. PICK w \in 1 .. L : y[n] = x[w] /\ ((w < c /\ n = w) \/ (~(w < c) /\ n = w + 1))
        BY <1>3, <2>3
      <3>3. o = w  BY <1>5, <1>8, <3>1, <3>2
      <3> QED BY <1>1, <3>1, <3>2, <3>3
    <2> QED BY <2>1, <2>2, <2>3
  <1>9. \E n \in 1 .. L + 1 : y[n].handler = Own[e]
    <2>1. PICK m \in 1 .. L : x[m].handler = Own[e]  BY DEF LinesUp, L
    <2> DEFINE n == IF m < c THEN m ELSE m + 1
    <2>2. /\ n \in 1 .. L + 1
          /\ m < c => n < c /\ n = m
          /\ ~(m < c) => ~(n < c) /\ n # c /\ n - 1 = m
      BY <1>1
    <2> HIDE DEF n
    <2>3. y[n] = x[m]  BY <1>2, <2>2
    <2> QED BY <2>1, <2>2, <2>3
  <1>10. LinesUp(e, y)  BY <1>2, <1>7, <1>8, <1>9 DEF LinesUp
  <1> QED BY <1>10 DEF y

LEMMA RemoveLinesUp ==
  ASSUME NEW e \in Edge, NEW x, LinesUp(e, x), NEW i \in 1 .. Len(x),
         x[i].handler # Own[e]
  PROVE  LinesUp(e, RemoveAt(x, i))
  <1> DEFINE y == RemoveAt(x, i)
             L == Len(x)
  <1>1. x \in Seq(Entry) /\ L \in Nat /\ i \in 1 .. L
    <2>1. x \in Seq(Entry)  BY DEF LinesUp
    <2> QED BY <2>1, LenProperties
  <1>2. y \in Seq(Entry) /\ Len(y) = L - 1
        /\ \A n \in 1 .. L - 1 : y[n] = IF n < i THEN x[n] ELSE x[n + 1]
    BY <1>1, RemoveAtIs
  <1>3. \A m, n \in 1 .. L : m < n => x[m].priority <= x[n].priority
    BY DEF LinesUp
  <1>4. \A m, n \in 1 .. L : x[m].handler = x[n].handler => m = n
    BY DEF LinesUp
  <1> HIDE DEF y, L
  <1>5. \A n \in 1 .. L - 1 : \E m \in 1 .. L :
          /\ y[n] = x[m]
          /\ (m < i /\ n = m) \/ (m > i /\ m = n + 1)
    <2> TAKE n \in 1 .. L - 1
    <2>1. CASE n < i
      <3>1. n \in 1 .. L  BY <1>1
      <3> QED BY <1>2, <2>1, <3>1
    <2>2. CASE ~(n < i)
      <3>1. n + 1 \in 1 .. L /\ n + 1 > i  BY <1>1, <2>2
      <3> QED BY <1>2, <2>2, <3>1
    <2> QED BY <2>1, <2>2
  <1>6. ASSUME NEW m \in 1 .. L - 1, NEW n \in 1 .. L - 1
        PROVE  /\ m < n => y[m].priority <= y[n].priority
               /\ y[m].handler = y[n].handler => m = n
    <2>1. PICK o \in 1 .. L : y[m] = x[o] /\ ((o < i /\ m = o) \/ (o > i /\ o = m + 1))
      BY <1>5
    <2>2. PICK w \in 1 .. L : y[n] = x[w] /\ ((w < i /\ n = w) \/ (w > i /\ w = n + 1))
      BY <1>5
    <2>3. (m < n => o < w) /\ (o = w => m = n)  BY <1>1, <2>1, <2>2
    <2> QED BY <1>3, <1>4, <2>1, <2>2, <2>3
  <1>7. \E n \in 1 .. L - 1 : y[n].handler = Own[e]
    <2>1. PICK m \in 1 .. L : x[m].handler = Own[e]  BY DEF LinesUp, L
    <2>2. m # i  BY <2>1
    <2> DEFINE n == IF m < i THEN m ELSE m - 1
    <2>3. /\ n \in 1 .. L - 1
          /\ m < i => n < i /\ n = m
          /\ ~(m < i) => ~(n < i) /\ n + 1 = m
      BY <1>1, <2>2
    <2> HIDE DEF n
    <2>4. y[n] = x[m]  BY <1>2, <2>3
    <2> QED BY <2>1, <2>3, <2>4
  <1>8. LinesUp(e, y)  BY <1>2, <1>6, <1>7 DEF LinesUp
  <1> QED BY <1>8 DEF y

LEMMA SubSeqTail ==
  ASSUME NEW x \in Seq(Entry), NEW j \in 1 .. Len(x)
  PROVE  LET s == SubSeq(x, j, Len(x))
         IN  s # <<>> /\ Head(s) = x[j] /\ Tail(s) = SubSeq(x, j + 1, Len(x))
  <1> DEFINE L == Len(x)
             s == SubSeq(x, j, L)
             t == SubSeq(x, j + 1, L)
  <1>1. L \in Nat /\ j \in 1 .. L /\ \A n \in 1 .. L : x[n] \in Entry
    BY LenProperties, ElementOfSeq
  <1>2. s \in Seq(Entry) /\ Len(s) = L - j + 1
        /\ \A n \in 1 .. L - j + 1 : s[n] = x[j + n - 1]
    BY <1>1, SubSeqProperties
  <1>3. t \in Seq(Entry) /\ Len(t) = L - j
        /\ \A n \in 1 .. L - j : t[n] = x[j + n]
    BY <1>1, SubSeqProperties
  <1> HIDE DEF s, t
  <1>4. Len(s) \in Nat /\ Len(s) # 0  BY <1>1, <1>2
  <1>5. s # <<>>  BY <1>4
  <1>6. Head(s) = s[1] /\ Tail(s) \in Seq(Entry) /\ Len(Tail(s)) = Len(s) - 1
        /\ \A n \in 1 .. Len(Tail(s)) : Tail(s)[n] = s[n + 1]
    BY <1>2, <1>5, HeadTailProperties
  <1>7. s[1] = x[j]
    <2>1. 1 \in 1 .. L - j + 1 /\ j + 1 - 1 = j  BY <1>1
    <2> QED BY <1>2, <2>1
  <1>8. Len(Tail(s)) = Len(t)
    <2>1. Len(Tail(s)) = Len(s) - 1 /\ Len(s) = L - j + 1 /\ Len(t) = L - j
      BY <1>2, <1>3, <1>6
    <2>2. L - j + 1 - 1 = L - j  BY <1>1
    <2> QED BY <2>1, <2>2
  <1>9. \A n \in 1 .. Len(t) : Tail(s)[n] = t[n]
    <2> TAKE n \in 1 .. Len(t)
    <2>1. n \in 1 .. L - j /\ n + 1 \in 1 .. L - j + 1 /\ j + (n + 1) - 1 = j + n
      BY <1>1, <1>3
    <2>2. Tail(s)[n] = s[n + 1]  BY <1>6, <1>8
    <2>3. s[n + 1] = x[j + n]  BY <1>2, <2>1
    <2> QED BY <1>3, <2>1, <2>2, <2>3
  <1>10. Tail(s) = t  BY <1>3, <1>6, <1>8, <1>9, SeqEqual
  <1> QED BY <1>5, <1>6, <1>7, <1>10 DEF s, t

(* What is left behind the j-th entry is left behind where it stood.       *)
LEMMA SubSeqRemoved ==
  ASSUME NEW x \in Seq(Entry), NEW j \in 1 .. Len(x)
  PROVE  SubSeq(RemoveAt(x, j), j, Len(x) - 1) = SubSeq(x, j + 1, Len(x))
  <1> DEFINE L == Len(x)
             y == RemoveAt(x, j)
             s == SubSeq(y, j, L - 1)
             t == SubSeq(x, j + 1, L)
  <1>1. L \in Nat /\ j \in 1 .. L /\ \A n \in 1 .. L : x[n] \in Entry
    BY LenProperties, ElementOfSeq
  <1>2. y \in Seq(Entry) /\ Len(y) = L - 1
        /\ \A n \in 1 .. L - 1 : y[n] = IF n < j THEN x[n] ELSE x[n + 1]
    BY RemoveAtIs
  <1> HIDE DEF y
  <1>3. t \in Seq(Entry) /\ Len(t) = L - j
        /\ \A n \in 1 .. L - j : t[n] = x[j + n]
    BY <1>1, SubSeqProperties
  <1>4. \A n \in 1 .. L - 1 : y[n] \in Entry  BY <1>2, ElementOfSeq
  <1>5. s \in Seq(Entry) /\ Len(s) = L - j
        /\ \A n \in 1 .. L - j : s[n] = y[j + n - 1]
    <2>1. L - 1 \in 0 .. Len(y) /\ j \in 1 .. Len(y) + 1 /\ j <= L - 1 + 1
      BY <1>1, <1>2
    <2>2. s \in Seq(Entry) /\ Len(s) = (IF j <= L - 1 THEN L - 1 - j + 1 ELSE 0)
          /\ \A n \in 1 .. L - 1 - j + 1 : s[n] = y[j + n - 1]
      BY <1>1, <1>2, <2>1, SubSeqProperties
    <2> HIDE DEF s
    <2>3. L - 1 - j + 1 = L - j /\ (~(j <= L - 1) => L - j = 0)  BY <1>1
    <2> QED BY <2>2, <2>3
  <1> HIDE DEF s, t
  <1>6. \A n \in 1 .. L - j : s[n] = t[n]
    <2> TAKE n \in 1 .. L - j
    <2> DEFINE m == j + n - 1
    <2>1. m \in 1 .. L - 1 /\ ~(m < j) /\ m + 1 = j + n  BY <1>1
    <2>2. s[n] = y[m]  BY <1>5
    <2> HIDE DEF m
    <2>3. y[m] = x[m + 1]  BY <1>2, <2>1
    <2> QED BY <1>3, <2>1, <2>2, <2>3
  <1>7. s = t  BY <1>3, <1>5, <1>6, SeqEqual
  <1> QED BY <1>7 DEF s, t, y

-----------------------------------------------------------------------------
(* What the invariant says of one edge.                                    *)
LEMMA EdgeFacts ==
  ASSUME VblankInv, NEW a \in [List -> Seq(Record)], Promised(a), NEW e \in Edge
  PROVE  /\ e \in List /\ Chain(links, e) = a[e] /\ LinesUp(e, expected[e])
         /\ expected[e] \in Seq(Entry) /\ Len(expected[e]) = Len(a[e])
         /\ DOMAIN expected[e] = 1 .. Len(a[e]) /\ DOMAIN a[e] = 1 .. Len(a[e])
         /\ Len(a[e]) \in Nat
         /\ \A n \in 1 .. Len(a[e]) : /\ a[e][n] \in Record /\ a[e][n] # NoRecord
                                      /\ expected[e][n] = record[a[e][n]]
                                      /\ record[a[e][n]] \in Entry
                                      /\ record[a[e][n]].priority \in Int
  <1>1. e \in List  BY DEF List
  <1>2. Chain(links, e) = a[e]  BY <1>1, ChainIs DEF Promised
  <1>3. /\ Len(a[e]) \in Nat /\ DOMAIN a[e] = 1 .. Len(a[e])
        /\ \A n \in 1 .. Len(a[e]) : a[e][n] \in Record /\ a[e][n] # NoRecord
    BY <1>1, ListLens
  <1>4. expected[e] = [n \in 1 .. Len(a[e]) |-> record[a[e][n]]]  BY DEF Promised
  <1>5. LinesUp(e, expected[e]) /\ expected[e] \in Seq(Entry)
    BY DEF VblankInv
  <1>6. DOMAIN expected[e] = 1 .. Len(expected[e]) /\ Len(expected[e]) \in Nat
    BY <1>5, LenProperties
  <1>7. DOMAIN expected[e] = 1 .. Len(a[e])  BY <1>4
  <1>8. Len(expected[e]) = Len(a[e])  BY <1>3, <1>6, <1>7
  <1>9. \A n \in 1 .. Len(a[e]) : expected[e][n] = record[a[e][n]]  BY <1>4
  <1>10. \A n \in 1 .. Len(a[e]) : record[a[e][n]] \in Entry
                                   /\ record[a[e][n]].priority \in Int
    BY <1>3 DEF VblankInv, Entry
  <1> QED BY <1>1, <1>2, <1>3, <1>5, <1>7, <1>8, <1>9, <1>10

(* The invariant says what the property asks.                              *)
LEMMA VblankInvGives == VblankInv => EdgeReachesAll
  <1> SUFFICES ASSUME VblankInv PROVE EdgeReachesAll  OBVIOUS
  <1>1. PICK a \in [List -> Seq(Record)] : Promised(a) /\ WalkOn(a)
    BY DEF VblankInv
  <1>2. Pool(links, a) /\ Held(a) = NumRecords  BY <1>1 DEF Promised
  <1>3. \A q \in List : Chain(links, q) = a[q]  BY <1>2, ChainIs
  <1>4. \A q \in List : /\ DOMAIN a[q] = 1 .. Len(a[q]) /\ Len(a[q]) \in Nat
                        /\ \A n \in 1 .. Len(a[q]) : a[q][n] \in Record
    BY ListLens
  <1>5. \A e \in Edge : e \in List  BY DEF List
  <1>6. \A e \in Edge :
          /\ LinesUp(e, expected[e]) /\ expected[e] \in Seq(Entry)
          /\ Len(expected[e]) = Len(a[e]) /\ Len(a[e]) \in Nat
          /\ \A n \in 1 .. Len(a[e]) : expected[e][n] = record[a[e][n]]
                                       /\ a[e][n] \in Record
                                       /\ a[e][n] # NoRecord
    BY <1>1, EdgeFacts
  <1>7. \A e \in Edge :
          [n \in DOMAIN Chain(links, e) |-> record[Chain(links, e)[n]]] = expected[e]
    BY <1>1, <1>3, <1>4, <1>5 DEF Promised
  <1>8. ASSUME NEW q \in List, NEW n \in 1 .. Len(a[q])
        PROVE  /\ links.previous[a[q][n]] = IF n = 1 THEN NoRecord ELSE a[q][n - 1]
               /\ \A p \in List \ {q} : a[q][n] \notin ToSet(a[p])
    <2>1. links.previous[a[q][n]] = Nth(a[q], n - 1)  BY <1>2 DEF Pool, Spells
    <2>2. n \in Nat /\ n - 1 \in 1 .. Len(a[q]) <=> n # 1  BY <1>4
    <2>3. \A p \in List \ {q} : a[q][n] \notin ToSet(a[p])
      <3>1. NoneTwice(a)  BY <1>2 DEF Pool
      <3>2. ASSUME NEW p \in List \ {q}, a[q][n] \in ToSet(a[p])  PROVE FALSE
        <4>1. PICK m \in 1 .. Len(a[p]) : a[p][m] = a[q][n]
          BY ONLY <1>4, <3>2 DEF ToSet
        <4> QED BY ONLY <3>1, <3>2, <4>1, n \in 1 .. Len(a[q]), q \in List
                DEF NoneTwice
      <3> QED BY ONLY <3>2
    <2>4. links.previous[a[q][n]] = IF n = 1 THEN NoRecord ELSE a[q][n - 1]
      <3>1. CASE n = 1  BY <2>1, <3>1 DEF Nth
      <3>2. CASE n # 1  BY <1>4, <2>1, <3>2 DEF Nth
      <3> QED BY <3>1, <3>2
    <2> QED BY <2>3, <2>4
  <1>9. \A list \in Edge \cup {"free"} :
          LET c == Chain(links, list)
          IN  \A n \in DOMAIN c :
                /\ links.previous[c[n]] = IF n = 1 THEN NoRecord ELSE c[n - 1]
                /\ \A other \in (Edge \cup {"free"}) \ {list} :
                     c[n] \notin ToSet(Chain(links, other))
    <2> SUFFICES ASSUME NEW q \in List, NEW n \in DOMAIN Chain(links, q)
                 PROVE  /\ links.previous[Chain(links, q)[n]]
                             = IF n = 1 THEN NoRecord ELSE Chain(links, q)[n - 1]
                        /\ \A p \in List \ {q} :
                             Chain(links, q)[n] \notin ToSet(Chain(links, p))
      BY DEF List
    <2>1. Chain(links, q) = a[q] /\ n \in 1 .. Len(a[q])  BY <1>3, <1>4
    <2> QED BY <1>3, <1>8, <2>1
  <1>10. Len(Chain(links, "free")) + Len(expected.start) + Len(expected.end)
           = NumRecords
    <2>1. "free" \in List /\ "start" \in Edge /\ "end" \in Edge  BY DEF List, Edge
    <2> QED BY <1>2, <1>3, <1>6, <2>1 DEF Held
  <1>11. CASE edgeWalk = [edge |-> "none", at |-> NoRecord]
    <2>1. edgeBits \in {{}, {"inside"}, {"outside"}}  BY DEF VblankInv
    <2> QED BY <1>7, <1>9, <1>10, <1>11, <2>1 DEF EdgeReachesAll
  <1>12. ASSUME NEW e \in Edge, NEW j \in 1 .. Len(a[e]) + 1,
                edgeWalk = [edge |-> e, at |-> Nth(a[e], j)],
                owed = SubSeq(expected[e], j, Len(expected[e])),
                \/ \E n \in j .. Len(expected[e]) : expected[e][n].handler = Own[e]
                \/ \A s \in Sleeper : sleeping[s] \notin {e, Level[e]}
         PROVE  EdgeReachesAll
    <2>1. edgeWalk.edge = e /\ edgeWalk.at = Nth(a[e], j) /\ ~Idle /\ e # "none"
      BY <1>12 DEF Idle, Edge
    <2>2. CASE j \in 1 .. Len(a[e])
      <3>1. edgeWalk.at = a[e][j] /\ edgeWalk.at # NoRecord
        BY <1>6, <2>1, <2>2 DEF Nth
      <3>2. owed # <<>> /\ Head(owed) = expected[e][j]
        BY <1>6, <1>12, <2>2, SubSeqTail
      <3>3. record[edgeWalk.at] = Head(owed)  BY <1>6, <2>2, <3>1, <3>2
      <3> QED BY <1>7, <1>9, <1>10, <2>1, <3>1, <3>2, <3>3 DEF EdgeReachesAll
    <2>3. CASE j \notin 1 .. Len(a[e])
      <3>1. edgeWalk.at = NoRecord  BY <2>1, <2>3 DEF Nth
      <3>2. j = Len(expected[e]) + 1 /\ Len(expected[e]) \in Nat
        BY <1>6, <1>12, <2>3
      <3>3. owed = <<>>
        <4>1. /\ SubSeq(expected[e], j, Len(expected[e])) \in Seq(Entry)
              /\ Len(SubSeq(expected[e], j, Len(expected[e]))) = 0
          BY <1>6, <3>2, SubSeqProperties
        <4> QED BY <1>12, <4>1, EmptySeq
      <3>4. \A s \in Sleeper : sleeping[s] \notin {e, Level[e]}
        BY <1>12, <3>2
      <3> QED BY <1>7, <1>9, <1>10, <2>1, <3>1, <3>3, <3>4 DEF EdgeReachesAll
    <2> QED BY <2>2, <2>3
  <1> QED BY <1>1, <1>11, <1>12 DEF WalkOn

-----------------------------------------------------------------------------
(* The lists after a step: the same, or with other entries for an edge.    *)
LEMMA ListsKept ==
  ASSUME VblankInv, UNCHANGED <<links, record, edgeBits, expected>>,
         NEW a \in [List -> Seq(Record)], Promised(a), WalkOn(a)'
  PROVE  VblankInv'
  <1>1. Promised(a)' BY DEF Promised
  <1> QED BY <1>1 DEF VblankInv, Entry

LEMMA RegisterHolds ==
  ASSUME VblankInv, NEW e \in Edge, NEW p \in ClientPriority, NEW h \in Client,
         RegisterHandler(e, p, h)
  PROVE  VblankInv'
  <1> DEFINE entry == [handler |-> h, priority |-> p]
             ahead == {n \in DOMAIN expected[e] : expected[e][n].priority <= p}
  <1>1. PICK a \in [List -> Seq(Record)] : Promised(a) /\ WalkOn(a)
    BY DEF VblankInv
  <1>2. PICK r : r = links.head["free"]  OBVIOUS
  <1>3. PICK x : x = expected[e]  OBVIOUS
  <1>4. PICK c : c = Cardinality(ahead) + 1  OBVIOUS
  <1>5. /\ Idle /\ r # NoRecord
        /\ \A y \in ToSet(Chain(links, e)) : record[y].handler # h
        /\ links' = Installed(links, record, e, h, p)
        /\ record' = [record EXCEPT ![r] = entry]
        /\ expected' = [expected EXCEPT ![e] = InsertAt(x, c, entry)]
        /\ UNCHANGED <<edgeWalk, edgeBits, sleeping, owed>>
    BY <1>2, <1>3, <1>4 DEF RegisterHandler
  <1>6. /\ e \in List /\ Chain(links, e) = a[e] /\ LinesUp(e, x)
        /\ x \in Seq(Entry) /\ Len(x) = Len(a[e])
        /\ DOMAIN x = 1 .. Len(a[e]) /\ DOMAIN a[e] = 1 .. Len(a[e])
        /\ Len(a[e]) \in Nat
        /\ \A n \in 1 .. Len(a[e]) : /\ a[e][n] \in Record /\ a[e][n] # NoRecord
                                     /\ x[n] = record[a[e][n]]
                                     /\ record[a[e][n]] \in Entry
                                     /\ record[a[e][n]].priority \in Int
    <2> HIDE DEF ahead, entry
    <2> QED BY <1>1, <1>3, EdgeFacts
  <1>7. entry \in Entry /\ entry.priority = p /\ entry.handler = h /\ p \in Int
    BY VblankAssumption DEF Entry
  <1> HIDE DEF entry
  <1>8. \A n \in 1 .. Len(x) : x[n].handler # h
    BY <1>5, <1>6 DEF ToSet
  <1> DEFINE L == Len(a[e])
             g == [n \in 1 .. L |-> x[n].priority]
             later == {n \in 1 .. L : x[n].priority > p}
  <1>9. /\ c \in 1 .. L + 1
        /\ \A n \in 1 .. L : x[n].priority <= p <=> n < c
        /\ later = {} <=> c = L + 1
        /\ later # {} => Min(later) = c
    <2>1. g \in [1 .. L -> Int] /\ L \in Nat  BY <1>6
    <2>2. \A m, n \in 1 .. L : m < n => g[m] <= g[n]  BY <1>6 DEF LinesUp
    <2>3. \A n \in 1 .. L : g[n] = x[n].priority  OBVIOUS
    <2>4. ahead = NotAbove(g, L, p)  BY <1>3, <1>6, <2>3 DEF NotAbove
    <2>5. later = Above(g, L, p)  BY <2>3 DEF Above
    <2> HIDE DEF g, L, ahead, later
    <2>6. /\ Cardinality(NotAbove(g, L, p)) + 1 \in 1 .. L + 1
          /\ \A n \in 1 .. L : g[n] <= p <=> n < Cardinality(NotAbove(g, L, p)) + 1
          /\ Above(g, L, p) = {} <=> Cardinality(NotAbove(g, L, p)) + 1 = L + 1
          /\ Above(g, L, p) # {} => Min(Above(g, L, p)) = Cardinality(NotAbove(g, L, p)) + 1
      <3>1. L \in Nat /\ g \in [1 .. L -> Int] /\ p \in Int  BY ONLY <1>7, <2>1
      <3>2. \A m, n \in 1 .. L : m < n => g[m] <= g[n]  BY ONLY <2>2
      <3> QED BY ONLY <3>1, <3>2, PlaceOf
    <2>7. c = Cardinality(NotAbove(g, L, p)) + 1  BY ONLY <1>4, <2>4
    <2>8. /\ c \in 1 .. L + 1 /\ \A n \in 1 .. L : g[n] <= p <=> n < c
          /\ later = {} <=> c = L + 1
          /\ later # {} => Min(later) = c
      BY ONLY <2>5, <2>6, <2>7
    <2> QED BY ONLY <2>3, <2>8
  <1>10. Place(links, record, e, p) = Nth(a[e], c)
    <2>1. Place(links, record, e, p) = IF later = {} THEN NoRecord
                                       ELSE a[e][Min(later)]
      <3>1. later = {n \in DOMAIN a[e] : record[a[e][n]].priority > p}  BY <1>6
      <3>2. Place(links, record, e, p)
              = LET s == {n \in DOMAIN a[e] : record[a[e][n]].priority > p}
                IN  IF s = {} THEN NoRecord ELSE a[e][Min(s)]
        BY <1>6 DEF Place
      <3> HIDE DEF later
      <3> QED BY <3>1, <3>2
    <2>2. CASE later = {}  BY <1>6, <1>9, <2>1, <2>2 DEF Nth
    <2>3. CASE later # {}
      <3>1. c \in 1 .. L
        <4>1. c # L + 1  BY <1>9, <2>3
        <4> QED BY <1>6, <1>9, <4>1
      <3> QED BY <1>9, <2>1, <2>3, <3>1 DEF Nth
    <2> QED BY <2>2, <2>3
  <1> HIDE DEF later, g, ahead
  <1>11. Pool(links, a) /\ Held(a) = NumRecords  BY <1>1 DEF Promised
  <1>12. /\ r \in Record
         /\ \A q \in Edge : \A n \in 1 .. Len(a[q]) : a[q][n] # r
    BY ONLY <1>2, <1>5, <1>9, <1>10, <1>11, e \in Edge, Installs
  <1>13. PICK b \in [List -> Seq(Record)] :
           /\ Pool(links', b) /\ Held(b) = NumRecords
           /\ b[e] = InsertAt(a[e], c, r)
           /\ \A q \in Edge : q # e => b[q] = a[q]
    <2>1. /\ links.head["free"] = Nth(a["free"], 1) /\ links.head["free"] \in Record
          /\ \A q \in Edge : \A n \in 1 .. Len(a[q]) : a[q][n] # links.head["free"]
          /\ Took(Installed(links, record, e, h, p), a, e, c, links.head["free"])
      <3>1. links.head["free"] # NoRecord  BY <1>2, <1>5
      <3>2. c \in 1 .. Len(a[e]) + 1  BY <1>9
      <3> QED BY ONLY <3>1, <3>2, <1>10, <1>11, e \in Edge, Installs
    <2> QED BY <1>2, <1>5, <1>11, <2>1 DEF Took
  <1>14. record' \in [Record -> Entry] /\ record'[r] = entry
         /\ \A y \in Record : y # r => record'[y] = record[y]
    BY <1>5, <1>7, <1>12 DEF VblankInv
  <1>15. LinesUp(e, InsertAt(x, c, entry)) 
    <2>1. \A n \in 1 .. Len(x) : x[n].handler # entry.handler  BY <1>7, <1>8
    <2>2. \A n \in 1 .. Len(x) : x[n].priority <= entry.priority <=> n < c
      BY <1>6, <1>7, <1>9
    <2>3. c \in 1 .. Len(x) + 1  BY <1>6, <1>9
    <2> QED BY ONLY <1>6, <1>7, <2>1, <2>2, <2>3, e \in Edge, InsertLinesUp
  <1>16. expected' \in [Edge -> Seq(Entry)]
         /\ expected'[e] = InsertAt(x, c, entry)
         /\ \A q \in Edge : q # e => expected'[q] = expected[q]
    BY <1>5, <1>15 DEF VblankInv, LinesUp
  <1>17. ASSUME NEW q \in Edge
         PROVE  expected'[q] = [n \in 1 .. Len(b[q]) |-> record'[b[q][n]]]
    <2>1. CASE q = e
      <3>1. Len(InsertAt(x, c, entry)) = Len(x) + 1
            /\ InsertAt(x, c, entry) \in Seq(Entry)
            /\ \A n \in 1 .. Len(x) + 1 :
                 InsertAt(x, c, entry)[n] = IF n < c THEN x[n]
                                            ELSE IF n = c THEN entry ELSE x[n - 1]
        <4>1. x \in Seq(Entry) /\ c \in 1 .. Len(x) + 1 /\ entry \in Entry
          BY <1>6, <1>7, <1>9
        <4>2. Grown(InsertAt(x, c, entry), Entry, x, c, entry)
          BY ONLY <4>1, InsertAtIs
        <4> QED BY <4>2 DEF Grown
      <3>2. Len(b[e]) = L + 1
            /\ \A n \in 1 .. L + 1 :
                 b[e][n] = IF n < c THEN a[e][n] ELSE IF n = c THEN r ELSE a[e][n - 1]
        <4>1. a[e] \in Seq(Record) /\ c \in 1 .. Len(a[e]) + 1 /\ r \in Record
          BY <1>6, <1>9, <1>12
        <4>0. PICK s : s = a[e]  OBVIOUS
        <4>4. s \in Seq(Record) /\ c \in 1 .. Len(s) + 1 /\ r \in Record
          BY <4>0, <4>1
        <4>2. Grown(InsertAt(s, c, r), Record, s, c, r)  BY ONLY <4>4, InsertAtIs
        <4> QED BY <1>13, <4>0, <4>2 DEF Grown
      <3>3. ASSUME NEW n \in 1 .. L + 1
            PROVE  InsertAt(x, c, entry)[n] = record'[b[e][n]]
        <4>1. CASE n < c
          <5>1. n \in 1 .. L  BY <1>6, <1>9, <4>1
          <5>2. record'[a[e][n]] = record[a[e][n]]  BY <1>6, <1>12, <1>14, <5>1
          <5> QED BY <1>6, <3>1, <3>2, <4>1, <5>1, <5>2
        <4>2. CASE n = c  BY <1>6, <1>9, <1>14, <3>1, <3>2, <4>2
        <4>3. CASE n > c
          <5> DEFINE m == n - 1
          <5>1. m \in 1 .. L /\ ~(n < c) /\ n # c  BY <1>6, <1>9, <4>3
          <5>2. InsertAt(x, c, entry)[n] = x[m] /\ b[e][n] = a[e][m]
            BY <1>6, <3>1, <3>2, <5>1
          <5> HIDE DEF m
          <5>3. record'[a[e][m]] = record[a[e][m]]  BY <1>6, <1>12, <1>14, <5>1
          <5> QED BY <1>6, <5>1, <5>2, <5>3
        <4>4. n \in Int /\ c \in Int  BY <1>6, <1>9
        <4> QED BY <4>1, <4>2, <4>3, <4>4
      <3> DEFINE z == InsertAt(x, c, entry)
      <3>4. z = [n \in 1 .. L + 1 |-> z[n]]  BY <1>6, <3>1
      <3> HIDE DEF z
      <3>5. z = [n \in 1 .. L + 1 |-> record'[b[e][n]]]  BY <3>3, <3>4 DEF z
      <3> QED BY <1>16, <2>1, <3>2, <3>5 DEF z
    <2>2. CASE q # e
      <3>1. b[q] = a[q] /\ expected'[q] = expected[q]  BY <1>13, <1>16, <2>2
      <3>2. expected[q] = [n \in 1 .. Len(a[q]) |-> record[a[q][n]]]
        BY <1>1 DEF Promised
      <3>3. \A n \in 1 .. Len(a[q]) : a[q][n] \in Record  BY <1>1, EdgeFacts
      <3>4. \A n \in 1 .. Len(a[q]) : record'[a[q][n]] = record[a[q][n]]
        BY <1>12, <1>14, <3>3
      <3> QED BY <3>1, <3>2, <3>4
    <2> QED BY <2>1, <2>2
  <1>18. Promised(b)'  BY <1>13, <1>17 DEF Promised
  <1>19. WalkOn(b)'
    <2>1. edgeWalk = [edge |-> "none", at |-> NoRecord]
      BY <1>1, <1>5 DEF WalkOn, Idle, Edge
    <2> QED BY <1>5, <2>1 DEF WalkOn
  <1>20. \A q \in Edge : LinesUp(q, expected'[q])
    BY <1>15, <1>16 DEF VblankInv
  <1>21. edgeBits' \in {{}, {"inside"}, {"outside"}}  BY <1>5 DEF VblankInv
  <1>22. /\ record' \in [Record -> Entry] /\ expected' \in [Edge -> Seq(Entry)]
         /\ \E d \in [List -> Seq(Record)] : Promised(d)' /\ WalkOn(d)'
    BY <1>14, <1>16, <1>18, <1>19
  <1> QED BY <1>20, <1>21, <1>22 DEF VblankInv, LinesUp, Entry

(* A handler that is withdrawn is the one its record stands for.           *)
LEMMA UnexpectedIs ==
  ASSUME VblankInv, NEW e \in Edge, NEW i \in 1 .. Len(expected[e]),
         Unexpected(e, expected[e][i].handler)
  PROVE  expected' = [expected EXCEPT ![e] = RemoveAt(expected[e], i)]
  <1> DEFINE x == expected[e]
             n == CHOOSE n \in DOMAIN x : x[n].handler = x[i].handler
  <1>1. LinesUp(e, x)  BY DEF VblankInv
  <1>2. DOMAIN x = 1 .. Len(x)  BY <1>1, LenProperties DEF LinesUp
  <1>3. n \in 1 .. Len(x) /\ x[n].handler = x[i].handler  BY <1>2
  <1> HIDE DEF n
  <1>4. n = i  BY <1>1, <1>3 DEF LinesUp
  <1>5. expected' = [expected EXCEPT ![e] = RemoveAt(x, n)]  BY DEF Unexpected, n
  <1> QED BY <1>4, <1>5

LEMMA GivenBack ==
  ASSUME VblankInv, NEW a \in [List -> Seq(Record)], Promised(a), NEW e \in Edge,
         NEW i \in 1 .. Len(a[e]), record[a[e][i]].handler # Own[e],
         links' = Freed(links, e, a[e][i]), UNCHANGED record,
         Unexpected(e, record[a[e][i]].handler)
  PROVE  /\ expected' \in [Edge -> Seq(Entry)]
         /\ \A q \in Edge : LinesUp(q, expected'[q])
         /\ expected'[e] = RemoveAt(expected[e], i)
         /\ \E b \in [List -> Seq(Record)] :
              Promised(b)' /\ b[e] = RemoveAt(a[e], i)
  <1>1. PICK x : x = expected[e]  OBVIOUS
  <1>2. PICK s : s = a[e]  OBVIOUS
  <1>3. /\ LinesUp(e, x) /\ x \in Seq(Entry) /\ Len(x) = Len(s) /\ Len(s) \in Nat
        /\ s \in Seq(Record) /\ i \in 1 .. Len(s) /\ i \in 1 .. Len(x)
        /\ \A n \in 1 .. Len(s) : x[n] = record[s[n]]
    <2>1. a[e] \in Seq(Record)  BY DEF List
    <2> QED BY <1>1, <1>2, <2>1, EdgeFacts
  <1>4. x[i] = record[a[e][i]]  BY <1>2, <1>3
  <1>5. expected' = [expected EXCEPT ![e] = RemoveAt(x, i)]
    BY <1>1, <1>3, <1>4, UnexpectedIs
  <1>6. LinesUp(e, RemoveAt(x, i))
    <2>1. x[i].handler # Own[e] /\ i \in 1 .. Len(x)  BY <1>3, <1>4
    <2> QED BY ONLY <1>3, <2>1, e \in Edge, RemoveLinesUp
  <1>7. /\ expected' \in [Edge -> Seq(Entry)] /\ expected'[e] = RemoveAt(x, i)
        /\ \A q \in Edge : q # e => expected'[q] = expected[q]
    BY <1>5, <1>6 DEF VblankInv, LinesUp
  <1>8. \A q \in Edge : LinesUp(q, expected'[q])
    BY <1>6, <1>7 DEF VblankInv
  <1>9. Pool(links, a) /\ Held(a) = NumRecords  BY DEF Promised
  <1>10. PICK b \in [List -> Seq(Record)] :
           /\ Pool(links', b) /\ Held(b) = NumRecords
           /\ b[e] = RemoveAt(s, i)
           /\ \A q \in Edge : q # e => b[q] = a[q]
    <2>1. Gave(Freed(links, e, a[e][i]), a, e, i)  BY <1>9, Frees
    <2> QED BY <1>2, <1>9, <2>1 DEF Gave
  <1>11. ASSUME NEW q \in Edge
         PROVE  expected'[q] = [n \in 1 .. Len(b[q]) |-> record'[b[q][n]]]
    <2>1. CASE q = e
      <3>1. /\ RemoveAt(x, i) \in Seq(Entry) /\ Len(RemoveAt(x, i)) = Len(x) - 1
            /\ \A n \in 1 .. Len(x) - 1 :
                 RemoveAt(x, i)[n] = IF n < i THEN x[n] ELSE x[n + 1]
        BY <1>3, RemoveAtIs
      <3>2. /\ Len(RemoveAt(s, i)) = Len(s) - 1
            /\ \A n \in 1 .. Len(s) - 1 :
                 RemoveAt(s, i)[n] = IF n < i THEN s[n] ELSE s[n + 1]
        BY <1>3, RemoveAtIs
      <3>3. ASSUME NEW n \in 1 .. Len(s) - 1
            PROVE  RemoveAt(x, i)[n] = record[b[e][n]]
        <4>1. CASE n < i
          <5>1. n \in 1 .. Len(s)  BY <1>3
          <5> QED BY <1>3, <1>10, <3>1, <3>2, <4>1, <5>1
        <4>2. CASE ~(n < i)
          <5> DEFINE m == n + 1
          <5>1. m \in 1 .. Len(s)  BY <1>3
          <5>2. RemoveAt(x, i)[n] = x[m] /\ b[e][n] = s[m]
            BY <1>3, <1>10, <3>1, <3>2, <4>2
          <5> HIDE DEF m
          <5> QED BY <1>3, <5>1, <5>2
        <4> QED BY <4>1, <4>2
      <3> DEFINE z == RemoveAt(x, i)
      <3>4. z = [n \in 1 .. Len(s) - 1 |-> z[n]]  BY <1>3, <3>1
      <3> HIDE DEF z
      <3>5. z = [n \in 1 .. Len(s) - 1 |-> record[b[e][n]]]  BY <3>3, <3>4 DEF z
      <3> QED BY <1>7, <1>10, <2>1, <3>2, <3>5 DEF z
    <2>2. CASE q # e
      <3>1. b[q] = a[q] /\ expected'[q] = expected[q]  BY <1>7, <1>10, <2>2
      <3>2. expected[q] = [n \in 1 .. Len(a[q]) |-> record[a[q][n]]]
        BY DEF Promised
      <3> QED BY <3>1, <3>2
    <2> QED BY <2>1, <2>2
  <1>12. Promised(b)'  BY <1>10, <1>11 DEF Promised
  <1> QED BY <1>1, <1>2, <1>7, <1>8, <1>10, <1>12

LEMMA ReleaseHolds ==
  ASSUME VblankInv, NEW e \in Edge, NEW h \in Client, ReleaseHandler(e, h)
  PROVE  VblankInv'
  <1>1. PICK a \in [List -> Seq(Record)] : Promised(a) /\ WalkOn(a)
    BY DEF VblankInv
  <1>2. /\ Chain(links, e) = a[e] /\ DOMAIN a[e] = 1 .. Len(a[e])
        /\ \A n \in 1 .. Len(a[e]) : a[e][n] \in Record
    BY <1>1, EdgeFacts
  <1>3. PICK i \in 1 .. Len(a[e]) :
          record[a[e][i]].handler = h /\ links' = Freed(links, e, a[e][i])
    BY <1>2 DEF ReleaseHandler, ToSet
  <1>4. /\ Idle /\ Unexpected(e, h)
        /\ UNCHANGED <<record, edgeWalk, edgeBits, sleeping, owed>>
    BY DEF ReleaseHandler
  <1>5. h # Own[e]  BY VblankAssumption
  <1>6. /\ expected' \in [Edge -> Seq(Entry)]
        /\ \A q \in Edge : LinesUp(q, expected'[q])
        /\ \E b \in [List -> Seq(Record)] : Promised(b)'
    BY <1>1, <1>3, <1>4, <1>5, GivenBack
  <1>7. edgeWalk = [edge |-> "none", at |-> NoRecord]
    BY <1>1, <1>4 DEF WalkOn, Idle, Edge
  <1>8. \A b : WalkOn(b)'  BY <1>4, <1>7 DEF WalkOn
  <1>9. record' \in [Record -> Entry] /\ edgeBits' \in {{}, {"inside"}, {"outside"}}
    BY <1>4 DEF VblankInv
  <1> QED BY <1>6, <1>8, <1>9 DEF VblankInv, LinesUp, Entry

LEMMA WaitHolds ==
  ASSUME VblankInv, NEW s \in Sleeper, NEW b, WaitVblank(s, b)
  PROVE  VblankInv'
  <1>1. PICK a \in [List -> Seq(Record)] : Promised(a) /\ WalkOn(a)
    BY DEF VblankInv
  <1>2. edgeWalk = [edge |-> "none", at |-> NoRecord]
    BY <1>1 DEF WaitVblank, WalkOn, Idle, Edge
  <1>3. WalkOn(a)'  BY <1>2 DEF WaitVblank, WalkOn
  <1>4. UNCHANGED <<links, record, edgeBits, expected>>  BY DEF WaitVblank
  <1> QED BY <1>1, <1>3, <1>4, ListsKept

LEMMA EdgeInterruptHolds ==
  ASSUME VblankInv, NEW e \in Edge, Interrupt(e)
  PROVE  VblankInv'
  <1>1. PICK a \in [List -> Seq(Record)] : Promised(a) /\ WalkOn(a)
    BY DEF VblankInv
  <1>2. PICK x : x = expected[e]  OBVIOUS
  <1>3. LinesUp(e, x) /\ x \in Seq(Entry) /\ Len(x) \in Nat /\ Len(a[e]) \in Nat
    BY <1>1, <1>2, EdgeFacts
  <1>4. x = SubSeq(x, 1, Len(x))
    <2>1. SubSeq(x, 1, Len(x)) \in Seq(Entry) /\ Len(SubSeq(x, 1, Len(x))) = Len(x)
          /\ \A n \in 1 .. Len(x) : SubSeq(x, 1, Len(x))[n] = x[1 + n - 1]
      BY <1>3, SubSeqProperties
    <2>2. \A n \in 1 .. Len(x) : 1 + n - 1 = n  BY <1>3
    <2> QED BY <1>3, <2>1, <2>2, SeqEqual
  <1>5. links.head[e] = Nth(a[e], 1)  BY <1>1 DEF Promised, Pool, Spells, List
  <1>6. \E n \in 1 .. Len(x) : x[n].handler = Own[e]  BY <1>3 DEF LinesUp
  <1>7. /\ edgeWalk' = [edge |-> e, at |-> Nth(a[e], 1)] /\ owed' = x
        /\ UNCHANGED <<links, record, edgeBits, sleeping, expected>>
    BY <1>2, <1>5 DEF Interrupt
  <1>8. WalkOn(a)'
    <2>1. 1 \in 1 .. Len(a[e]) + 1  BY <1>3
    <2>2. expected'[e] = x  BY <1>2, <1>7
    <2>3. /\ edgeWalk' = [edge |-> e, at |-> Nth(a[e], 1)]
          /\ owed' = SubSeq(expected'[e], 1, Len(expected'[e]))
          /\ \E n \in 1 .. Len(expected'[e]) : expected'[e][n].handler = Own[e]
      BY <1>4, <1>6, <1>7, <2>2
    <2> QED BY <2>1, <2>3 DEF WalkOn
  <1> QED BY <1>1, <1>7, <1>8, ListsKept

LEMMA EdgeDoneHolds ==
  ASSUME VblankInv, EdgeDone
  PROVE  VblankInv'
  <1>1. PICK a \in [List -> Seq(Record)] : Promised(a) /\ WalkOn(a)
    BY DEF VblankInv
  <1>2. WalkOn(a)'  BY DEF EdgeDone, WalkOn
  <1>3. UNCHANGED <<links, record, edgeBits, expected>>  BY DEF EdgeDone
  <1> QED BY <1>1, <1>2, <1>3, ListsKept

(* A call moves the walk past its handler's record, and a handler of the   *)
(* module's own wakes those who sleep for the edge.                        *)
LEMMA CallHolds ==
  ASSUME VblankInv, NEW answer \in {0, 1}, CallHandler(answer)
  PROVE  VblankInv'
  <1>1. PICK a \in [List -> Seq(Record)] : Promised(a) /\ WalkOn(a)
    BY DEF VblankInv
  <1>2. ~Idle /\ edgeWalk.at # NoRecord  BY DEF CallHandler
  <1>3. PICK e \in Edge : \E j \in 1 .. Len(a[e]) + 1 :
           /\ edgeWalk = [edge |-> e, at |-> Nth(a[e], j)]
           /\ owed = SubSeq(expected[e], j, Len(expected[e]))
           /\ \/ \E n \in j .. Len(expected[e]) : expected[e][n].handler = Own[e]
              \/ \A s \in Sleeper : sleeping[s] \notin {e, Level[e]}
    <2>1. edgeWalk # [edge |-> "none", at |-> NoRecord]  BY <1>2 DEF Idle
    <2> QED BY <1>1, <2>1 DEF WalkOn
  <1>4. PICK j \in 1 .. Len(a[e]) + 1 :
          /\ edgeWalk = [edge |-> e, at |-> Nth(a[e], j)]
          /\ owed = SubSeq(expected[e], j, Len(expected[e]))
          /\ \/ \E n \in j .. Len(expected[e]) : expected[e][n].handler = Own[e]
             \/ \A s \in Sleeper : sleeping[s] \notin {e, Level[e]}
    BY <1>3
  <1>5. PICK x : x = expected[e]  OBVIOUS
  <1>6. PICK s : s = a[e]  OBVIOUS
  <1>7. PICK r : r = edgeWalk.at  OBVIOUS
  <1>8. /\ LinesUp(e, x) /\ x \in Seq(Entry) /\ Len(x) = Len(s) /\ Len(s) \in Nat
        /\ s \in Seq(Record)
        /\ \A n \in 1 .. Len(s) : /\ x[n] = record[s[n]] /\ s[n] \in Record
                                  /\ s[n] # NoRecord
    <2>1. a[e] \in Seq(Record)  BY DEF List
    <2> QED BY <1>1, <1>5, <1>6, <2>1, EdgeFacts
  <1>9. j \in 1 .. Len(s) /\ r = s[j] /\ edgeWalk.edge = e
    BY <1>2, <1>4, <1>6, <1>7 DEF Nth
  <1>10. x[j] = record[r]  BY <1>8, <1>9
  <1>11. owed # <<>> /\ Tail(owed) = SubSeq(x, j + 1, Len(x))
    BY <1>4, <1>5, <1>8, <1>9, SubSeqTail
  <1>12. links.next[r] = Nth(s, j + 1)
    <2>1. e \in List  BY DEF List
    <2> QED BY <1>1, <1>6, <1>9, <2>1 DEF Promised, Pool, Spells
  <1>13. /\ record[r].handler = Own[e] => answer = 1
         /\ edgeWalk' = [edge |-> e, at |-> Nth(s, j + 1)]
         /\ owed' = SubSeq(x, j + 1, Len(x))
         /\ links' = IF answer = 0 THEN Freed(links, e, r) ELSE links
         /\ IF answer = 0 THEN Unexpected(e, record[r].handler)
                          ELSE UNCHANGED expected
         /\ IF record[r].handler = Own[e] THEN Pulse(e)
                                          ELSE UNCHANGED <<edgeBits, sleeping>>
         /\ UNCHANGED record
    <2>1. edgeWalk' = [edgeWalk EXCEPT !.at = links.next[r]]
      BY <1>7 DEF CallHandler
    <2>2. edgeWalk = [edge |-> e, at |-> Nth(a[e], j)]  BY <1>4
    <2>3. edgeWalk' = [edge |-> e, at |-> links.next[r]]  BY <2>1, <2>2
    <2>4. owed' = Tail(owed)  BY <1>11 DEF CallHandler
    <2> QED BY <1>7, <1>9, <1>11, <1>12, <2>3, <2>4 DEF CallHandler
  <1>14. edgeBits' \in {{}, {"inside"}, {"outside"}}
    <2>1. edgeBits \in {{}, {"inside"}, {"outside"}}  BY DEF VblankInv
    <2>2. CASE record[r].handler = Own[e]
      <3>1. edgeBits' = (edgeBits \cup {Level[e]}) \ {Level[y] : y \in Edge \ {e}}
        BY <1>13, <2>2 DEF Pulse
      <3>2. CASE e = "start"
        <4>1. Level[e] = "inside"  BY <3>2 DEF Level
        <4>2. {Level[y] : y \in Edge \ {e}} = {"outside"}  BY <3>2 DEF Level, Edge
        <4> QED BY <2>1, <3>1, <4>1, <4>2
      <3>3. CASE e = "end"
        <4>1. Level[e] = "outside"  BY <3>3 DEF Level
        <4>2. {Level[y] : y \in Edge \ {e}} = {"inside"}  BY <3>3 DEF Level, Edge
        <4> QED BY <2>1, <3>1, <4>1, <4>2
      <3> QED BY <3>2, <3>3 DEF Edge
    <2> QED BY <1>13, <2>1, <2>2
  <1>15. \/ \E n \in j + 1 .. Len(x) : x[n].handler = Own[e]
         \/ \A t \in Sleeper : sleeping'[t] \notin {e, Level[e]}
    <2>1. CASE record[r].handler = Own[e]
      <3>1. sleeping' = [t \in Sleeper |->
              IF sleeping[t] \in {e, Level[e]} THEN "none" ELSE sleeping[t]]
        BY <1>13, <2>1 DEF Pulse
      <3>2. "none" \notin {e, Level[e]}  BY DEF Edge, Level
      <3> QED BY <3>1, <3>2
    <2>2. CASE record[r].handler # Own[e]
      <3>1. sleeping' = sleeping  BY <1>13, <2>2
      <3>2. ASSUME NEW n \in j .. Len(x), x[n].handler = Own[e]
            PROVE  n \in j + 1 .. Len(x)
        <4>1. n # j  BY <1>10, <2>2, <3>2
        <4> QED BY <1>8, <1>9, <4>1
      <3> QED BY <1>4, <1>5, <3>1, <3>2
    <2> QED BY <2>1, <2>2
  <1>16. CASE answer = 1
    <2>1. UNCHANGED <<links, record, expected>>  BY <1>13, <1>16
    <2>2. Promised(a)'  BY <1>1, <2>1 DEF Promised
    <2>3. WalkOn(a)'
      <3>1. j + 1 \in 1 .. Len(a[e]) + 1  BY <1>6, <1>8, <1>9
      <3>2. /\ edgeWalk' = [edge |-> e, at |-> Nth(a[e], j + 1)]
            /\ owed' = SubSeq(expected'[e], j + 1, Len(expected'[e]))
            /\ \/ \E n \in j + 1 .. Len(expected'[e]) :
                    expected'[e][n].handler = Own[e]
               \/ \A t \in Sleeper : sleeping'[t] \notin {e, Level[e]}
        BY <1>5, <1>6, <1>13, <1>15, <2>1
      <3> QED BY <3>1, <3>2 DEF WalkOn
    <2> QED BY <1>14, <2>1, <2>2, <2>3 DEF VblankInv, LinesUp, Entry
  <1>17. CASE answer = 0
    <2>1. record[r].handler # Own[e]  BY <1>13, <1>17
    <2>2. r = a[e][j] /\ j \in 1 .. Len(a[e])  BY <1>6, <1>9
    <2>3. /\ expected' \in [Edge -> Seq(Entry)]
          /\ \A q \in Edge : LinesUp(q, expected'[q])
          /\ expected'[e] = RemoveAt(expected[e], j)
          /\ \E b \in [List -> Seq(Record)] :
               Promised(b)' /\ b[e] = RemoveAt(a[e], j)
      <3>1. links' = Freed(links, e, a[e][j]) /\ UNCHANGED record
            /\ Unexpected(e, record[a[e][j]].handler)
            /\ record[a[e][j]].handler # Own[e]
        BY <1>13, <1>17, <2>1, <2>2
      <3> QED BY <1>1, <2>2, <3>1, GivenBack
    <2>4. PICK b \in [List -> Seq(Record)] : Promised(b)' /\ b[e] = RemoveAt(s, j)
      BY <1>6, <2>3
    <2>5. PICK y : y = RemoveAt(x, j)  OBVIOUS
    <2>6. expected'[e] = y /\ Len(y) = Len(x) - 1
          /\ \A n \in 1 .. Len(x) - 1 : y[n] = IF n < j THEN x[n] ELSE x[n + 1]
      <3>1. j \in 1 .. Len(x)  BY <1>8, <1>9
      <3> QED BY <1>5, <1>8, <2>3, <2>5, <3>1, RemoveAtIs
    <2>7. Len(b[e]) = Len(s) - 1 /\ Nth(b[e], j) = Nth(s, j + 1)
      <3>1. j \in Int /\ ~(j < j)  BY <1>8, <1>9
      <3> QED BY <1>8, <1>9, <2>4, <3>1, RemoveAtIs, RemovedNth
    <2>8. owed' = SubSeq(y, j, Len(y))
      <3>1. j \in 1 .. Len(x)  BY <1>8, <1>9
      <3> QED BY <1>8, <1>13, <2>5, <2>6, <3>1, SubSeqRemoved
    <2>9. \/ \E n \in j .. Len(y) : y[n].handler = Own[e]
          \/ \A t \in Sleeper : sleeping'[t] \notin {e, Level[e]}
      <3>1. ASSUME NEW n \in j + 1 .. Len(x), x[n].handler = Own[e]
            PROVE  \E m \in j .. Len(y) : y[m].handler = Own[e]
        <4> DEFINE m == n - 1
        <4>1. m \in 1 .. Len(x) - 1 /\ ~(m < j) /\ m + 1 = n /\ m \in j .. Len(x) - 1
          BY <1>8, <1>9
        <4> HIDE DEF m
        <4>2. y[m] = x[n]  BY <2>6, <4>1
        <4> QED BY <2>6, <3>1, <4>1, <4>2
      <3> QED BY <1>15, <3>1
    <2>10. WalkOn(b)'
      <3>1. j \in 1 .. Len(b[e]) + 1  BY <1>8, <1>9, <2>7
      <3>2. /\ edgeWalk' = [edge |-> e, at |-> Nth(b[e], j)]
            /\ owed' = SubSeq(expected'[e], j, Len(expected'[e]))
            /\ \/ \E n \in j .. Len(expected'[e]) :
                    expected'[e][n].handler = Own[e]
               \/ \A t \in Sleeper : sleeping'[t] \notin {e, Level[e]}
        BY <1>13, <2>6, <2>7, <2>8, <2>9
      <3> QED BY <3>1, <3>2 DEF WalkOn
    <2>11. record' \in [Record -> Entry]  BY <1>13 DEF VblankInv
    <2> QED BY <1>14, <2>3, <2>4, <2>10, <2>11 DEF VblankInv, LinesUp, Entry
  <1> QED BY <1>16, <1>17

(* The start: the pool is one list, of which each edge takes a record for  *)
(* the module's own handler.                                               *)
LEMMA FirstOfEmpty ==
  ASSUME NEW k, NEW a, Pool(k, a), NEW e \in Edge, a[e] = <<>>,
         NEW rec, NEW handler, NEW priority, k.head["free"] # NoRecord
  PROVE  Took(Installed(k, rec, e, handler, priority), a, e, 1, k.head["free"])
  <1>1. e \in List /\ Len(a[e]) = 0  BY DEF List
  <1>2. Chain(k, e) = <<>>  BY <1>1, ChainIs
  <1>3. Place(k, rec, e, priority) = NoRecord
    <2>1. {n \in DOMAIN <<>> : rec[<<>>[n]].priority > priority} = {}  OBVIOUS
    <2> QED BY <1>2, <2>1 DEF Place
  <1>4. NoRecord = Nth(a[e], 1) /\ 1 \in 1 .. Len(a[e]) + 1  BY <1>1 DEF Nth
  <1>5. PICK c : c = 1  OBVIOUS
  <1>6. Place(k, rec, e, priority) = Nth(a[e], c) /\ c \in 1 .. Len(a[e]) + 1
    BY <1>3, <1>4, <1>5
  <1>7. /\ k.head["free"] = Nth(a["free"], 1) /\ k.head["free"] \in Record
        /\ \A p \in Edge : \A n \in 1 .. Len(a[p]) : a[p][n] # k.head["free"]
        /\ Took(Installed(k, rec, e, handler, priority), a, e, c, k.head["free"])
    BY ONLY <1>6, Pool(k, a), e \in Edge, k.head["free"] # NoRecord, Installs
  <1> QED BY <1>5, <1>7

LEMMA VblankInitHolds == VblankInit => VblankInv
  <1> SUFFICES ASSUME VblankInit PROVE VblankInv  OBVIOUS
  <1> DEFINE N == NumRecords
             chained == [next |-> [r \in Record |-> IF r = N - 1 THEN NoRecord ELSE r + 1],
                      previous |-> [r \in Record |-> IF r = 0 THEN NoRecord ELSE r - 1],
                      head |-> [start |-> NoRecord, end |-> NoRecord, free |-> 0]]
             unused == [r \in Record |-> [handler |-> "none", priority |-> 0]]
             one == Installed(chained, unused, "start", Own.start, OwnPriority)
             two == Installed(one, unused, "end", Own.end, OwnPriority)
             mine(e) == [handler |-> Own[e], priority |-> OwnPriority]
             all == [n \in 1 .. N |-> n - 1]
             a == [q \in List |-> IF q = "free" THEN all ELSE <<>>]
  <1>1. /\ links = two
        /\ record = [unused EXCEPT ![0] = mine("start"), ![1] = mine("end")]
        /\ edgeWalk = [edge |-> "none", at |-> NoRecord]
        /\ edgeBits = {}
        /\ expected = [e \in Edge |-> <<mine(e)>>]
    BY DEF VblankInit
  <1>2. N \in Nat /\ N >= 2 /\ Record = 0 .. N - 1 /\ 0 \in Record /\ 1 \in Record
        /\ NoRecord \notin Record
    BY VblankAssumption DEF Record
  <1>3. "start" \in Edge /\ "end" \in Edge /\ "free" \in List
        /\ "start" \in List /\ "end" \in List /\ List = {"start", "end", "free"}
    BY DEF List, Edge
  <1> HIDE DEF N
  <1>4. all \in Seq(Record) /\ Len(all) = N /\ \A n \in 1 .. N : all[n] = n - 1
    <2>1. all \in [1 .. N -> Record]  BY <1>2
    <2> QED BY <1>2, <2>1
  <1> HIDE DEF all
  <1>5. a \in [List -> Seq(Record)] /\ a["free"] = all /\ a["start"] = <<>>
        /\ a["end"] = <<>>
    BY <1>3, <1>4
  <1> HIDE DEF a
  <1>6. Pool(chained, a)
    <2>1. chained \in Links
      <3>1. chained.next \in [Record -> MayBe]  BY <1>2 DEF MayBe
      <3>2. chained.previous \in [Record -> MayBe]  BY <1>2 DEF MayBe
      <3>3. chained.head \in [List -> MayBe]  BY <1>2, <1>3 DEF MayBe
      <3> QED BY <3>1, <3>2, <3>3 DEF Links
    <2>2. NoneTwice(a)
      <3> SUFFICES ASSUME NEW p \in List, NEW q \in List, NEW i \in 1 .. Len(a[p]),
                          NEW j \in 1 .. Len(a[q]), a[p][i] = a[q][j]
                   PROVE  p = q /\ i = j
        BY DEF NoneTwice
      <3>1. p = "free" /\ q = "free"  BY <1>3, <1>5
      <3> QED BY <1>2, <1>4, <1>5, <3>1
    <2>3. Held(a) = N /\ Held(a) <= NumRecords  BY <1>2, <1>4, <1>5 DEF Held, N
    <2>4. Spells(chained, "free", all)
      <3>1. chained.head["free"] = Nth(all, 1)  BY <1>2, <1>4 DEF Nth
      <3>2. ASSUME NEW n \in 1 .. N
            PROVE  chained.next[all[n]] = Nth(all, n + 1)
                   /\ chained.previous[all[n]] = Nth(all, n - 1)
        <4>1. all[n] = n - 1 /\ n - 1 \in Record  BY <1>2, <1>4
        <4>2. chained.next[n - 1] = IF n = N THEN NoRecord ELSE n  BY <1>2, <4>1
        <4>3. chained.previous[n - 1] = IF n = 1 THEN NoRecord ELSE n - 2
          BY <1>2, <4>1
        <4>4. Nth(all, n + 1) = IF n = N THEN NoRecord ELSE n
          <5>1. n # N => n + 1 \in 1 .. N /\ n + 1 - 1 = n  BY <1>2
          <5>2. n = N => n + 1 \notin 1 .. N  BY <1>2
          <5> QED BY <1>4, <5>1, <5>2 DEF Nth
        <4>5. Nth(all, n - 1) = IF n = 1 THEN NoRecord ELSE n - 2
          <5>1. n # 1 => n - 1 \in 1 .. N /\ n - 1 - 1 = n - 2  BY <1>2
          <5>2. n = 1 => n - 1 \notin 1 .. N  BY <1>2
          <5> QED BY <1>4, <5>1, <5>2 DEF Nth
        <4> HIDE DEF chained
        <4> QED BY <4>1, <4>2, <4>3, <4>4, <4>5
      <3> QED BY <1>4, <3>1, <3>2 DEF Spells
    <2>5. ASSUME NEW q \in {"start", "end"}  PROVE Spells(chained, q, <<>>)
      BY DEF Spells, Nth
    <2>6. \A q \in List : Spells(chained, q, a[q])  BY <1>3, <1>5, <2>4, <2>5
    <2> QED BY <1>5, <2>1, <2>2, <2>3, <2>6 DEF Pool
  <1>7. chained.head["free"] = 0 /\ Held(a) = N  BY <1>4, <1>2, <1>5 DEF Held
  <1> HIDE DEF chained
  <1>8. PICK a1 \in [List -> Seq(Record)] :
          /\ Pool(one, a1) /\ Held(a1) = N
          /\ a1["free"] = RemoveAt(all, 1) /\ a1["start"] = InsertAt(<<>>, 1, 0)
          /\ a1["end"] = <<>>
    <2>1. Took(one, a, "start", 1, 0)
      <3>1. chained.head["free"] # NoRecord  BY <1>2, <1>7
      <3> QED BY <1>3, <1>5, <1>6, <1>7, <3>1, FirstOfEmpty
    <2> HIDE DEF one
    <2> QED BY <1>3, <1>5, <1>7, <2>1 DEF Took
  <1> HIDE DEF one
  <1>9. one.head["free"] = 1
    <2>1. one.head["free"] = Nth(a1["free"], 1)  BY <1>3, <1>8 DEF Pool, Spells
    <2>2. 1 \in 1 .. Len(all) /\ 2 \in 1 .. N /\ Len(all) - 1 >= 1  BY <1>2, <1>4
    <2>3. Nth(RemoveAt(all, 1), 1) = Nth(all, 1 + 1)
      <3>1. 1 \in Int /\ ~(1 < 1)  OBVIOUS
      <3> QED BY <1>4, <2>2, <3>1, RemovedNth
    <2>4. Nth(all, 1 + 1) = 1  BY <1>4, <2>2 DEF Nth
    <2> QED BY <1>8, <2>1, <2>3, <2>4
  <1>10. PICK a2 \in [List -> Seq(Record)] :
           /\ Pool(two, a2) /\ Held(a2) = N
           /\ a2["end"] = InsertAt(<<>>, 1, 1) /\ a2["start"] = InsertAt(<<>>, 1, 0)
    <2>1. Took(two, a1, "end", 1, 1)
      <3>1. one.head["free"] # NoRecord  BY <1>2, <1>9
      <3> QED BY <1>3, <1>8, <1>9, <3>1, FirstOfEmpty
    <2> HIDE DEF two
    <2> QED BY <1>3, <1>8, <2>1 DEF Took
  <1>11. ASSUME NEW r \in Record
         PROVE  Len(InsertAt(<<>>, 1, r)) = 1 /\ InsertAt(<<>>, 1, r)[1] = r
    <2>1. <<>> \in Seq(Record) /\ Len(<<>>) = 0 /\ 1 \in 1 .. Len(<<>>) + 1
          /\ Len(<<>>) + 1 = 1
      OBVIOUS
    <2>2. PICK s : s = <<>>  OBVIOUS
    <2>3. PICK c : c = 1  OBVIOUS
    <2>4. s \in Seq(Record) /\ c \in 1 .. Len(s) + 1 /\ Len(s) + 1 = 1
      BY <2>1, <2>2, <2>3
    <2>5. Grown(InsertAt(s, c, r), Record, s, c, r)
      BY ONLY <2>4, <1>11, InsertAtIs
    <2> QED BY <2>2, <2>3, <2>4, <2>5 DEF Grown
  <1> HIDE DEF two
  <1>12. /\ \A e \in Edge : mine(e) \in Entry /\ mine(e).handler = Own[e]
         /\ unused \in [Record -> Entry]
    BY DEF Entry, Own, Edge, OwnPriority
  <1>13. /\ record \in [Record -> Entry]
         /\ record[0] = mine("start") /\ record[1] = mine("end")
    <2> HIDE DEF unused
    <2>1. mine("start") \in Entry /\ mine("end") \in Entry  BY <1>3, <1>12
    <2> HIDE DEF mine
    <2> QED BY <1>1, <1>2, <1>12, <2>1
  <1> HIDE DEF unused
  <1>14. \A e \in Edge : expected[e] = <<mine(e)>>  BY <1>1
  <1>15. Promised(a2)
    <2>1. ASSUME NEW e \in Edge
          PROVE  expected[e] = [n \in 1 .. Len(a2[e]) |-> record[a2[e][n]]]
      <3>1. Len(a2[e]) = 1 /\ record[a2[e][1]] = mine(e)
        BY <1>2, <1>10, <1>11, <1>13 DEF Edge
      <3>2. [n \in 1 .. 1 |-> record[a2[e][n]]] = <<mine(e)>>
        <4> HIDE DEF mine
        <4> QED BY <3>1
      <3> QED BY <1>14, <3>1, <3>2
    <2> QED BY <1>1, <1>10, <2>1 DEF Promised, N
  <1>16. ASSUME NEW e \in Edge  PROVE LinesUp(e, expected[e])
    <2>1. mine(e) \in Entry /\ mine(e).handler = Own[e] /\ mine(e).priority \in Int
      BY <1>12 DEF Entry
    <2>2. expected[e] = <<mine(e)>>  BY <1>14
    <2> HIDE DEF mine
    <2>3. expected[e] \in Seq(Entry) /\ Len(expected[e]) = 1
          /\ expected[e][1] = mine(e)
      BY <2>1, <2>2
    <2> QED BY <2>1, <2>3 DEF LinesUp
  <1>17. expected \in [Edge -> Seq(Entry)]
    <2>1. \A e \in Edge : expected[e] \in Seq(Entry)  BY <1>16 DEF LinesUp
    <2> HIDE DEF mine
    <2>2. expected = [e \in Edge |-> expected[e]]  BY <1>1
    <2> QED BY <2>1, <2>2
  <1>18. WalkOn(a2)  BY <1>1 DEF WalkOn
  <1>19. edgeBits \in {{}, {"inside"}, {"outside"}}  BY <1>1
  <1> QED BY <1>10, <1>13, <1>15, <1>16, <1>17, <1>18, <1>19 DEF VblankInv

LEMMA VblankStepHolds ==
  ASSUME VblankInv, [VblankNext]_vblankVars
  PROVE  VblankInv'
  <1>1. ASSUME NEW e \in Edge, NEW p \in ClientPriority, NEW h \in Client,
               RegisterHandler(e, p, h)
        PROVE  VblankInv'
    BY <1>1, RegisterHolds
  <1>2. ASSUME NEW e \in Edge, NEW h \in Client, ReleaseHandler(e, h)
        PROVE  VblankInv'
    BY <1>2, ReleaseHolds
  <1>3. ASSUME NEW s \in Sleeper, NEW b \in Edge \cup {"inside", "outside"},
               WaitVblank(s, b)
        PROVE  VblankInv'
    BY <1>3, WaitHolds
  <1>4. ASSUME NEW e \in Edge, Interrupt(e)  PROVE VblankInv'
    BY <1>4, EdgeInterruptHolds
  <1>5. ASSUME NEW answer \in {0, 1}, CallHandler(answer)  PROVE VblankInv'
    BY <1>5, CallHolds
  <1>6. ASSUME EdgeDone PROVE VblankInv'
    BY <1>6, EdgeDoneHolds
  <1>7. ASSUME UNCHANGED vblankVars PROVE VblankInv'
    <2>1. PICK a \in [List -> Seq(Record)] : Promised(a) /\ WalkOn(a)
      BY DEF VblankInv
    <2>2. WalkOn(a)' /\ UNCHANGED <<links, record, edgeBits, expected>>
      BY <1>7, <2>1 DEF WalkOn, vblankVars
    <2> QED BY <2>1, <2>2, ListsKept
  <1> QED BY <1>1, <1>2, <1>3, <1>4, <1>5, <1>6, <1>7 DEF VblankNext

(* An edge reaches everybody, and the pool's lists stay whole, for any     *)
(* pool, clients, priorities and sleepers (vblank.cpp:97-134, 197-239).    *)
THEOREM VblankEdgeReachesAll == VblankSpec => []EdgeReachesAll
  <1>1. VblankInit => VblankInv  BY VblankInitHolds
  <1>2. VblankInv /\ [VblankNext]_vblankVars => VblankInv'  BY VblankStepHolds
  <1>3. VblankInv => EdgeReachesAll  BY VblankInvGives
  <1> QED BY <1>1, <1>2, <1>3, PTL DEF VblankSpec
=============================================================================
