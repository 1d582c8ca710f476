------------------------------- MODULE Padman -------------------------------
(***************************************************************************)
(* PADMAN (iop/padman.cpp) over SIO2MAN: the driver thread that moves one  *)
(* port through discovery and polling, a frame per vertical blank, the RPC *)
(* thread that opens and closes the port under it, and the controller at   *)
(* the other end (external), which may be pulled, may miss a frame, and    *)
(* stays in its configuration mode until a frame takes it out.             *)
(*                                                                         *)
(* Of a reply the id is kept, 0 for one that does not stand; of the record *)
(* pushed to the EE its validity, id and configurable byte.  The frame     *)
(* counter, which picks the half of the EE's area, and the status bit are  *)
(* left out; the four configuration frames of one shape are one.           *)
(***************************************************************************)
EXTENDS Sio2, Sequences

CONSTANTS Retries,     \* kRetries
          Driver       \* PADMAN's driver thread

FrameCount == 4        \* the model query, one more, the mask query, the exit
FrameModel == 0
FrameMask == FrameCount - 2
FrameExit == FrameCount - 1

NormalId == 65         \* 0x41
ConfigId == 243        \* 0xf3

ASSUME PadmanAssumption == Retries \in Nat \ {0} /\ Driver \in PadClient

VARIABLES port,        \* the driver's Port
          blank,       \* the driver's event bit
          driver,      \* where the driver thread is, its case and frame
          reply,       \* the last exchange: whether it completed, and the id
          controller,  \* its presence, mode and model byte
          pushed       \* the record last pushed to the EE

padVars == <<port, blank, driver, reply, controller, pushed>>
padmanVars == <<sio2Vars, padVars>>

Opened(address) ==
  [open |-> TRUE, address |-> address, stage |-> "ProbeId", frame_index |-> 0,
   attempts |-> 0, id |-> 0, model |-> 0, configurable |-> 0, errors |-> 0,
   valid |-> FALSE]

(* Between two frames, and what the exchange keeps of an answer. *)
Waiting == [at |-> "wait", stage |-> "ProbeId", frame |-> "poll"]
NoReply == [ok |-> FALSE, id |-> 0]

PadmanInit ==
  /\ Sio2Init
  /\ port = [Opened(0) EXCEPT !.open = FALSE]
  /\ blank = FALSE
  /\ driver = Waiting
  /\ reply = NoReply
  /\ controller \in [present : BOOLEAN, mode : {"normal"}, model : {0, 2}]
  /\ pushed = [valid |-> FALSE, id |-> 0, configurable |-> 0]

-----------------------------------------------------------------------------
(* The RPC thread: serve's two codes, which run at any point of the driver *)

OpenPort(address) ==
  /\ ~port.open
  /\ port' = Opened(address)
  /\ UNCHANGED <<blank, driver, reply, controller, pushed, sio2Vars>>

ClosePort ==
  /\ port.open
  /\ port' = [port EXCEPT !.open = FALSE]
  /\ UNCHANGED <<blank, driver, reply, controller, pushed, sio2Vars>>

VblankCallback ==
  /\ port.open /\ ~blank
  /\ blank' = TRUE
  /\ UNCHANGED <<port, driver, reply, controller, pushed, sio2Vars>>

-----------------------------------------------------------------------------
(* The driver thread *)

WakeDriver ==
  /\ driver.at = "wait"
  /\ blank
  /\ blank' = FALSE
  /\ driver' = IF port.open THEN [driver EXCEPT !.at = "advance"] ELSE driver
  /\ UNCHANGED <<port, reply, controller, pushed, sio2Vars>>

(* advance picks its case and its frame before the exchange, which borrows *)
(* the bus.                                                                *)
Frame ==
  CASE port.stage = "EnterConfig" -> "enter"
    [] port.stage = "ConfigFrames" /\ port.frame_index = FrameExit -> "exit"
    [] port.stage = "ConfigFrames" /\ port.frame_index # FrameExit -> "config"
    [] OTHER -> "poll"

BeginExchange ==
  /\ driver.at = "advance"
  /\ driver' = [at |-> "exchange", stage |-> port.stage, frame |-> Frame]
  /\ Claim(Driver)
  /\ UNCHANGED <<port, blank, reply, controller, pushed>>

(* The controller's part of a transfer (external): a frame may be missed,  *)
(* and one that is taken may still have its answer lost.                   *)
ControllerAnswers(taken, heard) ==
  LET mode == CASE driver.frame = "enter" -> "config"
                [] driver.frame = "exit" -> "normal"
                [] OTHER -> controller.mode
      id == IF controller.mode = "config" THEN ConfigId ELSE NormalId
  IN  /\ sioAt["service"] = "busy"
      /\ transfer = Driver
      /\ taken => controller.present
      /\ heard => taken
      /\ controller' = IF taken THEN [controller EXCEPT !.mode = mode]
                       ELSE controller
      /\ reply' = [ok |-> heard, id |-> IF heard THEN id ELSE 0]
      /\ Sio2Interrupt
      /\ UNCHANGED <<port, blank, driver, pushed>>

Unplug ==
  /\ controller' = [controller EXCEPT !.present = ~@, !.mode = "normal"]
  /\ UNCHANGED <<port, blank, driver, reply, pushed, sio2Vars>>

Restart(p) == [p EXCEPT !.id = 0, !.stage = "ProbeId"]

(* ++attempts, and what its limit brings about *)
Missed(p, atLimit) ==
  LET q == [p EXCEPT !.attempts = @ + 1]
  IN  IF q.attempts >= Retries THEN atLimit ELSE q

ProbeId(p) ==
  IF reply.ok /\ reply.id # 0
  THEN [p EXCEPT !.id = reply.id, !.attempts = 0, !.stage = "EnterConfig"]
  ELSE p

EnterConfig(p) ==
  IF reply.ok
  THEN [p EXCEPT !.configurable = 2, !.frame_index = 0, !.attempts = 0,
                 !.stage = "ConfigFrames"]
  ELSE Missed(p, [p EXCEPT !.attempts = Retries, !.configurable = 1,
                           !.stage = "Poll"])

(* Variant of ConfigFrames: a controller without modes is left in its      *)
(* configuration mode.                                                     *)
ConfigFramesWithoutExit(p) ==
  LET model == IF p.frame_index = FrameModel THEN controller.model ELSE p.model
      q == [p EXCEPT !.attempts = 0, !.model = model]
  IN  IF ~reply.ok \/ reply.id # ConfigId
      THEN Missed(p, Restart([p EXCEPT !.attempts = Retries]))
      ELSE IF p.frame_index = FrameExit \/ model = 0
           THEN [q EXCEPT !.stage = "ReprobeId"]
           ELSE [q EXCEPT !.frame_index = @ + 1]

ConfigFrames(p) ==
  LET model == IF p.frame_index = FrameModel THEN controller.model ELSE p.model
      next == IF p.frame_index + 1 = FrameMask /\ model = 0
              THEN p.frame_index + 2 ELSE p.frame_index + 1
      q == [p EXCEPT !.attempts = 0, !.model = model]
  IN  IF ~reply.ok \/ reply.id # ConfigId
      THEN Missed(p, Restart([p EXCEPT !.attempts = Retries]))
      ELSE IF p.frame_index = FrameExit
           THEN [q EXCEPT !.stage = "ReprobeId"]
           ELSE [q EXCEPT !.frame_index = next]

ReprobeId(p) ==
  IF reply.ok /\ reply.id # 0
  THEN [p EXCEPT !.id = reply.id, !.stage = "Poll"]
  ELSE Restart(p)

Poll(p) ==
  CASE ~reply.ok ->
         LET q == [p EXCEPT !.valid = FALSE, !.errors = @ + 1]
         IN  IF q.errors >= Retries THEN Restart([q EXCEPT !.errors = 0]) ELSE q
    [] reply.ok /\ reply.id # p.id ->
         Restart([p EXCEPT !.errors = 0, !.valid = FALSE])
    [] OTHER -> [p EXCEPT !.errors = 0, !.valid = TRUE]

(* The rest of advance, once the exchange has returned the bus. *)
Advance ==
  /\ driver.at = "exchange"
  /\ SetRelease(Driver)
  /\ driver' = [driver EXCEPT !.at = "push"]
  /\ port' = CASE driver.stage = "ProbeId" -> ProbeId(port)
               [] driver.stage = "EnterConfig" -> EnterConfig(port)
               [] driver.stage = "ConfigFrames" -> ConfigFrames(port)
               [] driver.stage = "ReprobeId" -> ReprobeId(port)
               [] driver.stage = "Poll" -> Poll(port)
  /\ reply' = NoReply
  /\ UNCHANGED <<blank, controller, pushed>>

PushRecord ==
  /\ driver.at = "push"
  /\ driver' = Waiting
  /\ IF port.address = 0
     THEN port' = [port EXCEPT !.open = FALSE] /\ UNCHANGED pushed
     ELSE /\ pushed' = [valid |-> port.valid,
                        id |-> IF port.valid THEN port.id ELSE 0,
                        configurable |-> port.configurable]
          /\ UNCHANGED port
  /\ UNCHANGED <<blank, reply, controller, sio2Vars>>

(* The other borrowers, and the steps of the bus that move no pad state. *)
BusStep ==
  /\ \/ ServiceStep
     \/ transfer # Driver /\ Sio2Interrupt
     \/ TransferStep(Driver)
     \/ \E c \in McClient : Claim(c) \/ TransferStep(c) \/ SetRelease(c)
  /\ UNCHANGED padVars

PadmanNext ==
  \/ \E address \in {0, 1} : OpenPort(address)
  \/ ClosePort \/ VblankCallback \/ WakeDriver \/ BeginExchange
  \/ \E taken, heard \in BOOLEAN : ControllerAnswers(taken, heard)
  \/ Unplug \/ Advance \/ PushRecord
  \/ BusStep

PadmanSpec == PadmanInit /\ [][PadmanNext]_padmanVars

-----------------------------------------------------------------------------
(* Properties *)

(***************************************************************************)
(* A controller left in its configuration mode is polled, and its answers  *)
(* there published as buttons, in one case only: the port took that mode's *)
(* id for the controller's own and then missed kRetries frames running     *)
(* that enter the mode, and the record says so, configurable being 1.      *)
(* Otherwise the mode has been left before the first buttons, whatever     *)
(* frames were missed, whoever pulled the controller, and although the     *)
(* port may be closed and opened again under the driver's exchange         *)
(* (padman.cpp:263-268, 295-305, 312-316, 457).  That there is such a case *)
(* at all is not what the comment at 312-316 says.                         *)
(***************************************************************************)
ConfigModeOnlyGivenUp ==
  /\ pushed.valid /\ pushed.id = ConfigId => pushed.configurable = 1
  /\ port.stage = "Poll" /\ port.id = ConfigId =>
       port.configurable = 1 /\ port.attempts = Retries
=============================================================================
