-------------------------------- MODULE Sio2 --------------------------------
(***************************************************************************)
(* SIO2MAN (iop/sio2man.cpp): the service thread that owns the serial      *)
(* controller, and the handshake over one event flag by which PADMAN's and *)
(* MCMAN's threads borrow it.  Each call on the flag is a step; setting a  *)
(* bit releases there and then the threads that wait for it, whatever      *)
(* becomes of the bit before they run.                                     *)
(*                                                                         *)
(* The registers and the bytes of a transfer are the client's own: served  *)
(* records, per client, how far its transfer got.  A client of a kind      *)
(* claims with that kind's bits, so two of one kind are told apart by      *)
(* nothing; the kernel's own modules are one of each.                      *)
(***************************************************************************)
EXTENDS Naturals

CONSTANTS PadClient,   \* threads that call PadTransferInit
          McClient     \* threads that call McTransferInit

SioClient == PadClient \cup McClient

ASSUME Sio2Assumption ==
  /\ PadClient \cap McClient = {}
  /\ \A c, d \in PadClient : c = d
  /\ \A c, d \in McClient : c = d
  /\ "service" \notin SioClient

VARIABLES sioFlag,   \* the event flag's bits
          sioAt,     \* where each thread is; a place in Waits is a wait
          sioKind,   \* the service thread's result: whose request it saw
          transfer,  \* the client whose descriptor `transfer` points at
          served     \* client -> "none", "sent" or "answered"

sio2Vars == <<sioFlag, sioAt, sioKind, transfer, served>>

KindOf(c) == IF c \in PadClient THEN "pad" ELSE "mc"
RequestBit(kind) == IF kind = "pad" THEN "PadRequest" ELSE "McRequest"
AckBit(kind) == IF kind = "pad" THEN "PadAck" ELSE "McAck"

(* The waits: a thread at one of these places goes on to the second once   *)
(* one of the bits is set.                                                 *)
WaitsFor(t, at) ==
  CASE at = "request" -> {"PadRequest", "McRequest"}
    [] at = "run"     -> {"Run"}
    [] at = "busy"    -> {"Finished"}
    [] at = "release" -> {"Release"}
    [] at = "ack"     -> {AckBit(KindOf(t))}
    [] at = "done"    -> {"Done"}
    [] OTHER          -> {}

After(at) ==
  CASE at = "request" -> "requested"
    [] at = "run"     -> "running"
    [] at = "busy"    -> "finished"
    [] at = "release" -> "released"
    [] at = "ack"     -> "acked"
    [] at = "done"    -> "completed"

Goes(places, flag) ==
  [t \in DOMAIN places |->
     IF WaitsFor(t, places[t]) \cap flag # {} THEN After(places[t])
     ELSE places[t]]

(* Thread t goes to a place, and the flag becomes this. *)
Step(t, to, flag) ==
  /\ sioFlag' = flag
  /\ sioAt' = Goes([sioAt EXCEPT ![t] = to], flag)

Sio2Init ==
  /\ sioFlag = {}
  /\ sioAt = [t \in SioClient \cup {"service"} |->
                IF t = "service" THEN "request" ELSE "out"]
  /\ sioKind = "none"
  /\ transfer = "none"
  /\ served = [c \in SioClient |-> "none"]

-----------------------------------------------------------------------------
(* serviceThread *)

ClearRequest ==
  LET kind == IF "PadRequest" \in sioFlag THEN "pad" ELSE "mc"
  IN  /\ sioAt["service"] = "requested"
      /\ sioKind' = kind
      /\ Step("service", "toAck", sioFlag \ {RequestBit(kind)})
      /\ UNCHANGED <<transfer, served>>

SetAck ==
  /\ sioAt["service"] = "toAck"
  /\ Step("service", "run", sioFlag \cup {AckBit(sioKind)})
  /\ UNCHANGED <<sioKind, transfer, served>>

ClearRun ==
  /\ sioAt["service"] = "running"
  /\ Step("service", "toStart", sioFlag \ {"Run"})
  /\ UNCHANGED <<sioKind, transfer, served>>

StartTransfer ==
  /\ sioAt["service"] = "toStart"
  /\ served' = [served EXCEPT ![transfer] = "sent"]
  /\ Step("service", "busy", sioFlag)
  /\ UNCHANGED <<sioKind, transfer>>

ClearFinished ==
  /\ sioAt["service"] = "finished"
  /\ Step("service", "toDone", sioFlag \ {"Finished"})
  /\ UNCHANGED <<sioKind, transfer, served>>

HarvestTransfer ==
  /\ sioAt["service"] = "toDone"
  /\ served' = [served EXCEPT ![transfer] = "answered"]
  /\ Step("service", "release", sioFlag \cup {"Done"})
  /\ UNCHANGED <<sioKind, transfer>>

(* Variant of ClearRelease: the bit is left set. *)
ClearReleaseNot ==
  /\ sioAt["service"] = "released"
  /\ Step("service", "request", sioFlag)
  /\ UNCHANGED <<sioKind, transfer, served>>

ClearRelease ==
  /\ sioAt["service"] = "released"
  /\ Step("service", "request", sioFlag \ {"Release"})
  /\ UNCHANGED <<sioKind, transfer, served>>

(* The controller finishes a started transfer and interrupts. *)
Sio2Interrupt ==
  /\ \E c \in SioClient : served[c] = "sent"
  /\ "Finished" \notin sioFlag
  /\ sioAt["service"] = "busy"
  /\ Step("service", "busy", sioFlag \cup {"Finished"})
  /\ UNCHANGED <<sioKind, transfer, served>>

ServiceStep ==
  \/ ClearRequest \/ SetAck \/ ClearRun \/ StartTransfer \/ ClearFinished
  \/ HarvestTransfer \/ ClearRelease

-----------------------------------------------------------------------------
(* A client's side: claim, then doTransfer *)

Claim(c) ==
  /\ sioAt[c] = "out"
  /\ served' = [served EXCEPT ![c] = "none"]
  /\ Step(c, "ack", sioFlag \cup {RequestBit(KindOf(c))})
  /\ UNCHANGED <<sioKind, transfer>>

ClearAck(c) ==
  /\ sioAt[c] = "acked"
  /\ Step(c, "claimed", sioFlag \ {AckBit(KindOf(c))})
  /\ UNCHANGED <<sioKind, transfer, served>>

SetRun(c) ==
  /\ sioAt[c] = "claimed"
  /\ transfer' = c
  /\ Step(c, "done", sioFlag \cup {"Run"})
  /\ UNCHANGED <<sioKind, served>>

ClearDone(c) ==
  /\ sioAt[c] = "completed"
  /\ Step(c, "toRelease", sioFlag \ {"Done"})
  /\ UNCHANGED <<sioKind, transfer, served>>

SetRelease(c) ==
  /\ sioAt[c] = "toRelease"
  /\ Step(c, "out", sioFlag \cup {"Release"})
  /\ UNCHANGED <<sioKind, transfer, served>>

TransferStep(c) == ClearAck(c) \/ SetRun(c) \/ ClearDone(c)

-----------------------------------------------------------------------------
(* Properties *)

(***************************************************************************)
(* The controller has one borrower: from its acknowledgement to its        *)
(* release a client is alone, the service thread pushes and harvests that  *)
(* client's descriptor and no other, the client goes on only with its      *)
(* answer in it, and nobody's bit is left over to let a later round start  *)
(* early (sio2man.cpp:196-249).                                            *)
(***************************************************************************)
Borrowing(c) ==
  sioAt[c] \in {"acked", "claimed", "done", "completed", "toRelease"}

BusHasOneOwner ==
  /\ \A c, d \in SioClient : Borrowing(c) /\ Borrowing(d) => c = d
  /\ \A c \in SioClient :
       /\ Borrowing(c) => sioKind = KindOf(c)
       /\ sioAt[c] \in {"done", "completed", "toRelease"} => transfer = c
       /\ sioAt[c] \in {"completed", "toRelease"} => served[c] = "answered"
  /\ sioAt["service"] \in {"toStart", "busy", "finished", "toDone"} =>
       sioAt[transfer] = "done"
  /\ sioAt["service"] = "request" =>
       sioFlag \subseteq {"PadRequest", "McRequest"}
=============================================================================
