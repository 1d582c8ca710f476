------------------------------ MODULE MCDevices ------------------------------
(***************************************************************************)
(* The clock's alarms, the pads, the disc and the EE's files, which have   *)
(* no state in common, checked in one run: a behaviour is a behaviour of   *)
(* one of them, the part, with the others in an initial state.             *)
(***************************************************************************)
EXTENDS Alarm, Padman, Cdvd, FileIo, TLC

VARIABLE part

MCLengthOf == [f \in FileName |-> IF f = "a" THEN 10 ELSE 3]

AlarmSymmetry == Permutations(Alarm)

DevicesInit ==
  /\ part \in {"alarm", "padman", "disc", "mechacon", "fileio"}
  /\ Init /\ PadmanInit /\ CdvdInit /\ FileIoInit
  /\ part # "padman" => ~controller.present /\ controller.model = 0

AlarmStep ==
  /\ part = "alarm" /\ Next
  /\ UNCHANGED <<padmanVars, cdvdVars, fileIoVars>>

PadmanStep ==
  /\ part = "padman" /\ PadmanNext
  /\ UNCHANGED <<vars, cdvdVars, fileIoVars>>

DiscStep ==
  /\ part = "disc" /\ DiscNext
  /\ UNCHANGED <<vars, padmanVars, fileIoVars>>

MechaconStep ==
  /\ part = "mechacon" /\ MechaconNext
  /\ UNCHANGED <<vars, padmanVars, fileIoVars>>

FileIoStep ==
  /\ part = "fileio" /\ FileIoNext
  /\ UNCHANGED <<vars, padmanVars, cdvdVars>>

DevicesNext ==
  /\ \/ AlarmStep \/ PadmanStep \/ DiscStep \/ MechaconStep
     \/ FileIoStep
  /\ UNCHANGED part

devicesVars == <<vars, padmanVars, cdvdVars, fileIoVars, part>>

DevicesSpec == DevicesInit /\ [][DevicesNext]_devicesVars
=============================================================================
