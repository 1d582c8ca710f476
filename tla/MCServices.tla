----------------------------- MODULE MCServices -----------------------------
(***************************************************************************)
(* Components that have no state in common with one another, checked in    *)
(* one run: a behaviour is a behaviour of one of them, the part, with the  *)
(* others in an initial state.  Here: memory, modules, handler lists and   *)
(* the interrupt dispatcher.                                               *)
(***************************************************************************)
EXTENDS Memory, Vblank, EEIntc, Intrman, MCModules, Relocate

VARIABLE part

Part == {"memory", "vblank", "eeintc", "intrman", "modules", "relocate"}

(* Relocations of two words: whole, split over two sections, and with a    *)
(* second LO16 of an address after the other address's pair.               *)
MCLayouts ==
  { << << <<"hi", 1, 0>>, <<"lo", 1, 0>>, <<"hi", 2, 0>>, <<"lo", 2, 0>>,
          <<"lo", 1, 1>> >>,
       << <<"lo", 2, 1>>, <<"32", 1, 0>>, <<"26", 2, 0>> >> >>,
    << << <<"hi", 1, 0>>, <<"lo", 1, 0>>, <<"lo", 1, 1>>, <<"32", 2, 0>>,
          <<"hi", 2, 0>>, <<"lo", 2, 0>> >> >> }

(* A part that is not the one has one initial state. *)
ServicesInit ==
  /\ part \in Part
  /\ MemoryInit /\ VblankInit /\ EEIntcInit /\ IntrmanInit
  /\ ModulesInit
  /\ part # "modules" => boot.line = Nothing
  /\ RelocateInit
  /\ part # "relocate" =>
       /\ base = Min(Bases) /\ sections = CHOOSE l \in Layouts : TRUE
       /\ \A k \in 1..2 : meant[k] = Min(Targets)

MemoryStep ==
  /\ part = "memory" /\ MemoryNext
  /\ UNCHANGED <<vblankVars, eeIntcVars, intrmanVars, modulesVars,
                 relocateVars>>

VblankStep ==
  /\ part = "vblank" /\ VblankNext
  /\ UNCHANGED <<memoryVars, eeIntcVars, intrmanVars, modulesVars,
                 relocateVars>>

EEIntcStep ==
  /\ part = "eeintc" /\ EEIntcNext
  /\ UNCHANGED <<memoryVars, vblankVars, intrmanVars, modulesVars,
                 relocateVars>>

IntrmanStep ==
  /\ part = "intrman" /\ IntrmanNext
  /\ UNCHANGED <<memoryVars, vblankVars, eeIntcVars, modulesVars,
                 relocateVars>>

ModulesStep ==
  /\ part = "modules" /\ ModulesNext
  /\ UNCHANGED <<memoryVars, vblankVars, eeIntcVars, intrmanVars,
                 relocateVars>>

RelocateStep ==
  /\ part = "relocate" /\ RelocateNext
  /\ UNCHANGED <<memoryVars, vblankVars, eeIntcVars, intrmanVars,
                 modulesVars>>

ServicesNext ==
  /\ \/ MemoryStep \/ VblankStep \/ EEIntcStep \/ IntrmanStep
     \/ ModulesStep \/ RelocateStep
  /\ UNCHANGED part

servicesVars ==
  <<memoryVars, vblankVars, eeIntcVars, intrmanVars, modulesVars, relocateVars,
    part>>

ServicesSpec == ServicesInit /\ [][ServicesNext]_servicesVars
=============================================================================
