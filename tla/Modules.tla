------------------------------- MODULE Modules -------------------------------
(***************************************************************************)
(* The IOP's modules: LOADCORE's boot list and library registry            *)
(* (iop/loadcore.cpp), the loader they share (iop/loader.hpp), and MODLOAD *)
(* (iop/modload.cpp), which loads modules on request for several threads.  *)
(*                                                                         *)
(* A place is where one module's record and image fit: the first ones are  *)
(* the boot list's, filled in order, the others SYSMEM's.  A library is a  *)
(* tag and a major version.  An image has at most one export table and one *)
(* import table for each library it names; a table is known by its place,  *)
(* an import table by its place, image and library.  What is in memory     *)
(* stays there until something else is placed over it, which is what       *)
(* image[p] says; a list of clients runs through that memory.  A call of   *)
(* LOADCORE's is one step.                                                 *)
(***************************************************************************)
EXTENDS Naturals, Sequences, SequencesExt, FiniteSets, FiniteSetsExt

CONSTANTS Image,       \* the images that may be loaded
          Exported,    \* image -> its table's library and minor version
          Imported,    \* image -> the libraries it imports, in order
          OneShot,     \* images whose entry asks not to stay resident
          Calls,       \* images whose entry registers a bootup callback
          BootList,    \* the images of the boot list
          CommandLine, \* what the update stage's command line may name
          Slots,       \* how many places memory has
          Loader,      \* threads that call MODLOAD
          LoadedMax,   \* kLoadedMax
          Callbacks,   \* kBootupCallbacks
          MaxLoads     \* bound: loads begun

Nothing == "nothing"
Slot == 1..Slots
BootSlot == 1..Len(BootList)
Library == {Exported[i].lib : i \in Image}

ASSUME ModulesAssumption ==
  /\ Exported \in [Image -> [lib : Library, minor : Nat]]
  /\ Imported \in [Image -> Seq(Library)]
  /\ OneShot \cup Calls \subseteq Image
  /\ \A i \in OneShot : Exported[i].lib = Nothing
  /\ CommandLine \subseteq Image \cup {Nothing}
  /\ BootList \in Seq(Image) /\ Slots \in Nat /\ Slots > Len(BootList)
  /\ LoadedMax \in Nat \ {0} /\ Callbacks \in Nat /\ "boot" \in Loader

VARIABLES image,      \* place -> what is in that memory
          owned,      \* the places that are somebody's
          registry,   \* the registered tables, newest first
          noLink,     \* tables with flags bit 0: registered by ordinal 10
          clients,    \* table -> the import tables on its list
          bound,      \* import table -> the table its stubs jump into
          pinned,     \* import tables that set their own flags bit 0
          boot,       \* the walk of the boot list and the callbacks' passes
          callbacks,  \* bootup_callbacks: pass and image
          records,    \* module_list: the places registered with an id
          loaded,     \* MODLOAD's hold list
          load        \* thread -> its call of MODLOAD

registryVars == <<registry, noLink, clients, bound, pinned>>
modulesVars == <<image, owned, registryVars, boot, callbacks, records,
                 loaded, load>>

-----------------------------------------------------------------------------
(* The registry *)

LibOf(p) == Exported[image[p]].lib
MinorOf(p) == Exported[image[p]].minor

(* Variant of Linkable: a table registered by ordinal 10 is linked too. *)
LinkableAny(p, lib) == LibOf(p) = lib

Linkable(p, lib) == LibOf(p) = lib /\ p \notin noLink

Exporters(lib) == SelectSeq(registry, LAMBDA p : Linkable(p, lib))

(* bind: the first exporter from the head takes each import table on; one  *)
(* without an exporter is counted and left.                                *)
Found(i) == SelectSeq(Imported[i], LAMBDA l : Exporters(l) # <<>>)

Bind(p, i) ==
  LET new(t) == SelectSeq(Found(i), LAMBDA l : Head(Exporters(l)) = t)
      found == ToSet(Found(i))
  IN  /\ clients' = [t \in Slot |->
                       Reverse([k \in DOMAIN new(t) |-> <<p, i, new(t)[k]>>])
                         \o clients[t]]
      /\ bound' = [c \in {d \in DOMAIN bound : d[1] # p}
                           \cup {<<p, i, l>> : l \in found} |->
                     IF c[1] = p THEN Head(Exporters(c[3])) ELSE bound[c]]
      /\ pinned' = {c \in pinned : c[1] # p}
      /\ UNCHANGED <<registry, noLink>>

Unbound(i) == Found(i) # Imported[i]

(* registerVersioned: the walk goes through every generation.  A strictly  *)
(* older one gives up its unpinned clients as it is met; one at least as   *)
(* new ends the walk with a refusal.                                       *)
Generations(p) == SelectSeq(registry, LAMBDA q : LibOf(q) = LibOf(p))
Refusing(p) == {k \in DOMAIN Generations(p) :
                  MinorOf(Generations(p)[k]) >= MinorOf(p)}
Walked(p) == IF Refusing(p) = {} THEN Generations(p)
             ELSE SubSeq(Generations(p), 1, Min(Refusing(p)) - 1)

Taken(t) == SelectSeq(clients[t], LAMBDA c : c \notin pinned)

(* Variant of Kept: the list is not taken apart. *)
KeptWhole(t) == clients[t]

Kept(t) == SelectSeq(clients[t], LAMBDA c : c \in pinned)

RegisterVersioned(p) ==
  LET accepted == Refusing(p) = {}
      taken == FlattenSeq([k \in DOMAIN Walked(p) |-> Taken(Walked(p)[k])])
  IN  /\ clients' = [t \in Slot |->
                       CASE t \in ToSet(Walked(p)) -> Kept(t)
                         [] t = p /\ accepted -> taken
                         [] OTHER -> clients[t]]
      /\ bound' = [c \in DOMAIN bound |->
                     IF accepted /\ c \in ToSet(taken) THEN p ELSE bound[c]]
      /\ registry' = IF accepted THEN <<p>> \o registry ELSE registry
      /\ UNCHANGED <<noLink, pinned>>

RegisterPinned(p) ==
  /\ noLink' = noLink \cup {p}
  /\ registry' = <<p>> \o registry
  /\ UNCHANGED <<clients, bound, pinned>>

(* An entry registers its image's table, if it has one, once: the magic    *)
(* word is gone afterwards.                                                *)
RunEntry(p, pin) ==
  IF LibOf(p) = Nothing
  THEN ~pin /\ UNCHANGED registryVars
  ELSE IF pin THEN RegisterPinned(p) ELSE RegisterVersioned(p)

EntryRefused(p, pin) ==
  LibOf(p) # Nothing /\ ~pin /\ Refusing(p) # {}

(* A bound module exempts one of its import tables (external). *)
PinImport(c) ==
  /\ c \in DOMAIN bound /\ c \notin pinned
  /\ pinned' = pinned \cup {c}
  /\ UNCHANGED <<image, owned, registry, noLink, clients, bound, boot,
                 callbacks, records, loaded, load>>

-----------------------------------------------------------------------------
(* LOADCORE's entry: the boot list, then the callbacks *)

ModulesInit ==
  /\ image = [p \in Slot |-> Nothing]
  /\ owned = {}
  /\ registry = <<>> /\ noLink = {} /\ pinned = {}
  /\ clients = [p \in Slot |-> <<>>]
  /\ bound = <<>>
  /\ boot \in [at : {1}, running : {1}, entered : {TRUE}, pass : {0},
               callback : {1}, line : CommandLine]
  /\ callbacks = <<>>
  /\ records = <<>>
  /\ loaded = {}
  /\ load = [t \in Loader |-> [at |-> "idle"]]

ListLeft == boot.at <= Len(BootList)

PlaceNext ==
  LET i == BootList[boot.at]
  IN  /\ ListLeft /\ boot.entered
      /\ image' = [image EXCEPT ![boot.running] = i]
      /\ Bind(boot.running, i)
      /\ owned' = owned \cup {boot.running}
      /\ boot' = [boot EXCEPT !.entered = FALSE]
      /\ UNCHANGED <<callbacks, records, loaded, load>>

(* The entry's answer keeps the module or lets the next one be placed over *)
(* it.  The update stage's callback is registered for pass 1, a function   *)
(* in the answer for pass 2.                                               *)
EnterNext(pin, pass) ==
  LET p == boot.running
      i == image[p]
      stays == i \notin OneShot /\ ~EntryRefused(p, pin)
  IN  /\ ListLeft /\ ~boot.entered
      /\ pass = 1 => boot.line # Nothing
      /\ RunEntry(p, pin)
      /\ callbacks' = IF i \in Calls /\ Len(callbacks) < Callbacks
                      THEN Append(callbacks, [image |-> i, pass |-> pass])
                      ELSE callbacks
      /\ boot' = [boot EXCEPT !.entered = TRUE, !.at = @ + 1,
                              !.running = IF stays THEN @ + 1 ELSE @]
      /\ owned' = IF stays THEN owned ELSE owned \ {p}
      /\ UNCHANGED <<image, records, loaded, load>>

(* The cursor goes over every callback in each of the four passes; the     *)
(* update stage's loads the module that the command line names.            *)
Passing == ~ListLeft /\ boot.pass < 4 /\ load["boot"].at = "idle"

RunCallback ==
  LET last == boot.callback >= Len(callbacks)
      due == /\ boot.callback <= Len(callbacks)
             /\ callbacks[boot.callback].pass = boot.pass
  IN  /\ Passing
      /\ boot' = IF last THEN [boot EXCEPT !.pass = @ + 1, !.callback = 1]
                 ELSE [boot EXCEPT !.callback = @ + 1]
      /\ load' = IF due /\ boot.pass = 1
                 THEN [load EXCEPT !["boot"] = [at |-> "open", hold |-> FALSE,
                                                image |-> boot.line]]
                 ELSE load
      /\ UNCHANGED <<image, owned, registryVars, callbacks, records, loaded>>

-----------------------------------------------------------------------------
(* MODLOAD, for thread t *)

NotLoading == [at |-> "idle"]
FreeSlots == (Slot \ BootSlot) \ owned

Begun == Cardinality(ToSet(records)) < MaxLoads

(* LoadStartModule, LoadModule and LoadModuleBuffer; the two that hold the *)
(* module look for room before anything is read.                           *)
BeginLoad(t, i, hold, buffer) ==
  /\ ~ListLeft /\ Begun /\ t # "boot"
  /\ load[t].at = "idle"
  /\ buffer => hold
  /\ hold => Cardinality(loaded) < LoadedMax
  /\ load' = [load EXCEPT ![t] = [at |-> IF buffer THEN "place" ELSE "open",
                                  image |-> i, hold |-> hold, file |-> 0]]
  /\ UNCHANGED <<image, owned, registryVars, boot, callbacks, records, loaded>>

OpenFile(t) ==
  /\ load[t].at = "open"
  /\ \/ /\ FreeSlots # {}
        /\ load' = [load EXCEPT ![t] =
                      [at |-> "read", image |-> @.image, hold |-> @.hold,
                       file |-> Max(FreeSlots)]]
        /\ owned' = owned \cup {Max(FreeSlots)}
     \/ load' = [load EXCEPT ![t] = NotLoading] /\ UNCHANGED owned
  /\ UNCHANGED <<image, registryVars, boot, callbacks, records, loaded>>

ReadFile(t, whole) ==
  /\ load[t].at = "read"
  /\ IF whole
     THEN /\ image' = [image EXCEPT ![load[t].file] = Nothing]
          /\ load' = [load EXCEPT ![t].at = "place"]
          /\ UNCHANGED owned
     ELSE /\ load' = [load EXCEPT ![t] = NotLoading]
          /\ owned' = owned \ {load[t].file}
          /\ UNCHANGED image
  /\ UNCHANGED <<registryVars, boot, callbacks, records, loaded>>

(* loadImage: probe, allocate, load. *)
LoadImage(t, legal) ==
  /\ load[t].at = "place"
  /\ IF legal /\ FreeSlots # {}
     THEN /\ owned' = owned \cup {Min(FreeSlots)}
          /\ image' = [image EXCEPT ![Min(FreeSlots)] = load[t].image]
          /\ load' = [load EXCEPT ![t] =
                        [at |-> "link", image |-> @.image, hold |-> @.hold,
                         file |-> @.file, place |-> Min(FreeSlots)]]
     ELSE /\ owned' = owned \ {load[t].file}
          /\ load' = [load EXCEPT ![t] = NotLoading]
          /\ UNCHANGED image
  /\ UNCHANGED <<registryVars, boot, callbacks, records, loaded>>

LinkImage(t) ==
  LET i == load[t].image
      p == load[t].place
  IN  /\ load[t].at = "link"
      /\ Bind(p, i)
      /\ IF Unbound(i)
         THEN /\ owned' = owned \ {p, load[t].file}
              /\ load' = [load EXCEPT ![t] = NotLoading]
         ELSE /\ load' = [load EXCEPT ![t].at = "register"]
              /\ UNCHANGED owned
      /\ UNCHANGED <<image, boot, callbacks, records, loaded>>

(* RegisterModule, which numbers the record; the file is released; a held  *)
(* module waits for StartModule.                                           *)
RegisterModule(t) ==
  LET p == load[t].place
      room == Cardinality(loaded) < LoadedMax
  IN  /\ load[t].at = "register"
      /\ records' = <<p>> \o records
      /\ owned' = owned \ {load[t].file}
      /\ IF load[t].hold
         THEN /\ loaded' = IF room THEN loaded \cup {p} ELSE loaded
              /\ load' = [load EXCEPT ![t] = NotLoading]
         ELSE /\ load' = [load EXCEPT ![t].at = "enter"]
              /\ UNCHANGED loaded
      /\ UNCHANGED <<image, registryVars, boot, callbacks>>

StartModule(t, p) ==
  /\ load[t].at = "idle" /\ t # "boot"
  /\ p \in loaded
  /\ loaded' = loaded \ {p}
  /\ load' = [load EXCEPT ![t] = [at |-> "enter", place |-> p]]
  /\ UNCHANGED <<image, owned, registryVars, boot, callbacks, records>>

(* startRecord: whatever the entry answers, the module stays. *)
StartRecord(t, pin) ==
  /\ load[t].at = "enter"
  /\ RunEntry(load[t].place, pin)
  /\ load' = [load EXCEPT ![t] = NotLoading]
  /\ UNCHANGED <<image, owned, boot, callbacks, records, loaded>>

(* ReBootStart: the trap into rebootCore, from which IOPBOOT is entered    *)
(* again with the argument as the command line.  Whatever the threads were *)
(* doing is over; no module is torn down first.                            *)
ReBootStart(t, argument) ==
  /\ load[t].at = "idle" /\ t # "boot" /\ ~ListLeft
  /\ image' = [p \in Slot |-> Nothing] /\ owned' = {}
  /\ registry' = <<>> /\ noLink' = {} /\ pinned' = {} /\ bound' = <<>>
  /\ clients' = [p \in Slot |-> <<>>]
  /\ boot' = [at |-> 1, running |-> 1, entered |-> TRUE, pass |-> 0,
              callback |-> 1, line |-> argument]
  /\ callbacks' = <<>> /\ records' = <<>> /\ loaded' = {}
  /\ load' = [u \in Loader |-> NotLoading]

LoadStep(t) ==
  \/ \E i \in Image, hold, buffer \in BOOLEAN : BeginLoad(t, i, hold, buffer)
  \/ OpenFile(t)
  \/ \E ok \in BOOLEAN : ReadFile(t, ok) \/ LoadImage(t, ok)
  \/ LinkImage(t)
  \/ RegisterModule(t)
  \/ \E p \in loaded : StartModule(t, p)
  \/ \E pin \in BOOLEAN : StartRecord(t, pin)
  \/ \E line \in CommandLine : ReBootStart(t, line)

ModulesNext ==
  \/ PlaceNext
  \/ \E pin \in BOOLEAN, pass \in 1..2 : EnterNext(pin, pass)
  \/ RunCallback
  \/ \E t \in Loader : LoadStep(t)
  \/ \E c \in DOMAIN bound : PinImport(c)

ModulesSpec == ModulesInit /\ [][ModulesNext]_modulesVars

-----------------------------------------------------------------------------
(* Properties *)

(***************************************************************************)
(* A library's list of clients holds import tables that are bound to it,   *)
(* of modules that are still in memory, each once: supersession rewrites   *)
(* the stubs of whatever is on the list (loader.hpp:318, loadcore.cpp:106, *)
(* modload.cpp:195).                                                       *)
(***************************************************************************)
ClientsAreImports ==
  \A t \in Slot :
    /\ IsInjective(clients[t])
    /\ \A c \in ToSet(clients[t]) :
         /\ c[1] \in owned /\ image[c[1]] = c[2]
         /\ c \in DOMAIN bound /\ bound[c] = t

(***************************************************************************)
(* Callers reach the newest generation: an import table that was bound and *)
(* not exempted is on the list of the newest table that its library has    *)
(* among those open to linking, whatever was registered, refused or        *)
(* registered unlinkable in between; a refusal has moved nobody            *)
(* (loadcore.cpp:146-192, loader.hpp:364-397).                             *)
(***************************************************************************)
CallersReachNewest ==
  \A c \in DOMAIN bound :
    /\ c \in ToSet(clients[bound[c]])
    /\ c \notin pinned =>
         \A q \in ToSet(registry) :
           Linkable(q, c[3]) => MinorOf(q) <= MinorOf(bound[c])
=============================================================================
