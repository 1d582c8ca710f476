-------------------------------- MODULE Cdvd --------------------------------
(***************************************************************************)
(* CDVDMAN (iop/cdvdman.cpp) and the services CDVDFSV gives the EE over it *)
(* (iop/cdvdfsv.cpp).  The drive's side: the N-command channel, its DMA,   *)
(* the completion interrupt and the one cached sector that path walks and  *)
(* file reads share under a semaphore, beside callers of sceCdRead, which  *)
(* take no part in that semaphore.  The mechanism controller's side: the   *)
(* S-command channel, the NVM and the configuration session.               *)
(*                                                                         *)
(* A sector's content is its number.  A path is found in the directory's   *)
(* one sector after the volume descriptor's, or is not there.  A file's    *)
(* position and size are in units of which a sector holds SectorSize.  A   *)
(* thread has one file open at a time.                                     *)
(***************************************************************************)
EXTENDS Naturals, FiniteSets, FiniteSetsExt

CONSTANTS FileThread,    \* threads that use the cdrom device
          Searcher,      \* CDVDFSV's thread B
          Issuer,        \* threads that call sceCdRead
          Turns,         \* whether those keep clear of the files
          Pvd, Dir,      \* the sectors of a path walk
          FileLba, FileSize, ReadSizes, SectorSize,
          Handles,       \* kHandles
          Attempts,      \* readSectorBlocking's 8
          ConfigMax,     \* kConfigBlocksMax
          Counts         \* block counts the EE may ask for

DriverThread == FileThread \cup {Searcher}
CdThread == DriverThread \cup Issuer
None == "none"          \* of the holders of a semaphore
NoSector == 0
NoHandle == 0

ASSUME CdvdAssumption ==
  /\ SectorSize \in Nat \ {0} /\ Attempts \in Nat \ {0}
  /\ Handles \in Nat
  /\ Searcher \notin FileThread /\ Issuer \cap DriverThread = {}
  /\ {None, "cache"} \cap CdThread = {}
  /\ {FileSize, FileLba, Pvd, Dir, ConfigMax} \cup ReadSizes \cup Counts
       \subseteq Nat
  /\ Cardinality({NoSector, Pvd, Dir, FileLba}) = 4
  /\ Turns \in BOOLEAN

VARIABLES
  cdCall,        \* thread -> its call
  handles,       \* handle -> whether in use, and its position
  fileOf,        \* thread -> its open handle, or NoHandle
  sema_driver, sema_ncmd, sema_scmd,   \* the holder, or None
  cdCache,       \* SectorCache
  buffer,        \* what an issuer's own buffer holds
  dmaTo,         \* where the channel is aimed: "cache" or an issuer
  drive,         \* the sector being read, or NoSector
  g_done,
  mech,          \* the mechanism controller: the command it runs or answers
  config_blocks, \* CDVDMAN's count and CDVDFSV's
  fsvCall        \* thread A's call, and another caller of the S-commands

nVars == <<cdCall, handles, fileOf, sema_driver, sema_ncmd, cdCache, buffer,
           dmaTo, drive, g_done>>
sVars == <<sema_scmd, mech, config_blocks, fsvCall>>
cdvdVars == <<nVars, sVars>>

SUser == {"fsv", "module"}

CdvdInit ==
  /\ cdCall = [t \in CdThread |-> [at |-> "idle"]]
  /\ handles = [h \in 1..Handles |-> [in_use |-> FALSE, position |-> 0]]
  /\ fileOf = [t \in FileThread |-> NoHandle]
  /\ sema_driver = None /\ sema_ncmd = None /\ sema_scmd = None
  /\ cdCache = [valid |-> FALSE, lba |-> 0, data |-> NoSector]
  /\ buffer = [t \in Issuer |-> NoSector]
  /\ dmaTo = "cache" /\ drive = NoSector /\ g_done = 0
  /\ mech = [busy |-> FALSE, of |-> None]
  /\ config_blocks = [cdvdman |-> 0, fsv |-> 0]
  /\ fsvCall = [t \in SUser |-> [at |-> "idle"]]

Goto(t, at) == cdCall' = [cdCall EXCEPT ![t].at = at]

Return(t) == cdCall' = [cdCall EXCEPT ![t] = [at |-> "idle"]]

-----------------------------------------------------------------------------
(* The device's calls up to the driver's semaphore *)

Begin(t, call) ==
  /\ cdCall[t].at = "idle"
  /\ cdCall' = [cdCall EXCEPT ![t] = call]
  /\ UNCHANGED <<handles, fileOf, sema_driver, sema_ncmd, cdCache, buffer,
                 dmaTo, drive, g_done, sVars>>

Walk(kind) == [at |-> "wait", kind |-> kind, want |-> Pvd, attempts |-> 0,
               length |-> 0, done |-> 0, ok |-> TRUE]

Open(t) == fileOf[t] = NoHandle /\ Begin(t, Walk("open"))
SceCdSearchFile == Begin(Searcher, Walk("search"))

(* The length is settled before the wait, from the handle as it is then. *)
Read(t, size) ==
  LET left == FileSize - handles[fileOf[t]].position
  IN  /\ fileOf[t] # NoHandle
      /\ Begin(t, [Walk("read") EXCEPT !.length = Min({size, left})])

Close(t) ==
  /\ cdCall[t].at = "idle" /\ fileOf[t] # NoHandle
  /\ handles' = [handles EXCEPT ![fileOf[t]].in_use = FALSE]
  /\ fileOf' = [fileOf EXCEPT ![t] = NoHandle]
  /\ UNCHANGED <<cdCall, sema_driver, sema_ncmd, cdCache, buffer, dmaTo, drive,
                 g_done, sVars>>

Lseek(t, to) ==
  /\ cdCall[t].at = "idle" /\ fileOf[t] # NoHandle
  /\ handles' = [handles EXCEPT ![fileOf[t]].position = Min({to, FileSize})]
  /\ UNCHANGED <<cdCall, fileOf, sema_driver, sema_ncmd, cdCache, buffer,
                 dmaTo, drive, g_done, sVars>>

SectorOf(t, done) ==
  FileLba + (handles[fileOf[t]].position + done) \div SectorSize

IssuerBusy == \E i \in Issuer : cdCall[i].at \notin {"idle", "answered"}

Acquire(t) ==
  LET call == cdCall[t]
  IN  /\ call.at = "wait"
      /\ sema_driver = None
      /\ Turns => ~IssuerBusy
      /\ sema_driver' = t
      /\ cdCall' = [cdCall EXCEPT ![t].at =
                      IF call.kind = "read" /\ call.length = 0 THEN "leave"
                      ELSE "look",
                    ![t].want = IF call.kind = "read" THEN SectorOf(t, 0)
                                ELSE Pvd]
      /\ UNCHANGED <<handles, fileOf, sema_ncmd, cdCache, buffer, dmaTo, drive,
                     g_done, sVars>>

-----------------------------------------------------------------------------
(* A sector: sectorCached, readSectorBlocking, issueRead, cdSync *)

(* Variant of Look: a miss leaves the cache valid while it is read into. *)
LookKeepsValid(t) ==
  LET hit == cdCache.valid /\ cdCache.lba = cdCall[t].want
  IN  /\ cdCall[t].at = "look"
      /\ cdCall' = [cdCall EXCEPT ![t].at = IF hit THEN "have" ELSE "issue",
                                  ![t].attempts = 0]
      /\ UNCHANGED <<handles, fileOf, sema_driver, sema_ncmd, cdCache, buffer,
                     dmaTo, drive, g_done, sVars>>

Look(t) ==
  LET hit == cdCache.valid /\ cdCache.lba = cdCall[t].want
  IN  /\ cdCall[t].at = "look"
      /\ cdCall' = [cdCall EXCEPT ![t].at = IF hit THEN "have" ELSE "issue",
                                  ![t].attempts = 0]
      /\ cdCache' = IF hit THEN cdCache ELSE [cdCache EXCEPT !.valid = FALSE]
      /\ UNCHANGED <<handles, fileOf, sema_driver, sema_ncmd, buffer, dmaTo,
                     drive, g_done, sVars>>

(* A declined command is tried again by the driver, after a delay, and     *)
(* reported by sceCdRead.                                                  *)
Declined(t) ==
  LET n == cdCall[t].attempts + 1
  IN  cdCall' = [cdCall EXCEPT ![t] =
                   CASE t \in Issuer -> [at |-> "idle"]
                     [] t \notin Issuer /\ n = Attempts ->
                          [@ EXCEPT !.at = "leave", !.ok = FALSE]
                     [] OTHER -> [@ EXCEPT !.at = "issue", !.attempts = n]]

(* armDma comes before the look at the drive. *)
Arm(t) ==
  /\ cdCall[t].at = "issue"
  /\ IF sema_ncmd # None
     THEN Declined(t) /\ UNCHANGED <<sema_ncmd, dmaTo>>
     ELSE /\ sema_ncmd' = t
          /\ dmaTo' = IF t \in Issuer THEN t ELSE "cache"
          /\ Goto(t, "armed")
  /\ UNCHANGED <<handles, fileOf, sema_driver, cdCache, buffer, drive, g_done,
                 sVars>>

Command(t, ready) ==
  /\ cdCall[t].at = "armed"
  /\ ready => drive = NoSector
  /\ sema_ncmd' = None
  /\ IF ready
     THEN /\ drive' = cdCall[t].want
          /\ g_done' = 0
          /\ Goto(t, "sync")
     ELSE Declined(t) /\ UNCHANGED <<drive, g_done>>
  /\ UNCHANGED <<handles, fileOf, sema_driver, cdCache, buffer, dmaTo, sVars>>

(* The drive ends a read, in an error too or because of sceCdBreak, having *)
(* moved the data to where the channel points; then the interrupt.         *)
CdvdIrqHandler(ok) ==
  LET data == IF ok THEN drive ELSE NoSector
  IN  /\ drive # NoSector
      /\ IF dmaTo = "cache"
         THEN cdCache' = [cdCache EXCEPT !.data = data] /\ UNCHANGED buffer
         ELSE buffer' = [buffer EXCEPT ![dmaTo] = data] /\ UNCHANGED cdCache
      /\ g_done' = IF ok THEN 1 ELSE 2
      /\ drive' = NoSector
      /\ UNCHANGED <<cdCall, handles, fileOf, sema_driver, sema_ncmd, dmaTo,
                     sVars>>

CdSync(t) ==
  /\ cdCall[t].at = "sync"
  /\ g_done # 0
  /\ IF t \in Issuer
     THEN /\ IF g_done = 1 THEN Goto(t, "answered") ELSE Return(t)
          /\ UNCHANGED cdCache
     ELSE IF g_done = 1
          THEN /\ cdCache' = [cdCache EXCEPT !.lba = cdCall[t].want,
                                             !.valid = TRUE]
               /\ Goto(t, "have")
          ELSE /\ cdCall' = [cdCall EXCEPT ![t].at = "leave", ![t].ok = FALSE]
               /\ UNCHANGED cdCache
  /\ UNCHANGED <<handles, fileOf, sema_driver, sema_ncmd, buffer, dmaTo, drive,
                 g_done, sVars>>

(* What a call does with the sector: the next of the walk, or a chunk. *)
ChunkEnd(t) ==
  LET call == cdCall[t]
      offset == (handles[fileOf[t]].position + call.done) % SectorSize
  IN  call.done + Min({SectorSize - offset, call.length - call.done})

AfterSector(t, there) ==
  LET call == cdCall[t]
  IN  CASE call.kind = "read" /\ ChunkEnd(t) < call.length ->
             [call EXCEPT !.at = "look", !.done = ChunkEnd(t),
                          !.want = SectorOf(t, ChunkEnd(t))]
        [] call.kind = "read" /\ ChunkEnd(t) >= call.length ->
             [call EXCEPT !.at = "leave", !.done = ChunkEnd(t)]
        [] call.kind # "read" /\ call.want = Pvd /\ there ->
             [call EXCEPT !.at = "look", !.want = Dir]
        [] OTHER -> [call EXCEPT !.at = "leave", !.ok = there]

UseSector(t, there) ==
  /\ cdCall[t].at = "have"
  /\ cdCall' = [cdCall EXCEPT ![t] = AfterSector(t, there)]
  /\ UNCHANGED <<handles, fileOf, sema_driver, sema_ncmd, cdCache, buffer,
                 dmaTo, drive, g_done, sVars>>

FreeHandles == {h \in 1..Handles : ~handles[h].in_use}

(* open takes a handle, if there is one, before it signals; read moves the *)
(* position after.                                                         *)
Leave(t) ==
  LET call == cdCall[t]
      opens == call.kind = "open" /\ call.ok /\ FreeHandles # {}
  IN  /\ call.at = "leave"
      /\ sema_driver' = None
      /\ IF call.kind = "read" THEN Goto(t, "after") ELSE Return(t)
      /\ IF opens
         THEN /\ handles' = [handles EXCEPT ![Min(FreeHandles)] =
                               [in_use |-> TRUE, position |-> 0]]
              /\ fileOf' = [fileOf EXCEPT ![t] = Min(FreeHandles)]
         ELSE UNCHANGED <<handles, fileOf>>
      /\ UNCHANGED <<sema_ncmd, cdCache, buffer, dmaTo, drive, g_done, sVars>>

MovePosition(t) ==
  /\ cdCall[t].at = "after"
  /\ handles' = [handles EXCEPT ![fileOf[t]].position = @ + cdCall[t].done]
  /\ Return(t)
  /\ UNCHANGED <<fileOf, sema_driver, sema_ncmd, cdCache, buffer, dmaTo, drive,
                 g_done, sVars>>

SceCdRead(i, lba) ==
  /\ cdCall[i].at \in {"idle", "answered"}
  /\ Turns => sema_driver = None /\ ~IssuerBusy
  /\ cdCall' = [cdCall EXCEPT ![i] = [at |-> "issue", want |-> lba,
                                      attempts |-> 0]]
  /\ UNCHANGED <<handles, fileOf, sema_driver, sema_ncmd, cdCache, buffer,
                 dmaTo, drive, g_done, sVars>>

-----------------------------------------------------------------------------
(* The S-commands.  A caller's call has the command, the blocks done, and  *)
(* for the configuration how many the request holds.                       *)

SCall(command, size) ==
  [at |-> "send", command |-> command, done |-> 0, size |-> size]

(* Variant of ServeOpenConfig: the clamp stays with CDVDFSV. *)
ServeOpenConfigUnclamped(count) ==
  /\ fsvCall["fsv"].at = "idle"
  /\ config_blocks' = [cdvdman |-> count, fsv |-> Min({count, ConfigMax})]
  /\ fsvCall' = [fsvCall EXCEPT !["fsv"] = SCall("open", 0)]
  /\ UNCHANGED <<sema_scmd, mech, nVars>>

ServeOpenConfig(count) ==
  LET blocks == Min({count, ConfigMax})
  IN  /\ fsvCall["fsv"].at = "idle"
      /\ config_blocks' = [cdvdman |-> blocks, fsv |-> blocks]
      /\ fsvCall' = [fsvCall EXCEPT !["fsv"] = SCall("open", 0)]
      /\ UNCHANGED <<sema_scmd, mech, nVars>>

ServeCloseConfig ==
  /\ fsvCall["fsv"].at = "idle"
  /\ config_blocks' = [cdvdman |-> 0, fsv |-> 0]
  /\ fsvCall' = [fsvCall EXCEPT !["fsv"] = SCall("close", 0)]
  /\ UNCHANGED <<sema_scmd, mech, nVars>>

(* The blocks read go into the reply, the ones written come out of the     *)
(* request, whose size is the EE's.  Without a session there is nothing to *)
(* do.                                                                     *)
ServeConfig(command, size) ==
  /\ fsvCall["fsv"].at = "idle"
  /\ command = "write" => size >= config_blocks.fsv
  /\ config_blocks.cdvdman > 0
  /\ fsvCall' = [fsvCall EXCEPT !["fsv"] =
                   SCall(command,
                         IF command = "read" THEN ConfigMax ELSE size)]
  /\ UNCHANGED <<sema_scmd, mech, config_blocks, nVars>>

ServeNvm(t) ==
  /\ fsvCall[t].at = "idle"
  /\ fsvCall' = [fsvCall EXCEPT ![t] = SCall("nvm", 0)]
  /\ UNCHANGED <<sema_scmd, mech, config_blocks, nVars>>

(* sendSCommand up to the command: declined for the semaphore or a busy    *)
(* controller; what an earlier command left is drained.                    *)
SendSCommand(t, busy) ==
  /\ fsvCall[t].at = "send"
  /\ IF sema_scmd # None \/ busy \/ mech.busy
     THEN /\ fsvCall' = [fsvCall EXCEPT ![t] = [at |-> "idle"]]
          /\ UNCHANGED <<sema_scmd, mech>>
     ELSE /\ sema_scmd' = t
          /\ mech' = [busy |-> TRUE, of |-> t]
          /\ fsvCall' = [fsvCall EXCEPT ![t].at = "collect"]
  /\ UNCHANGED <<config_blocks, nVars>>

MechDone ==
  /\ mech.busy
  /\ mech' = [mech EXCEPT !.busy = FALSE]
  /\ UNCHANGED <<sema_scmd, config_blocks, fsvCall, nVars>>

(* The rest of it; a configuration call goes on to its next block while    *)
(* CDVDMAN's count, as it is by now, says so.                              *)
Collect(t) ==
  LET call == fsvCall[t]
      blocks == call.command \in {"read", "write"}
      more == blocks /\ call.done + 1 < config_blocks.cdvdman
  IN  /\ call.at = "collect"
      /\ ~mech.busy
      /\ mech' = [mech EXCEPT !.of = None]
      /\ sema_scmd' = None
      /\ fsvCall' = [fsvCall EXCEPT ![t] =
                       IF more
                       THEN [call EXCEPT !.at = "send", !.done = call.done + 1]
                       ELSE [at |-> "idle"]]
      /\ UNCHANGED <<config_blocks, nVars>>

(* The two channels share nothing, so each is stepped on its own. *)
DiscNext ==
  \/ \E t \in FileThread :
       \/ Open(t) \/ Close(t) \/ MovePosition(t)
       \/ \E n \in ReadSizes : Read(t, n) \/ Lseek(t, n)
  \/ SceCdSearchFile
  \/ \E t \in DriverThread :
       \/ Acquire(t) \/ Look(t) \/ Leave(t)
       \/ \E there \in BOOLEAN : UseSector(t, there)
  \/ \E t \in CdThread :
       Arm(t) \/ CdSync(t) \/ \E ready \in BOOLEAN : Command(t, ready)
  \/ \E ok \in BOOLEAN : CdvdIrqHandler(ok)
  \/ \E i \in Issuer : SceCdRead(i, FileLba)

MechaconNext ==
  \/ \E n \in Counts :
       ServeOpenConfig(n) \/ \E c \in {"read", "write"} : ServeConfig(c, n)
  \/ ServeCloseConfig
  \/ \E t \in SUser :
       ServeNvm(t) \/ Collect(t) \/ \E busy \in BOOLEAN : SendSCommand(t, busy)
  \/ MechDone

CdvdSpec == CdvdInit /\ [][DiscNext \/ MechaconNext]_cdvdVars

-----------------------------------------------------------------------------
(* Properties *)

(***************************************************************************)
(* A sector is what it is taken for: the cache, while it says it is valid, *)
(* holds the sector it names, a call in the middle of its walk or its copy *)
(* looks at the sector it asked for, and a reader told that its sceCdRead  *)
(* is complete has that sector in its buffer -- through declined commands, *)
(* drive errors and retries (cdvdman.cpp:172-264).                         *)
(***************************************************************************)
SectorsAreTrue ==
  /\ cdCache.valid => cdCache.data = cdCache.lba
  /\ \A t \in DriverThread : cdCall[t].at = "have" =>
       cdCache.valid /\ cdCache.lba = cdCall[t].want
  /\ \A i \in Issuer : cdCall[i].at = "answered" => buffer[i] = cdCall[i].want
  /\ \A t \in FileThread : fileOf[t] # NoHandle =>
       handles[fileOf[t]].position <= FileSize

(***************************************************************************)
(* However many blocks the EE asks for, a configuration read fills no more *)
(* of the reply than there is, a write takes no more than the request      *)
(* holds, and the bytes collected answer the caller's own command          *)
(* (cdvdfsv.cpp:218-226, 269-292, cdvdman.cpp:607, 812).                   *)
(***************************************************************************)
ConfigFits ==
  \A t \in SUser :
    /\ fsvCall[t].at = "collect" => mech.of = t
    /\ fsvCall[t].at # "idle" /\ fsvCall[t].command \in {"read", "write"} =>
         fsvCall[t].done < fsvCall[t].size
=============================================================================
