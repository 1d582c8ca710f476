------------------------------- MODULE FileIo -------------------------------
(***************************************************************************)
(* The EE's files: FILEIO's two servers (iop/fileio.cpp) over IOMAN's      *)
(* descriptors (iop/ioman.cpp) and a driver's handles, ROMDRV's            *)
(* (iop/romdrv.cpp); CDVDMAN's have the same shape and may read short.     *)
(*                                                                         *)
(* A read goes to the EE in parts: what lies in a whole block of the EE's  *)
(* memory through one buffer, the ends through another, each sent by DMA,  *)
(* which takes the bytes when it gets to them.  FILEIO's two threads have  *)
(* one priority, so they take turns only where a driver may wait: at an    *)
(* open and at a read.  A name is a file's or none's, byte n of a file is  *)
(* <<name, n>>; a call that is refused changes nothing.                    *)
(***************************************************************************)
EXTENDS Integers, Sequences, FiniteSets, FiniteSetsExt

CONSTANTS FileName,     \* the files there are
          LengthOf,     \* their lengths
          Missing,      \* a name that no file has
          FdCount,      \* kFiles
          RomHandles,   \* kHandles
          Block,        \* the EE's unit of transfer, 16
          Bounce,       \* kBounceBytes
          Dests,        \* where reads go
          Lengths,      \* how much they ask for
          EETop         \* the last byte of the EE's memory

ASSUME FileIoAssumption ==
  /\ LengthOf \in [FileName -> Nat] /\ Missing \notin FileName
  /\ {FdCount, RomHandles, Block, Bounce} \subseteq Nat \ {0}
  /\ Bounce % Block = 0
  /\ Dests \subseteq Nat /\ Lengths \subseteq Nat /\ EETop \in Nat
  /\ \A d \in Dests, n \in Lengths : d + n + Block <= EETop

Fd == 0 .. FdCount - 1
RomHandle == 0 .. RomHandles - 1
FileThreads == {"server", "heap"}

Zero == <<>>
Old == <<"old">>        \* a byte of the EE's from before its request
Free == [taken |-> FALSE, privdata |-> 0]
Unused == [used |-> FALSE, name |-> Missing, position |-> 0]
Idling == [at |-> "idle"]

VARIABLES files,      \* IOMAN's records: whether device is set, and privdata
          romHandles, \* ROMDRV's handles
          romBound,   \* whether unit 0 has its image
          fio,        \* what FILEIO's threads do
          eeFds,      \* the descriptors the EE's client has open
          edge,       \* FILEIO's two buffers
          bounce,
          wire,       \* SIFMAN's ring of sends
          eeMemory    \* the EE's memory since it asked

fileIoVars ==
  <<files, romHandles, romBound, fio, eeFds, edge, bounce, wire, eeMemory>>

Untouched == [n \in 0..EETop |-> Old]
Zeros(n) == [k \in 0..n - 1 |-> Zero]

FileIoInit ==
  /\ files = [fd \in Fd |-> Free]
  /\ romHandles = [h \in RomHandle |-> Unused]
  /\ romBound = TRUE
  /\ fio = [t \in FileThreads |-> Idling]
  /\ eeFds = {}
  /\ edge = Zeros(2 * Block) /\ bounce = Zeros(Bounce)
  /\ wire = <<>> /\ eeMemory = Untouched

-----------------------------------------------------------------------------
(* IOMAN and ROMDRV *)

FreeFds == {fd \in Fd : ~files[fd].taken}
FreeRomHandles == {h \in RomHandle : ~romHandles[h].used}

(* allocateFile and the record it fills, before the driver is asked. *)
IomanOpen(t, name) ==
  LET fd == Min(FreeFds)
  IN  /\ fio[t].at = "idle" /\ FreeFds # {}
      /\ files' = [files EXCEPT ![fd] = [taken |-> TRUE, privdata |-> 0]]
      /\ fio' = [fio EXCEPT ![t] = [at |-> "open", fd |-> fd, name |-> name]]
      /\ UNCHANGED <<romHandles, romBound, eeFds, edge, bounce, wire, eeMemory>>

(* The driver's open, and what IOMAN and the server make of its answer. *)
RomOpen(t) ==
  LET fd == fio[t].fd
      h == Min(FreeRomHandles)
      opened == /\ fio[t].name \in FileName /\ romBound
                /\ FreeRomHandles # {}
  IN  /\ fio[t].at = "open"
      /\ IF opened
         THEN /\ romHandles' = [romHandles EXCEPT ![h] =
                   [used |-> TRUE, name |-> fio[t].name, position |-> 0]]
              /\ files' = [files EXCEPT ![fd].privdata = h]
              /\ eeFds' = IF t = "server" THEN eeFds \cup {fd} ELSE eeFds
         ELSE /\ files' = [files EXCEPT ![fd] = Free]
              /\ UNCHANGED <<romHandles, eeFds>>
      /\ fio' = [fio EXCEPT ![t] =
                   IF opened /\ t = "heap" THEN [@ EXCEPT !.at = "load"]
                   ELSE Idling]
      /\ UNCHANGED <<romBound, edge, bounce, wire, eeMemory>>

(* close: the driver lets its handle go, then IOMAN its record. *)
IomanClose(fd) ==
  /\ files' = [files EXCEPT ![fd] = Free]
  /\ romHandles' = [romHandles EXCEPT ![files[fd].privdata] = Unused]

ServeClose(fd) ==
  /\ fio["server"].at = "idle" /\ fd \in eeFds
  /\ IomanClose(fd)
  /\ eeFds' = eeFds \ {fd}
  /\ UNCHANGED <<romBound, fio, edge, bounce, wire, eeMemory>>

(* lseek: within the file, whatever is asked for. *)
ServeLseek(fd, offset, whence) ==
  LET h == files[fd].privdata
      size == LengthOf[romHandles[h].name]
      from == CASE whence = 0 -> 0
                [] whence = 1 -> romHandles[h].position
                [] whence = 2 -> size
  IN  /\ fio["server"].at = "idle" /\ fd \in eeFds
      /\ romHandles' = [romHandles EXCEPT ![h].position =
                          Max({0, Min({from + offset, size})})]
      /\ UNCHANGED <<files, romBound, fio, eeFds, edge, bounce, wire, eeMemory>>

RomDelDevice ==
  /\ romBound /\ romBound' = FALSE
  /\ UNCHANGED <<files, romHandles, fio, eeFds, edge, bounce, wire, eeMemory>>

RomAddDevice ==
  /\ ~romBound /\ romBound' = TRUE
  /\ UNCHANGED <<files, romHandles, fio, eeFds, edge, bounce, wire, eeMemory>>

(* What a read of a handle can give: all there is up to the end of the     *)
(* file or, from a disc with a bad sector, less.                           *)
Gives(h, wanted) ==
  LET there == Min({wanted, LengthOf[romHandles[h].name]
                              - romHandles[h].position})
  IN  {there, there \div 2}

Moved(h, got) == [romHandles EXCEPT ![h].position = @ + got]

(* The bytes a read of handle h puts at index at of a buffer. *)
Filled(buffer, h, at, got) ==
  [k \in DOMAIN buffer |->
     IF at <= k /\ k < at + got
     THEN <<romHandles[h].name, romHandles[h].position + k - at>>
     ELSE buffer[k]]

-----------------------------------------------------------------------------
(* serve's read *)

(* doRead's arithmetic, over the request c. *)
OffsetOf(c) == c.dest % Block
HeadOf(c) == (Block - OffsetOf(c)) % Block
MiddleOf(c) == LET left == c.length - HeadOf(c) IN left - (left % Block)
TailOf(c) == (c.length - HeadOf(c)) % Block
AlignUp(n) == n + ((Block - (n % Block)) % Block)

(* The part that follows one that was read in full, done of the middle     *)
(* being behind.                                                           *)
PartAfter(c, done) ==
  IF done < MiddleOf(c) THEN "middle"
  ELSE IF TailOf(c) # 0 THEN "tail" ELSE "end"

ServeRead(fd, dest, length) ==
  LET h == files[fd].privdata
      c == [at |-> "fetch", call |-> "read", fd |-> fd, dest |-> dest,
            length |-> length, start |-> romHandles[h].position,
            total |-> 0, done |-> 0, part |-> "small", block |-> Zero]
  IN  /\ fio["server"].at = "idle" /\ fd \in eeFds /\ length > 0
      /\ fio' = [fio EXCEPT !["server"] =
                   IF length < Block THEN c
                   ELSE [c EXCEPT !.part = IF HeadOf(c) # 0 THEN "head"
                                           ELSE PartAfter(c, 0)]]
      /\ UNCHANGED <<files, romHandles, romBound, eeFds, edge, bounce, wire,
                     eeMemory>>

(* One part is read from the file into its buffer.  An end of a block is   *)
(* sent as the whole block, zeros around it.                               *)
Fetch(got) ==
  LET c == fio["server"]
      h == files[c.fd].privdata
      wanted == CASE c.part = "small" -> c.length
                  [] c.part = "head" -> HeadOf(c)
                  [] c.part = "middle" -> Min({MiddleOf(c) - c.done, Bounce})
                  [] c.part = "tail" -> TailOf(c)
      first == c.part \in {"small", "head"}
      block == CASE c.part = "small" ->
                      [from |-> "edge", to |-> c.dest - OffsetOf(c),
                       size |-> AlignUp(OffsetOf(c) + c.length)]
                 [] c.part = "middle" ->
                      [from |-> "bounce", to |-> c.dest + c.total, size |-> got]
                 [] OTHER ->
                      [from |-> "edge", size |-> Block,
                       to |-> c.dest + c.total - (IF first THEN OffsetOf(c)
                                                  ELSE 0)]
      done == IF c.part = "middle" THEN c.done + got ELSE 0
  IN  /\ c.at = "fetch" /\ got \in Gives(h, wanted)
      /\ IF c.part = "middle"
         THEN bounce' = Filled(bounce, h, 0, got) /\ UNCHANGED edge
         ELSE /\ edge' = Filled(Zeros(2 * Block), h,
                                IF first THEN OffsetOf(c) ELSE 0, got)
              /\ UNCHANGED bounce
      /\ romHandles' = Moved(h, got)
      /\ fio' = [fio EXCEPT !["server"] =
           [c EXCEPT !.at = "send", !.block = block, !.done = done,
                     !.total = @ + got,
                     !.part = IF @ \in {"small", "tail"} \/ got < wanted
                              THEN "end" ELSE PartAfter(c, done)]]
      /\ UNCHANGED <<files, romBound, eeFds, wire, eeMemory>>

(* sendToEe *)
SendToEe ==
  LET c == fio["server"]
  IN  /\ c.at = "send"
      /\ wire' = Append(wire, c.block)
      /\ fio' = [fio EXCEPT !["server"].at = "wait"]
      /\ UNCHANGED <<files, romHandles, romBound, eeFds, edge, bounce, eeMemory>>

(* The channel gets to a block (external): its bytes as they are now. *)
DmaLands ==
  LET b == Head(wire)
      bytes == CASE b.from = "edge" -> edge
                 [] b.from = "bounce" -> bounce
                 [] b.from = "stat" -> Zeros(Block)
  IN  /\ wire # <<>>
      /\ wire' = Tail(wire)
      /\ eeMemory' = [n \in 0..EETop |->
                        IF b.to <= n /\ n < b.to + b.size THEN bytes[n - b.to]
                        ELSE eeMemory[n]]
      /\ UNCHANGED <<files, romHandles, romBound, fio, eeFds, edge, bounce>>

(* Variant of Sent: the send is not waited for. *)
SentUnseen ==
  LET c == fio["server"]
  IN  /\ c.at = "wait"
      /\ fio' = [fio EXCEPT !["server"].at =
                   IF c.part = "end" THEN "answer" ELSE "fetch"]
      /\ UNCHANGED <<files, romHandles, romBound, eeFds, edge, bounce, wire,
                     eeMemory>>

(* The ring is seen empty: the next part, or the answer. *)
Sent ==
  LET c == fio["server"]
  IN  /\ c.at = "wait" /\ wire = <<>>
      /\ fio' = [fio EXCEPT !["server"].at =
                   IF c.part = "end" THEN "answer" ELSE "fetch"]
      /\ UNCHANGED <<files, romHandles, romBound, eeFds, edge, bounce, wire,
                     eeMemory>>

(* What the buffers hold between requests, which no send takes, and what  *)
(* the EE does with its memory, is forgotten.                              *)
Answer ==
  /\ fio["server"].at = "answer"
  /\ fio' = [fio EXCEPT !["server"] = Idling]
  /\ edge' = Zeros(2 * Block) /\ bounce' = Zeros(Bounce)
  /\ eeMemory' = Untouched
  /\ UNCHANGED <<files, romHandles, romBound, eeFds, wire>>

(* getstat: a record for the call's sake, and its structure to the EE. *)
ServeGetstat(dest) ==
  /\ fio["server"].at = "idle" /\ FreeFds # {} /\ dest % Block = 0
  /\ fio' = [fio EXCEPT !["server"] =
       [at |-> "send", call |-> "getstat", part |-> "end",
        block |-> [from |-> "stat", to |-> dest, size |-> Block]]]
  /\ UNCHANGED <<files, romHandles, romBound, eeFds, edge, bounce, wire,
                 eeMemory>>

-----------------------------------------------------------------------------
(* loadIntoHeap: to the end and back for the size, one read, close. *)
LoadIntoHeap(got) ==
  LET h == files[fio["heap"].fd].privdata
  IN  /\ fio["heap"].at = "load"
      /\ got \in Gives(h, LengthOf[romHandles[h].name])
      /\ romHandles' = Moved(h, got)
      /\ fio' = [fio EXCEPT !["heap"].at = "close"]
      /\ UNCHANGED <<files, romBound, eeFds, edge, bounce, wire, eeMemory>>

HeapClose ==
  /\ fio["heap"].at = "close"
  /\ IomanClose(fio["heap"].fd)
  /\ fio' = [fio EXCEPT !["heap"] = Idling]
  /\ UNCHANGED <<romBound, eeFds, edge, bounce, wire, eeMemory>>

FileIoNext ==
  \/ \E t \in FileThreads :
       RomOpen(t) \/ \E name \in FileName \cup {Missing} : IomanOpen(t, name)
  \/ \E fd \in Fd :
       \/ ServeClose(fd)
       \/ \E offset \in {-1, 2}, whence \in 0..2 : ServeLseek(fd, offset, whence)
       \/ \E d \in Dests, n \in Lengths : ServeRead(fd, d, n)
  \/ RomDelDevice \/ RomAddDevice
  \/ \E got \in 0..Max({LengthOf[f] : f \in FileName}) :
       Fetch(got) \/ LoadIntoHeap(got)
  \/ SendToEe \/ DmaLands \/ Sent \/ Answer
  \/ \E d \in Dests : ServeGetstat(d)
  \/ HeapClose

-----------------------------------------------------------------------------
(* Properties *)

(***************************************************************************)
(* What a read answers is what it did: when doRead answers n, the n bytes  *)
(* from dest on are the file's from its old position on, wherever dest     *)
(* lies in a block and however short the parts came, the position is n     *)
(* further, nothing outside the blocks of the range was written, and the   *)
(* other server's files and a refused open left no handle or descriptor    *)
(* behind (fileio.cpp:131-224, ioman.cpp:132-162, romdrv.cpp:113-157).     *)
(***************************************************************************)
ReadArrives ==
  /\ fio["server"].at = "answer" /\ fio["server"].call = "read" =>
       LET c == fio["server"]
           handle == romHandles[files[c.fd].privdata]
       IN  /\ \A k \in 0..c.total - 1 :
                eeMemory[c.dest + k] = <<handle.name, c.start + k>>
           /\ handle.position = c.start + c.total
           /\ \A k \in 0..EETop :
                k < c.dest - OffsetOf(c) \/ k >= AlignUp(c.dest + c.length)
                  => eeMemory[k] = Old
  /\ LET opening == {fio[t].fd : t \in {u \in FileThreads : fio[u].at = "open"}}
         open == {fd \in Fd : files[fd].taken} \ opening
         loading == {fio[t].fd : t \in {u \in FileThreads :
                                          fio[u].at \in {"load", "close"}}}
     IN  /\ open = eeFds \cup loading
         /\ \A h \in RomHandle : romHandles[h].used =>
              Cardinality({fd \in open : files[fd].privdata = h}) = 1
         /\ \A fd \in open : romHandles[files[fd].privdata].used
=============================================================================
