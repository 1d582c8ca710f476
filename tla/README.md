# Models of the IOP and EE kernels

TLA+ models, TLC runs and TLAPS proofs for PS2BiosRebuild, a clean-room
replacement of the PlayStation 2's boot ROM. The repository builds two
operating systems: the IOP kernel (`src/src/iop`, some thirty modules that call
one another through export tables) and the EE kernel (`src/src/kernel`), with
the EE programs and the boot block around them. The models cover what has
control worth modelling: both schedulers and their objects, both interrupt
dispatchers, the link between the processors, memory, module loading, and the
drivers of the pads, the memory cards' bus, the disc and the files.

## 1. Inventory

| component | state | operations | interacts with | hard behaviour | what makes it correct |
|---|---|---|---|---|---|
| THREADMAN scheduler, thbase | thread table, one ready queue per priority, bitmap of the queues, current and pending index | create, delete, start, exit, terminate, change priority, rotate, release wait, sleep, wakeup, cancel wakeup, delay; most also in an i-form | INTRMAN (switches at traps and interrupt exits), its own objects and alarms | a wake in an interrupt stages a thread and the exit switches; queues are index chains with the owner told from the state | queues and states agree, the best ready thread runs, no wake-up is lost |
| semaphores, thsemap | count, limit, wait list, waiter count | create, delete, signal, wait, poll | scheduler | signal against release, termination and deletion | a signal is used once; first come, first served |
| event flags, thevent | bits, wait list, per-thread condition | create, delete, set, clear, wait, poll | scheduler | the set call walks the waiters and may be switched out in the middle | no waiter is passed over |
| message boxes, thmsgbx | circular message list kept by its tail, wait list | create, delete, send, receive, poll | scheduler | ordered insertion at both ends and among ties | messages in the promised order, none lost |
| clock and alarms | software clock over a wrapping counter, sorted alarm queue, one compare register | set, cancel (both forms), timer interrupt | TIMRMAN, INTRMAN, delayThread | wraps seen only by reading; coalesced deadlines; late register writes | the clock never loses a wrap, an interrupt is coming for every alarm |
| INTRMAN | handler table, masks, dispatch gates, DICR's two banks | register, release, enable, disable, gate, dispatch, reschedule | all drivers; THREADMAN's two hooks | the DMA line is an edge of two banks' common request; masks changed by handlers | no completed transfer is left without an interrupt |
| SIFMAN, SIFCMD, EESYNC, EE client, loading of programs | flag registers, send ring, packet buffers, servers and call queues | handshake, send, packet interrupt, bind, call, serve, fetch a file | both processors | one outgoing buffer read late, calls queued while serving, sleep against wake-up; fetches over a channel that commands use | each call runs once and is answered with its own answer |
| EE kernel threads, semaphores | thread table, ready queues with the running thread in them, cached lowest priority, semaphores | the thread and semaphore slots in two forms, interrupt entry and exit | EE programs | requests for a switch made inside nested interrupts; links shared by ready queue and wait list | as for THREADMAN |
| EE kernel interrupts | handler lists in a shared pool, controllers' status | add, remove, dispatch | EE programs | lists changed while walked, by nested interrupts too | every handler is called |
| SYSMEM, HEAPLIB | block table; heaps of chunks, arenas with circular free lists | allocate in three modes, free; create, delete, allocate, free | loader, drivers | walk and insertion without a lock; table full, empty gaps, merging across an arena's start | every byte has one owner |
| LOADCORE, loader, MODLOAD | list of export tables, clients, module records, hold list | boot, register, bind, release, load, start, reboot, relocate | every module | supersession, failure half-way, memory placed over; carries between HI16 and LO16 | clients are imports that exist, callers reach the newest table, addresses are right |
| VBLANK | record pool in three lists, event flag | register, release, wait, both edges | INTRMAN, event flags | lists changed by the walk's own callbacks | an edge reaches everybody |
| SIO2MAN, PADMAN | one event flag used as a baton; a port's phase, frame and retries | claim, transfer, release; open, close, poll, configure | event flags, VBLANK, SIF | bits cleared by three parties; pads pulled between frames | one owner at a time; a controller is polled in its configuration mode only when configuring it was given up |
| CDVDMAN, CDVDFSV | drive and channel, cached sector, handles, S-command channel, configuration session | open, read, seek, close, search, raw read, NVM, configuration | drive, SIF | declined commands, drive errors, retries, two clients of one channel | a caller reads the sector it asked for |
| IOMAN, ROMDRV, FILEIO | descriptors, handles, transfer buffers | open, close, read, lseek, getstat, load into memory | drivers, SIFMAN | a read cut at block boundaries, sent by DMA from buffers that are used again | a read delivers what it answers |
| MCMAN, LOADFILE, TIMRMAN, EXCEPMAN, libraries, EE programs, boot block, tools | - | sequential | - | none beyond the services above | - |

`PROJECT.json` lists every component with its files and status, and the
hazards found in the code, each at its line.

## 2. Modules

| module | models | composes |
|---|---|---|
| `ThreadQueue` | `enqueue`, `enqueueByPriority`, `makeReadyFirst`'s links, `unlink`, `popFront` on the index arrays | - |
| `Scheduler` | the helpers `makeReady` ... `wake`, all thbase calls, INTRMAN's exits | `ThreadQueue` |
| `Semaphore`, `EventFlag`, `Mailbox` | thsemap; thevent with the set walk turn by turn; thmsgbx with the circular list as stored | `Scheduler` |
| `SemaphoreAbs`, `MailboxAbs` | the promise of one semaphore (a count and a line of waiters) and of one box (a line of messages and one of waiters) | - |
| `Alarm` | the clock, `insertAlarm`, `armTimer`, `timerHandler`, over the timer hardware | - |
| `Intrman` | registration, masks, gates, the dispatch of plain lines and of the DMA banks | - |
| `EEThread` | the EE's thread and semaphore slots, interrupt entry and exit | `ThreadQueue` |
| `EEIntc` | the EE's handler lists, their walk and both controllers' dispatch | - |
| `SifRpc` | the handshake, the rings and packets of both sides, EESYNC, SIFCMD's servers, the EE's client | - |
| `SifRpcAbs` | the promise of a remote call: run once, answered | - |
| `Memory` | SYSMEM and HEAPLIB | - |
| `Modules` | LOADCORE's boot and registry, the loader, MODLOAD | - |
| `Relocate` | `relocate` and `applyRelocation` | - |
| `Vblank` | VBLANK | - |
| `Sio2`, `Padman` | SIO2MAN's baton; PADMAN's driver and RPC threads and the controller | `Padman` extends `Sio2` |
| `Cdvd` | CDVDMAN and CDVDFSV | - |
| `FileIo` | FILEIO's two servers over IOMAN's descriptors and ROMDRV's handles | - |
| `MCSemaphore`, `MCEventFlag`, `MCMailbox`, `MCSifRpc`, `MCModules` | constants for TLC and the refinement mappings | the above |
| `MCServices`, `MCDevices` | several components side by side, for one run each | the above |
| `ThreadQueueProofs` | lemmas on the queue operations and on the walk `Contents` | `ThreadQueue` |
| `SchedulerProofs` | type correctness and safety of the scheduler | `Scheduler`, `ThreadQueueProofs` |
| `SemaphoreProofs`, `MailboxProofs`, `EventFlagProofs` | theorems of the three objects, and that the first two implement their abstract specifications | `MCSemaphore`, `MCMailbox`, `EventFlag`, `SchedulerProofs` |
| `EEThreadProofs` | theorems of the EE's scheduler and semaphores | `EEThread`, `ThreadQueueProofs` |
| `DeviceProofs` | theorems of SIO2MAN and PADMAN, CDVDMAN and CDVDFSV, the alarms, INTRMAN, VBLANK, the EE's interrupts | their modules |
| `SifRpcProofs` | theorems of the remote calls, of FILEIO and of relocation | `SifRpc`, `FileIo`, `Relocate` |

How the state corresponds. `links` is `Thread::next`, `Thread::prev` and every
`Queue`; a queue is named by its priority or its object. `readyBits`, `state`,
`wait`, `priority`, `initial`, `wakeups`, `waiters`, `inUse`, `current` and
`pending` are the fields and globals of those names; `wait` joins `wait_type`
and `wait_id`. `answer` is what the blocked call's saved `$v0` holds. `delayed`
is the set of threads with a `delayExpired` alarm queued. `mode` says whether
an interrupt is being served; `closing` is the object whose delete call is in
its loop. The code's helpers call one another and write these in a fixed order;
in the model they are operators from a record of the whole scheduler (`Kernel`)
to another, composed in that order, and an action stores the last one
(`Becomes`).

In the other modules a variable has the name of the field or global it stands
for, or says in its declaration what it stands for. Variables declared as
history (`ran`, `expected`, `owed`) are read by no guard.

Grain. On the one processor a call holds interrupts off from its first test to
its return or to the trap that switches it out, so a call is one step. Three
are not: a delete call, which is a step per waiter; `setEventFlag`, which may
be switched out in its walk and is a step per waiter; and the alarm code, in
which the hardware counter runs on between the statements.

SYSMEM and HEAPLIB hold nothing off. A module's allocation is two steps, the
walk of the table and the insertion; a release, and HEAPLIB's calls, are one,
so what is checked of a heap is checked of one that one thread at a time uses.

Elsewhere: an EE syscall is one step, except that deleting a semaphore and
loading a program are a step per turn of their loops (`loop`); a controller's or
a channel's progress is a step of its own, and wherever a thread waits, sleeps, is called back or leaves
interrupts open in the middle of an operation the step ends. In `SifRpc` the
packet interrupt is one step and the bytes of a queued send are read when the
channel gets there, not when it was queued; so they are in `FileIo`. In
`Intrman` a completion can come between any two accesses to DICR. In `Cdvd` the
arming of the channel, the command, its refusal, the interrupt and the caller's
look at the result are apart. In `Sio2` the service thread looks at the request
bits anew when it clears one, which nobody else does in between.

Abstractions. Ids are resolved to slots (generations are not modelled); a
refused call changes nothing and is a stuttering step; stacks, frames and
parameter checks are left out; the slot a create call takes is the first free
one for threads and any free one for objects. A semaphore count is bounded by
`MaxCount`, pending wakeups by `MaxWakeups`.

Uses the code mishandles. The constant `Unsafe` names four uses of the
interface after which the code does not recover; the clients of the passing
runs avoid them, and that they do is a guard marked as such in the action:

* `DeleteOverBetterWaiter`: deleting an object on which a better thread than
  the caller waits (run `delete_loses_thread`);
* `SetOverBetterWaiter`: setting a flag in thread context with a better thread
  waiting anywhere but last (run `set_walks_astray`);
* `InterruptTerminatesStaged`: `iTerminateThread` of the thread just staged,
  which `takeOffReady` then unlinks from a ready queue it is not in;
* `InterruptReprioritises`: `iChangeThreadPriority` that makes a ready thread
  better than the one to run; nothing is staged, so the better thread waits
  for the next switch.

The same constant in `EEThread` names four uses of the EE's slots:

* `WaitSemaInCrowd`: waiting on a semaphore when others are ready at the
  caller's priority or already wait (run `ee_wait_sema`);
* `SuspendRunning`: suspending the running thread, which takes it off its queue
  without a switch;
* `TerminateInterrupted`: a handler terminating the thread it interrupted, which
  the exit then makes Ready in no queue (`thread.cpp:434-441`);
* `LowerInterrupted`: a handler lowering the priority of the thread it
  interrupted, after which nothing requests the switch (`thread.cpp:711-747`).

Further assumptions on clients have a name where they are made:

* `Concurrent` of `SifRpc`, FALSE in the run: two clients of the EE do not ask
  at the same time;
* `Quiet` of `SifRpc`: when a program is replaced no answer is due and no
  module's command is queued, and none is sent until the new program's
  `initRpc`. The code does not see to it: the next packet, whatever it is, ends
  a fetch, and one that comes after `initRpc` has armed the channel for the
  program takes it down again. Commands are a title's modules'; those of the
  repository answer what they are asked. A load is one that finds its file;
* `Preempted` of `Memory`, FALSE in the run: threads take turns at SYSMEM. Its
  callers do not see to it (section 4);
* `Turns` of `Cdvd`: callers of the raw read keep clear of the file calls;
* `Disciplined` of `EEIntc`: a handler that has removed itself neither adds one
  nor removes another before it returns.

`PROJECT.json` says at each hazard what happens without. `FileIo` gives every
send a place in SIFMAN's ring; a refused one would be counted as delivered,
since `sendToEe` takes the id 0 for an end.

What else is abstracted: bytes are the sector, file or address they come from;
names are model values, so path syntax is left out; a HEAPLIB address counts
units of eight bytes; a half of an address in `Relocate` has `Half` values
instead of 2^16; FILEIO's block of 16 bytes is `Block`; a pad's reply is its id.

## 3. Runs

| run | instance | what it shows |
|---|---|---|
| `scheduler` | boot thread, two others, idle; two priorities; every thbase call | `TypeOK`; `QueuesMatchStates`: no thread is lost or in two queues and the bitmap is right; `RunningIsBest`: no preemption is left owed; `OneRuns`; `NoLostWakeup`; `DelayHasAlarm` |
| `semaphore` | the same threads, one semaphore, counts to 1 | `Linked` with wait lists in both orders; `NoWaitWithCount`; `PreemptedKeepsTurn` (a preempted thread is first of its peers when the interrupt returns); `ImplementsSemaphore`: refinement of `SemaphoreAbs`; `FirstComeIsServed` (liveness) |
| `event_flag` | the same threads, one flag of two bits, an OR wait and an AND wait with clear | `NoSatisfiedWaiter`, `WalkMeetsWaiters`; `WaiterIsReleased` (liveness) |
| `mailbox` | boot thread, one other, idle; one box, three messages, two equally urgent | `CircleCloses`, `WaitersOrMessages`, refinement of `MailboxAbs` |
| `ee_threads` | the first program's thread, one more, idle; one semaphore, counts to 2; two priorities to change to and create with, both better than the first program's; interrupts two deep | `QueuesHoldThreads`; `PickMissesNone` (the cached lowest priority hides nobody); `BetterThreadRuns` (a handler's wake-up is acted on at the outermost exit); `LiveFramesKept` (no answer is written over an interrupted thread's registers); `NoWaitWithCount` |
| `sif_rpc` | programs loaded one after another, each with one client; two servers on one queue, a module that sends commands; a ring of 3 | `AnswerIsOwn`; `ImplementsRpc`: refinement of `SifRpcAbs`, its fairness included, so every request is answered; `SenderIsCalledBack` (liveness) |
| `services` | memory, VBLANK, the EE's handler lists, INTRMAN, modules, relocation | `MemoryHasOneOwner`, `EdgeReachesAll`, `EveryHandlerCalled`, `NoTransferStranded`, `ClientsAreImports`, `CallersReachNewest`, `RelocatedRight` |
| `devices` | alarms, pads and a card on the bus, the disc, the mechanism controller, the EE's files | `ClockIsTrue` over two wraps, `QueueSorted`, `AlarmWillRing`, `BusHasOneOwner`, `ConfigModeOnlyGivenUp` (a controller is polled in its configuration mode only when configuring it was given up), `SectorsAreTrue`, `ConfigFits`, `ReadArrives` |
| `delete_loses_thread` | semaphore with `DeleteOverBetterWaiter` | a thread Ready in no queue |
| `set_walks_astray` | event flag with `SetOverBetterWaiter` | a walk at a thread that no longer waits |
| `late_compare` | alarms with `LateWrite` | a wrap the clock never counts |
| `ee_wait_sema` | EE threads with `WaitSemaInCrowd` | ready threads in no queue |

`services` and `devices` check several components in one run. These have no
state in common, so nothing is gained from interleaving them: an initial state
chooses the part that runs, the other parts' variables stay as they are, and
the invariants of all are checked. Each part stops at its own bound (loads,
installations, time, the end of a relocation), so these two runs and
`late_compare` turn the deadlock check off.

Why the bounds are enough. Three client threads give a caller, a waiter and a
third that overtakes or terminates; with two priorities besides the idle one a
thread can be better than, equal to and worse than another, and a queue can
hold two. Longer queues only repeat the unlinking of a first, a middle and a
last element, and three threads at one priority with one of them waiting reach
all of these. One object is enough because objects share only the scheduler.
The mailbox needs three messages for an insertion between two, and two equal
urgencies for the order of ties. The alarm part passes two wraps, so that a
missed one shows. A tick is a granularity, the 100 us within which alarms share
an interrupt, and an interrupt is served up to a tick late. The delays 0 and 7
lie inside and outside the window of two granularities, and the window that
`AlarmWillRing` allows, 4 ticks of a period of 14, leaves most compare values
wrong: one for the wrong alarm of a run, or none, is found. In `late_compare`
the granularity is 3 and an interrupt up to two ticks late. On the EE one thread
beside the first program's is enough for the rest: the running thread is in its
queue, so a queue of two is already one in which it is not alone, and without
`WaitSemaInCrowd` a semaphore has one waiter at a time. The RPC
ring has the fewest slots that `SifAssumption` allows, one client is what
`sifclient.cpp` is, and two servers on one queue let a call come for the one
while the thread serves the other, or is about to sleep. Memory has four
granules and three records: the table can be full with a granule free, so that
an allocation is refused for either, a module asks for two granules, so that
gaps too small occur, and a heap of the smallest size still splits and merges.
VBLANK's pool holds the module's own two handlers and two clients', at
priorities on either side. The handler lists have three records, so that one is
reused while an outer walk stands on another, and interrupts nest twice.
INTRMAN has a channel in each bank, so one can complete while the other is
served. The loader has three generations of one library, a client of it and an
image that does not stay; one thread loads beside the boot, and the hold list
has one place, so that a second held load is refused. Relocation
takes targets and bases on both sides of each sign and carry of a half of 8.
The file part has files shorter and longer than a request, destinations at
the start and in the middle of a block, requests below and above a block, two
descriptors and two handles, so that opens are refused, and a driver that may
give half of what is asked. Permutations of the two interchangeable alarms are
the only symmetry; threads are numbers that slots are searched by.

Fairness, in `semaphore`, `event_flag` and `sif_rpc` only. Handlers and calls
return (they are finite loops), interrupts keep arriving, and again and again
one of them signals the semaphore or sets the flag, as the completion
interrupts of the drivers do. Nothing is assumed about what the threads do:
they may never make another call, which is what the code guarantees, and
without the signals nobody need be served. The signalling is strongly fair
because it can only be made while an interrupt is served. In `sif_rpc` the
fairness is weak, of the two channels, of the interrupts they raise, of a
server thread that can go on, and of the EE's client polling for what it asked;
that a client asks, or a module sends, is not assumed.

Every property of a passing run is paired with a variant of the definition it
depends on most (in the modules, under comments that begin with "Variant"),
under which TLC finds it violated.

## 4. Disagreements between the code and what it says

The four violation runs are recorded as findings. Found while modelling, and
without a run:

* the two remaining `Unsafe` uses of THREADMAN in section 2;
* three of the EE kernel's. `docs/spec/05-ee-syscall-abi.md:428-432` (SYS-10f)
  says that lowering one's own priority gives the processor up; a handler's
  call, 0x2A, requests no switch when it lowers the interrupted thread. A
  handler that terminates the interrupted thread has it Ready in no queue after
  the exit. The comment at `thread.cpp:928` concedes the third,
  `SuspendRunning`;
* SYSMEM's records are "kept sorted by address" (`sysmem.cpp:48-52`) only if
  threads take turns: an allocation walks the table and inserts at the index it
  found with interrupts open, and callers such as `modload.cpp:112` do not close
  them. With `Preempted = TRUE` two records lie over one range after three
  steps;
* a broken-off configuration is said to be safe because "the ID probe will not
  match" (`padman.cpp:312-316`). The probe takes any id that stands, the
  configuration mode's 0xf3 too; if the frames that enter the mode are then
  missed `kRetries` times running, the port is polled as found and the answers
  of the configuration mode are published as buttons, with configurable 1. That
  this is the only way is what `ConfigModeOnlyGivenUp` says;
* `sifExchange` takes whatever packet ends the transfer for its own
  (`sif.cpp:330-339`), also when a module's command is what came;
* a change of the running thread's own priority that does not yield still moves
  the best ready thread to the tail of its queue (`changeThreadPriority` pops
  it and readies it again);
* the permanent alarm is seeded at 0 - 2 ms modulo 2^64, which the unsigned
  order puts at the far end of time, not "2 ms overdue" as `startClock`'s
  comment has it; a `setAlarm` that arms for an overdue alarm moves the compare
  register to 200 us from now, so calls closer together than that put it off;
* `createSema` accepts an initial count above the maximum; an SA_THPRI wait
  list is not sorted again when a waiter's priority changes; `wakeup_count`
  survives a restart of the thread; after 256 creations in a slot an old id is
  valid again;
* a load that fails to link, or a boot module placed over, leaves import tables
  on exporters' client lists (`modload.cpp:195`, `loader.hpp:364-398`), which
  `loader.hpp:318-321` counts on to be live;
* with two clients asking at once SIFCMD's one outgoing packet can be
  overwritten before the channel reads it, against `sifcmd.cpp:97-99`;
* `delDrv` compares with a length of 2^31 - 1, so it matches no name and a
  driver is never removed;
* a send that SIFMAN refuses is counted by FILEIO's read as delivered.

## 5. Proofs

Type correctness. `ThreadQueueProofs` shows that each queue operation maps
typed links to typed links. `SchedulerProofs` shows the same of each helper of
the scheduler and each action, and concludes

    THEOREM SchedTypeCorrect == SchedSpec => []TypeOK

for every number of threads, priorities and objects, from the assumptions
`QueueAssumption` and `SchedulerAssumption` only; it holds whatever `Unsafe`
contains. `TypeOK` is inductive as it stands. The records between two helpers
are weaker than at the ends of a call, since `pick` may answer no thread:
`KernelType` is what holds throughout and `Settled` what holds at the ends, and
the heart of the argument is that `newContext` turns the first into the second.
`MinIsBest` (a non-empty set of priorities has a least element, from the
well-foundedness of the naturals) is what `pick` rests on.

The scheduler. `SchedulerProofs` proves, for every value of the constants with
`Unsafe = {}` (clients that keep off the four uses of section 2; the violation
runs show two of them breaking the same properties),

    SchedLinked, SchedOneRuns, SchedRunningIsBest, SchedNoLostWakeup,
    SchedDelayHasAlarm, SchedQueuesMatchStates ==
        SchedSpec => [](the property of that name)

None of the six is inductive by itself. The inductive invariant is `Steady`:
the scheduler's record is `Sound`, and nothing is staged outside an interrupt.
`Sound` has these parts, each needed by another:

* `Queues(k, w)`: the links are those of lists that hold each thread t in queue
  w[t] (`LinkedAs`), the bitmap has a bit for exactly the ready queues with a
  head, and the chains are acyclic. The last is `Ranked`: some function to the
  naturals grows along `next`. `LinkedAs` alone is local, and a ring of threads
  that no head leads to satisfies it; a rank excludes the ring, and with it
  `QueueHasHead` (a queue that holds a thread has a head) is proved by taking
  the thread of least rank. `pick` needs this to find a thread at all, and
  `unlink` to keep the bitmap right.
* `Threads`: a thread waits exactly when it has a reason, on an object in use,
  and sleeps with no wakeup owed; the idle thread is always Run or Ready, so
  `pick` never answers nothing and the running thread never picks itself.
* `Delays`, `Runs`, `BestBut(k, None)`: what `DelayHasAlarm`, `OneRuns` and
  `RunningIsBest` say of a record.

A helper takes one thread off a queue or puts one on, at a moment when the
threads' states and the queues need not agree. So each helper's lemma says only
what it does to w (`MakeReadyQueues`, `TakeOffReadyQueues`, `PickQueues`,
`LeaveWaitQueues`, `SwitchQueues`), and w is compared with the states where a
call ends: `DispatchSound` and `AwaySound` for a caller that blocks, ends or
yields, `HandOffSound` and `StageSound` for the two ways a readied thread is
settled, `WakeSound` for the whole of `wake`. `BestBut(k, i)`, no ready thread
but i is owed a preemption, is what holds between `makeReady` and its hand-off.

`EnqueueByPriorityLinked` shows that `enqueueByPriority` keeps the links, from
`FirstWorseThere`: no step of the walk leaves the queue, so the thread it stops
at is in it. That it is the first worse one is left to the runs.

`QueuesMatchStates` speaks of what a walk from the head meets, and follows from
the local `LinkedAs`: `ContentsListed` shows that the walk of `Contents` yields
a list from the head to an end (`Listed`; it has no more elements than there
are threads, because ranks grow along it), `ListedHolds` that such a list has
exactly the queue's threads (the queue's thread of least rank outside the list
would have no predecessor, so be the head), and `ListedUnique` that it has each
once. What the recursion of `Contents` computes is found without induction: if
it were wrong for some length it would be for a least one.

The objects. `Serving` is what the scheduler's proof leaves to the object
modules: `Steady`, and that a delete call in its loop (`closing`) is a thread's,
with no waiter left on its object that is better than the caller. The lemmas `JoinNone`, `SchedNextServes` and `WakeServes`
carry it over every scheduler action, every call that blocks on an object and
every wake. On top of it:

* `SemaNoWaitWithCount`, `SemaLinked` from `SemaInv`: a count is a natural
  number, and rises only when nobody waits.
* `MbxWaitersOrMessages` from `BoxInv` in the same way. `MbxCircleCloses` from
  `RingInv`, which says that some function lists each box's messages in the
  order of their links, without a repetition and apart from the other boxes'
  (`Rings`); each send exhibits the list after the insertion. `RingHops` shows
  that `Hop`, the invariant's walk, follows that list.
* `FlagNoSatisfiedWaiter`, `FlagWalkMeetsWaiters` from `FlagInv`. While a set
  call walks, `Ahead(S, e, a)` gives a set S of waiters still before it, the
  next one first, closed under `next`; every thread outside S has been looked
  at. `Closed` says what a wake does to the links of another thread and
  `WalkGoesOn` that the walk's next waiter survives it. Outside an interrupt
  this needs the last conjunct of `Ahead`: only the last waiter is better than
  the caller (the use `SetOverBetterWaiter`).

That the objects implement their abstract specifications needs the order of the
lists, which the local `LinkedAs` does not speak of. It comes back through
`Listed(f, n, a, q)`: f lists queue q from its head to its end along the links.
`ContentsListed` and `ListedUnique` make `Contents` that list, and what the
helpers do to it is said once for all queues: `unlink` takes one element out
(`TakenOut`), `enqueue` and `enqueueByPriority` put one in, at the end or before
the first worse thread (`PutIn`), and what is done to another queue leaves a
list as it is (`KeepsList`). From these follow, for the line of waiters of any
object, `StaysPut` (a call has nothing to do with it), `Leaves` (a release or the
end of a thread takes that one out), `WakeLines` (a wake takes the head),
`JoinLines` and `DeleteStepLines`.

* `SemaImplements` matches every step with one of `SemaphoreAbs`, or with none:
  under `Unsafe = {}`, each action has its `...Meets` lemma, on the count, the line
  and the answers of those in line. The answers are the delicate part: a thread in line
  keeps its answer through every other call, and gets `Ok` only from `Give`.
* `MbxImplements` does the same for `MailboxAbs` and adds the circular list of
  messages. `Rings` gives the function that lists a box's messages;
  `RingMessages` has that the walk of `Messages` yields it, `QueueRing` that a
  send inserts at the place `queueMessage` found, `DequeueRing` that a receive
  drops the first, and `RingApart` that another box's are not touched. That the
  place found splits the messages into those at least as urgent and the rest
  holds only of a list in order, so the invariant is `OrderInv`: `RingInv`, and
  the messages of an ordering box are in order of urgency. It is inductive
  because the matched steps of `MailboxAbs` keep the order.
* `SemaPreemptedKeepsTurn` from `TurnInv`: `SemaInv`, and `Turn`, that while an
  interrupt has staged another thread the current one is the head of its ready
  queue. `makeReadyFirst` puts it there when the first thread is staged; a later
  staging sends the thread it displaces to a tail; and a thread that is not
  itself taken out stays the head of a list that gains only at the end. A call
  of `rotateReadyQueue` may take the turn away, so the theorem is about a
  program that makes none, with `Unsafe = {}`.

The EE kernel. `EEPickMissesNone`, `EEBetterThreadRuns`, `EELiveFramesKept`,
`EENoWaitWithCount` and `EEQueuesHoldThreads` hold for any number of threads
and semaphores with `Unsafe = {}`: programs keep off the four uses of section 2.
For `EEBetterThreadRuns` it matters that handlers do not lower the interrupted
thread's priority, for `EEQueuesHoldThreads` that they do not terminate it.
`EEInv` has `Whole`, what holds between
calls, and says when a better thread may be ready: with a switch requested, and
within an interrupt or a delete call's loop. Inside a call a record is in
`Limbo` (one thread is in no queue, whatever its record says) or `Away` (the
running thread has been put away and a choice is owed). `CountInv` adds that
`wait_count` is the number of threads that wait, which each way out of a wait
has to keep.

The remote call. `SifAnswerIsOwn` holds for any number of clients, servers,
queues and ring slots if one client asks at a time (`Concurrent = FALSE`) and
programs are replaced when all is `Quiet`; fetches for the programs loaded later
are included. `SifInv` says where the one request is: `Flow(st, q, n)` has the stage of the
request, from the EE's ring through the IOP's packets, the server's queue and
the serving thread to the packet that answers it, and what every record it has
passed holds there. From the same invariant

    THEOREM SifImplementsRpc ==
        the initial states and steps of Spec are those of SifRpcAbs, or stutter

which is `ImplementsRpc` without its fairness: a call's function runs exactly
once between the request and the answer.

FILEIO, whose calls arrive over it. `ReadsArrive` holds for any files, block
size, lengths and destinations, from `FileInv`. The descriptors in use are the
client's and the one a thread is on its way to open or to give back, each with
a handle of its own. Of a read in progress every byte up to `total` is in
memory, or in the block that is to be sent or on its way; the ends that do not
fill a cache line travel apart. That the three parts make up the whole is
arithmetic on `Block` (`RemainderOf`, `PartsOfRead`).

Relocation, of the modules LOADFILE has loaded. `RelocationRight` holds for any
width of half an address, any bases and targets, and any layout that is `Paired`:
a word has one entry, and a HI16's is followed by that of a LO16 of the same
address. That is what `tools/mkirx.py` writes, refusing what it cannot order so,
and `tools/irxinfo.py` checks. `RelocInv`: a word that is done has what the
assembler would have stored for the moved address, a word that is not, or a
HI16 that is held, what it stored for the address itself; and with a HI16 held
the next entry is its LO16. `HalvesOf` and `FixupsMove` are the arithmetic: the
high half makes up for the sign of the low one, and each kind of fixup is that
of the sum.

The devices, in `DeviceProofs`:

* `IntrmanNoTransferStranded`: for any lines and channels, and any masks, gates
  and registrations. The DMA bit of I_STAT is set by a rise of the banks' common
  request, and a completion while the request is high makes none. `Guarded` has
  why none is missed: at a thread, in a plain line's handler and on the way back
  a request is announced, that is, the DMA bit is pending; while the dispatcher
  pulses the master enable nobody has forced a request, so it is low at the
  pulse's low half and the high half makes the edge; calls are made only where a
  thread or a handler runs; and the DMA line keeps its handler, or the walk
  would never start. `WriteAnnounces`, that a write of DICR announces what it
  raises and keeps what is announced, does most of the work.
* `BusIsOwned` from `SioInv`: each bit of the flag belongs to a place in the
  handshake of one client or of the service thread, and clients of a kind are
  one client. `ConfigModeGivenUp` from `PadInv`: the driver is on the bus
  exactly during its exchange, the stage it acts on is still the port's or the
  port was opened anew, and before the second probe the controller was heard to
  leave its configuration mode; so a port polled with that mode's id is one that
  gave up entering it.
* `SectorsTrue` from `WorkInv` and `FilesFit`, under the hypothesis `Turns`:
  whoever is at work on a sector holds the driver's semaphore, and no raw
  reader works beside it; a transfer goes where the one that waits for it
  wants it; the cache is not valid while it is filled, and when valid it has
  its own sector. `ConfigurationFits` from `ConfigInv`: a call that collects
  has the channel, and the two counts of blocks are the same, within the limit
  and not changed under a request that moves them.
* `AlarmsInOrder` from `QueueInv`: the queue is a list without repetition in
  the order of expiry (`Ordered`), and the permanent alarm is in it.
* `ClockTrue` from `TimeInv`, under the hypothesis `ReadInTime`. Software sees a
  wrap of the counter only by reading it, so from one reading to the next the
  counter may not go round. With no request pending, the next interrupt, of the
  wrap or of the target, whichever is first (`UpTo`, `NextInTime`), is answered
  within a period of the last reading: a compare register that is written is
  either `Near` or the permanent alarm's Period - Seed, which comes round once a
  period although that alarm never falls due. `ReadInTime` has that the register
  is written before the counter passes its value (`LateWrite` is what the run
  `late_compare` is about), that a request waits less than `Seed`, and that no
  delay together with the lag makes up a period. Without the last the clock can
  miss a wrap: with an alarm set for more than a period ahead first in the
  queue, the register has that alarm's phase, which may lie too near the wrap.
* `AlarmsWillRing` from `AlarmInv`, `TimeInv` with `Rings`: the register's value
  comes round no later than the first alarm's time, or this moment, and the
  windows of those that may share its interrupt. `RunWithin` has that a run of
  coalesced alarms takes a window for each at most.
* `EEIntcEveryHandlerCalled` from `HandlerInv`. A list is what its links reach,
  so the invariant names two things the code does not store: whose list a
  record is in, and a rank that falls along each list. Each place, a head or a
  record, leads to the foremost of its source's records beyond it
  (`HandlersListed`), and that includes a record that was removed while a walk
  stands on it: its link is left, every later removal mends it or does not
  matter to it, and no `AddHandler` takes it, since its handler is
  `Disciplined`. What a walk owes is then always beyond where it stands
  (`OwedLater`), and nothing is beyond the end. `ListOfHas` has that the
  recursion reaches exactly the source's records: the ranks of what it meets
  fall, so it ends within as many steps as there are records.
* `VblankEdgeReachesAll` from `VblankInv`, for any pool of two records or more.
  The lists are followed through sequences that the links spell out (`Pool`): no
  record is in one list twice or in two, and for each edge the sequence lines
  up, entry by entry, with what clients are promised. `UnlinkTakes` and
  `InsertPuts` say what `unlink` and `insertBefore` do to the sequences, `ChainIs`
  that the walk of `Chain` meets just them, `PlaceOf` that a place before the
  first greater key splits an ordered sequence (the alarms' queue needs it too).
  A walk's successor, read before the handler runs, stays in the list whatever
  the handler withdraws: only itself. Until the edge's own handler, which wakes
  the sleepers, is behind the walk, it is still owed. The two handlers that VBLANK registers for
  itself are assumed not to be a client's; they are not visible outside it.

Only model-checked. Liveness and everything under fairness, `ImplementsRpc`'s
included. The invariant of `Memory`, which speaks of what `Ring` and its sums
compute; those of `Modules`, which need more of the images (who exports and
imports what) than the module assumes.

## 6. Plan

1. Proofs: `MemoryHasOneOwner` of `Memory`, `CallersReachNewest` of `Modules`
   with hypotheses on the images.
2. Models: nested interrupts in `Intrman`, removal of servers in `SifRpc`,
   LOADFILE's segments beside `FileIo`, MCMAN's retries over `Sio2`.

Not modelled: data formats (ELF, the card's file system, path syntax, fonts,
drawing), one-shot start-up, register-only services, libraries and host tools;
`PROJECT.json` gives the reason for each.
