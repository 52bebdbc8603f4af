# TLA+ models of the EDK II firmware core (edk2-beni)

This directory holds TLA+ specifications of parts of the firmware in this
repository, TLC configurations that model-check small instances of them, and
TLAPS proofs for all instances. Every definition is translated from the C source;
`PROJECT.json` maps each one to its file and lines.

## 1. The system

EDK II is a UEFI firmware: SEC and PEI bring up memory, the DXE core offers boot
services to drivers it dispatches, BDS boots an operating system, SMM and the
runtime drivers stay behind. BeniPkg is the platform that builds an image from
these packages for QEMU and adds test drivers and shell commands. The parts that
carry the core logic, their state and their hard cases:

| part | state | operations | interacts through | hard part |
|---|---|---|---|---|
| DXE event and TPL services (`Core/Dxe/Event/Event.c`, `Tpl.c`, `Library/Library.c`) | `gEfiCurrentTpl`, `gEventPending`, `gEventQueue`, `gEventSignalQueue`, `IEVENT.SignalCount` | Create, Signal, Check, WaitFor, CloseEvent, RaiseTPL, RestoreTPL | calls notification functions from every lock release; the timer interrupt | interleaving on one stack |
| DXE timer services (`Event/Timer.c`) | `mEfiTimerList`, `mEfiSystemTime`, `TriggerTime`, `Period` | SetTimer, TimerTick, CheckTimers | the interrupt writes the clock and reads the list; signals events | ticks between two statements, late periodic timers, wrap-around |
| Fault tolerant write (`FaultTolerantWriteDxe`) | working block, spare block and target blocks in flash, two pointers in memory | Allocate, Write, Restart, Abort, GetLastWrite, reclaim, InitFtwProtocol | the variable driver writes through it | loss of power in any flash operation, also during recovery |
| Variable driver (`Variable/RuntimeDxe`) | variable store in flash, cache, last offsets | Get, GetNext, Set, reclaim | FTW, FVB, SMM | loss of power between state bits, reclaim |
| Handle and protocol database (`Core/Dxe/Hand`) | handles, protocol interfaces, open lists, notify lists | Install, Reinstall, Uninstall, Open, Close, Locate, Connect | driver callbacks with the lock dropped | re-entrancy |
| Dispatcher (`Core/Dxe/Dispatcher`) | discovered list, scheduled queue | Dispatch, Schedule, Trust, dependency expressions | protocol installation unlocks drivers | progress |
| SMM rendezvous (`PiSmmCpuDxeSmm/MpService.c`) | per-CPU semaphores, counter, `InsideSmm`, `AllCpusInSync` | SmiRendezvous, BSPHandler, APHandler | all processors | barriers, time-out racing a late CPU |
| MP services (`MpInitLib`) | AP state machine, wake-up buffer, timeouts | StartupAllAPs, StartupThisAP, Switch, Enable | timer event polls APs | time-outs, late APs |
| Memory services, SMM core, PEI core, network stack, shell, build tools | | | | not modelled, see 7 |

What makes the modelled ones correct:

* *events*: priorities exclude one another (a TPL is a lock), everyone gets his
  level and interrupt flag back, a queued notification is never overlooked,
  duplicated or lost, no freed event is used, waits notice signals;
* *timers*: no timer early, none forgotten, the check loop ends;
* *fault tolerant write*: a write is atomic under loss of power and recovery ends;
* *variables*: a value is the old or the new one wherever power is lost or a fault tolerant
  write fails, the cache is the flash, the status returned is true, an enumeration sees each variable once;
* *SMM rendezvous*: the BSP waits for exactly the processors that are in, none runs
  normal code beside traditional handlers, MTRRs and semaphores are back in place,
  there is one BSP, an SMI is served and everyone leaves;
* *handle database*: the lists agree, an interface is removed only when unused and has
  one manager, a registration is told once of every interface that is notified.

## 2. The modules

| module | models | lines in |
|---|---|---|
| `DxeEvent` | event and TPL services with the timer interrupt | `Event.c`, `Tpl.c`, `Library.c`, `8254TimerDxe/Timer.c` |
| `DxeEvent_proofs` | proofs about `DxeEvent`: types, levels, the call stack | |
| `DxeQueue_proofs` | proofs about `DxeEvent`: queues, signals, freed events; extends the former | |
| `DxeTimer` | timer services | `Timer.c` |
| `DxeTimer_proofs` | proofs about `DxeTimer` | |
| `AtomicBlock` | what FtwWrite promises (abstract) | comment of FtwWrite |
| `Ftw` | fault tolerant write driver, implements `AtomicBlock` | `FaultTolerantWrite.c`, `FtwMisc.c`, `UpdateWorkingBlock.c` |
| `Ftw_proofs` | proofs about `Ftw`: the layout of the work space, recovery, atomicity | |
| `Variable` | the non-volatile variable store | `Variable.c`, `VariableParsing.c`, `VariableNonVolatile.c` |
| `Variable_proofs` | proofs about `Variable` | |
| `SmmSync` | rendezvous of the processors in SMM | `PiSmmCpuDxeSmm/MpService.c` |
| `SmmSync_proofs` | proofs about `SmmSync`: the barriers, the count, the election | |
| `SmmDuties_proofs` | proofs about `SmmSync`: latched SMIs, MTRRs, tokens; extends the former | |
| `Hand` | handle and protocol database | `Hand/Handle.c`, `Notify.c`, `Locate.c` and the open lists in `DriverSupport.c` |
| `Hand_proofs` | proofs about `Hand` | |
| `MCDxeEvent`, `MCDxeTimer`, `MCFtw`, `MCVariable`, `MCSmmSync`, `MCHand` | instances for TLC | |

A definition whose comment starts with "Mutant" is a plausible bug in the definition
after it; it is not used by any specification. Each property has one: with the
mutant in place TLC must find the property violated.

### DxeEvent

One processor, one call stack. `stack` is a sequence of activation records (client
code, `CoreRestoreTpl`, `CoreDispatchEventNotifies`, `CoreNotifySignalList`, the
interrupt handler); the other variables are the globals of the C files. A region
that holds `gEventQueueLock` runs at `TPL_HIGH_LEVEL` with the interrupts off and
is one step; the `CoreRestoreTpl` that ends it is an activation of its own, since it
runs other people's code. `CoreRestoreTpl` is split into the read of
`gEventPending`, the use of it, the dispatch and the exit, with interrupts possible
in between whenever the interrupt flag allows. The windows in which
`CoreSignalEvent` (event groups), `CoreCheckEvent`, `CoreCloseEvent` and the
dispatcher work without the lock are separate steps too.

Clients call any service in any order, from the application and from notification
functions, subject to the parameter checks of `CoreCreateEventInternal`
(`EventAssumption`). Two constants describe the build and the clients:
`ReloadPending` (a build without optimisation reads `gEventPending` twice) and
`Disciplined` (whoever closes an event runs no higher than its `NotifyTpl`, and
nobody is inside a call on it). The code does not enforce that discipline. With
`Disciplined = FALSE`, `NoStaleEvent` does not hold: `CoreSignalEvent` has dropped
the lock at `Event.c:566` and uses the group of an event that a higher level has
freed.

Abstracted: runtime events and protocol-notify events (a second list each),
parameter errors, the type bits beyond signal, wait or plain.

### DxeTimer

`CoreSetTimer` and `CoreCheckTimers` hold `mEfiTimerLock`, level 30: they exclude one
another and all notification functions (`TplExclusion`, proved for `DxeEvent`), so
one `holder` record is enough. They do not exclude the interrupt: `Tick` may come
between any two of their steps, moves the clock and looks at the head of the list.
Events are reduced to a signalled flag. `due` is a history variable: the time
before which the event must not be signalled according to the arguments of
`SetTimer`. Times wrap at `TIME`, which stands for 2^64.

A list operation is one step. `InsertTailList` and `RemoveEntryList` make a new head
visible with a single store, after the entry's own links are set, which is what the
unlocked reader in `CoreTimerTick` needs.

`CoreSetTimer` checks no more than the signature of the event, which is valid until
`CoreCloseEvent` frees it (`Event.c:778`). A notification function that runs after the timer
was cancelled (`Event.c:744`) may arm the event again, and the model lets it: the event is
then freed with its timer on the list. The history variable `rearmed` remembers such
events, and `TimerListOK` says that no other closed event is on the list. The freed memory
keeps its contents in the model; once the allocator gives it out again, `CoreCheckTimers`
and `CoreTimerTick` follow whatever it holds, and the model does not go there. A second
`CoreCloseEvent` of an event that is being closed is left out as well.

### Ftw and AtomicBlock

The driver is sequential, the power is not. `todo` is the driver's program: the flash
operations and decisions still ahead, a callee's in front of its caller's. Each flash
operation (erase, block write, write of a header or record, one state bit) is a step;
`PowerLoss` may come before, after or inside each (`Torn`) and leaves `todo` empty.
`PowerOn` starts `InitFtwProtocol`, which may be interrupted like anything else.
`FvbError` lets a flash operation fail with an error and end the service.

The work space is an array of `W` cells, each a header or a record (both 40 bytes
without private data). `Logical(b)` is what a reader would get once recovery is done:
the target block, or the spare block while a record says `SpareComplete` and not
`DestinationComplete`. It is the refinement mapping to `AtomicBlock`.

Abstracted: a cell is written whole or not at all (a torn header with an arbitrary
`NumberOfWrites` is out); the memory copy of the work space mirrors the flash; an
erased or half-written block is one value, `Garbage`; flash errors do not occur inside
`InitFtwProtocol` (it asserts); block sizes and `EFI_BAD_BUFFER_SIZE`; targets that are
the boot block (`FlushSpareBlockToBootBlock` and the swap protocol) or lie in the
working block.

### Variable

The store is a log of entries in flash; `flash` is the sequence of them and `cache` the
copy in memory. `UpdateVariable` is cut at its writes: mark the old variable
`IN_DELETED_TRANSITION`, write the header, the `VAR_HEADER_VALID_ONLY` state, name and
data, the `ADDED` state, delete the old copy or copies. `PowerLoss` may come between any
two. The phases of a boot are `off`, `read`, `boot` and `runtime`; at runtime nothing is
reclaimed.

`Reclaim` replaces the store through the fault tolerant write. Under loss of power that is
one step, because `Ftw` implements `AtomicBlock`. The write may also return an error, and
`FtwErrors` says where (`FaultTolerantWrite.c:238-274`, `586-604`):

| place | store | spare block |
|---|---|---|
| `before` the spare block is complete | as it was | |
| `spare`: before the target is touched | as it was | waits |
| `target`: while it is written | half replaced | waits |
| `dest`: before DestinationComplete is recorded | new | waits |
| `after` that: Complete, or the spare block's former contents | new | |

A spare block that waits (`ftw`, `spare`, and `spared`, the contents it stands for) is copied
over the store at the next boot, or read in its place until then; while it waits, further
fault tolerant writes do nothing. After an error `Reclaim` reads the cache back from what
the flash now holds (`Variable.c:754-805`), so an update that failed in this way may turn
out to have been made. `status` is then `aborted`, and not `error`.

A header written in part is a rest behind the last entry (`tail` = `torn`), which no parser
sees and which start-up finds and reclaims. That reclaim may fail like any other; the callers
log it and install the write service all the same (`VariableDxe.c:376-396`). The next
variable is then programmed over the rest (`tail` = `over`) and may be damaged: `garbled`
are the entries whose header reads as something else, which the cache does not know until
the flash is read again.

Nothing can be promised of a variable that is updated while a spare block waits, since the
replay takes the update back, or over or behind a torn header. `unsafe` is the set of
these names. It stays empty if the fault tolerant write returns no error
(`SafeWithoutFtwErrors`). `Sound` is the set of names that are neither `unsafe` nor `doubled`.

`committed` is a history variable: what the calls have brought about, from the moment the
new variable is `ADDED` or the old one is gone. `doubled` remembers names for which two
interrupted updates left two copies in transition and no `ADDED` one. For those the
code loses track (the finding below), so `Durable`, `StatusTruth` and
`EnumerationComplete` speak of `Sound` names and `StoredOrDeleted` of all.

`VolatilePresent` says whether the volatile store is empty. If it is, the first
`GetNextVariableName` starts at the first `ADDED` variable of the non-volatile store, and
names that exist only in transition before it are skipped: with
`VolatilePresent = FALSE`, `EnumerationComplete` fails.

Simplified: a damaged header keeps its sizes, so that a search goes on behind it. In the
code it may end there, and what was written behind it in that boot is lost too; those
names are in `unsafe` in any case, and the next boot finds the area not free and reclaims.
A half replaced store is a prefix of the new one, with or without a rest behind it; other
mixtures of erased, old and new bytes, and a store whose own header is erased, are not told
apart, and no property speaks of them: what is checked then is the spare block. Flash
errors during the replay at boot are left out (`FtwRestart` is followed by an assertion).

### SmmSync

Each processor has a program counter; its labels are the places in `SmiRendezvous`,
`BSPHandler` and `APHandler` where others can be observed. Between two labels lies as a rule
one interlocked instruction or nothing shared. Four steps join more: `ApRelease` has the
decrement of the token's count, the release of its lock and `Token = NULL`
(`MpService.c:427-431`) together with the release of BUSY (847); `CheckIn` the increment of
`Counter` and the initialisation of BUSY, which nobody takes before the processor is present;
`BspTimeout1` the last look at `InsideSmm`, the read of `BspIndex` and the IPI; `BspGone` the
end of the wait, `ResetTokens` and the reset of `BspIndex`. The loops over all processors
(`ReleaseAllAPs`, `WaitForAllAPs`, `WaitForAllAPsNotBusy`) are one step. The sync timer may
expire at any moment. An SMI is sent to all processors or to one, also while an earlier
one is being handled; it is latched and taken after RSM. The handlers schedule
procedures with `SmmStartupThisAp` and `SmmStartupAllAPs`, blocking or with a token.

`mode` is the platform: traditional or relaxed synchronisation, MTRRs to configure or not,
a `PlatformValidSmi` that reads a status or one that always says yes, and the way the BSP
is elected. Two constants are assumptions about time that the code does not enforce:

* `Prompt`: the sync timer is longer than the gap between an AP's last look at `InsideSmm`
  and its decrement of `Counter` (and the one between an unlocked `Counter` and
  `AllCpusInSync = FALSE`). Without it the BSP can lock the counter in that gap and wait
  for a processor that has gone: `CountExact` fails.
* `LateBroadcast = FALSE`: `SmmStartupAllAPs` is not called while processors may still
  arrive. With `TRUE` it is the second finding below.

`MtrrsKept` is stated for platforms whose `PlatformValidSmi` always says yes. Where it
reads a status bit, a late processor sees no valid SMI and no BSP and goes straight back,
which may be before the MTRRs of its core are restored.

### Hand

A stretch of code that holds `gProtocolDatabaseLock` is one step. Where the lock is not
held (between `CoreHandleProtocol` and the lock in install, around `CoreDisconnectController`
and `CoreConnectController` in uninstall, reinstall and exclusive open, in notification
functions) drivers and applications may call any service: calls in progress form a
`stack`, of which only the innermost goes on. Stopping and starting drivers is reduced to
what it does to the open lists: a driver closes or keeps what it manages, another one may
open it. `PROTOCOL_INTERFACE` structures have identities; one that was freed is used again
unless a call still refers to it, so that a stale reference shows.

`InstallProtocolInterface` signals the registrations of the protocol only if `Notify` is set
(`Handle.c:472`). `CoreLoadImageCommon` installs the loaded image protocol without, and
reinstalls it when the image is loaded (`Image.c:1334-1340`, `1372`). `old` is a history
variable: the interfaces that a registration need not be told of, because they were there
before it or came without notification and were not reinstalled since.

Two constants are disciplines of the callers that the code does not enforce:

* `OwnersWait`: the callers keep to `MayChange` and `MayRemove`. Nobody installs, removes or
  replaces an interface (a handle and a protocol) that a call in progress is about. And
  nobody uninstalls anything from a handle for which an uninstall or reinstall has been
  begun, has yet to take the lock and will find that its interface is not there: such a
  call, which ends with `EFI_NOT_FOUND` (`Handle.c:739-743`), has validated the handle before
  the lock (`Handle.c:726`) and searches it afterwards, and the handle goes with its last
  interface. With `FALSE`, `NoStalePointer` fails: `Prot` and the handle are used after the
  lock was dropped without being looked up again. A behaviour is followed up to that
  point: `FindAndDisconnect`, `DisconnectAgain` and `OpenAgain` do not go on with freed memory.
  So what is said to hold without the discipline (`ListsAgree`, `ToldOnce`, `ToldSoon`) holds
  until something freed is used.
* `NestedExclusive = FALSE`: an exclusive open does not begin inside another call. With
  `TRUE` and two such agents, `OneManager` fails: `Exclusive` is not looked at again after
  `CoreDisconnectController`, so two agents get exclusive access.

An event may be closed while its notification function is at work, also by that function;
the function then asks for no more handles with the registration, which is freed. One that
does is left out.

## 3. The runs

| run | checks | result |
|---|---|---|
| `event_core` | `TypeOK`, `TplExclusion`, `LevelsKept`, `QueuesSound`, `SignalNotLost`, `NoStaleEvent` | hold |
| `event_wait` | `QueuedIsNotified`, `WaitNotices` under fairness | hold |
| `timer` | `TimerListOK`, `NotEarly`, `ExpiredIsTaken`, `CheckTimersEnds` | hold |
| `ftw_power` | `Recovered`, `SpaceAllocated`, `WritesErased`, `AtomicWrites` | hold |
| `ftw_recovers` | `AtomicWrites`, `Recovers` with headers of two records | hold |
| `ftw_faults` | `BootRecovered` with flash errors and failed lookups | holds |
| `variable` | `TypeOK`, `Durable`, `CacheInSync`, `StatusTruth`, `EnumerationComplete` | hold |
| `variable_two_copies` | `StoredOrDeleted` | violated |
| `smm_three` | `TypeOK`, `CountExact`, `NoNormalCode`, `MtrrsKept`, `RunConsumed`, `BusyHeld`, `TasksFinished`, `OneBsp` | hold |
| `smm_live` | `SmiServed`, `EveryoneLeaves` under fairness | hold |
| `smm_startup_race` | `BusyHeld` with `LateBroadcast` | violated |
| `hand` | `ListsAgree`, `NoStalePointer`, `OneManager`, `ToldOnce`, `ToldSoon`, `RemovedUnused` | hold |

What the violated ones show (the findings of `PROJECT.json`):

* `variable_two_copies`: two interrupted updates of one variable leave two copies in
  transition. `FindVariableEx` returns the last of them and does not tell of the other, so
  `SetVariable` deletes or replaces one only; the older value is found afterwards although
  the call returned `EFI_SUCCESS`.
* `smm_startup_race`: in relaxed mode, the setting of BeniPkg, a processor that becomes
  present between the loops of `InternalSmmStartupAllAPs` is released by the last one
  without the BUSY lock and without a procedure.

Constants of the modules reach further cases in which a property does not hold. They are
not kept as runs, but are worth knowing:

* `UnmaskedDispatched` (`DxeEvent`): the comment of `CoreRestoreTpl` says that events which
  the new priority unmasks are dispatched. A tick between its last look at
  `gEventPending` and its exit, after a dispatch has turned the interrupts on, queues the
  level-30 event and the call returns with it pending. The next `RestoreTPL` runs it
  (`QueuedIsNotified` holds), so the cost is a delay of up to a tick.
* `ReloadPending = TRUE` (`DxeEvent`) violates `LevelValid`: with two reads of
  `gEventPending`, `HighBitSet64 (0)` = -1 becomes the task priority.
* A `TIME` that the arguments reach (`DxeTimer`) violates `CheckTimersEnds`: a periodic
  timer with a period near `MAX_UINT64` keeps `CoreCheckTimers` busy for ever. The same
  wrap makes a one-shot timer expire at once (`NotEarly`).
* `AllocSizes = {1, 2}` (`Ftw`) violates `SpaceAllocated`: `FtwAllocate` uses an offset from
  before the reclaim (`FaultTolerantWrite.c:110`).
* `AllocSizes = {2}` violates `WritesErased`: a record of a multi-write header is programmed
  twice without an erase.
* `FvbErrors = TRUE` violates `AtomicWrites`: a failed reclaim leaves a working block that
  later services trust.

## 4. Bounds

* `event_core`: the timer event, the idle event and two members of one group at levels
  8 and 16; clients raise to 16 and 31; a notification function makes one call
  (`MaxCalls`); stack of at most 20 records (`MaxStack`), which the run does not reach
  outside deep nesting. Three levels above the application give every nesting order:
  below, equal, above; a group with two levels gives re-queueing during a dispatch.
* `event_wait`: one wait event and one plain event in the list, so that there is an
  event before and one behind the index.
* `timer`: two timers, delays 0 and 2, periods 1 and 2, ticks of 1 and 2 units, clock up to
  3 (`MaxTime`); 555,589 states. The clock stands still at its bound while ticks go on, so timers that
  are due by then must still be taken. A tick of 2 makes a timer of period 1 late by
  two periods.
* `ftw_power`: two blocks, two values, five cells: two headers fit, the third write
  reclaims. Losses of power are not bounded. `ftw_recovers` has six cells for headers of
  two records, `ftw_faults` four.
* `variable`: two names, two values (symmetric), a store of six cells, that is three
  variables, of which a runtime caller may fill five: with two live variables every update
  is at the limit. Calls, boots, losses of power and failed writes are not bounded; the store
  is. The fault tolerant write may fail at each of its five places. 1,142,454 states. A
  constraint (`Followed`) ends a behaviour where little is promised any more: when a name has
  two copies in transition, when no name is sound, and when the boot after an unsafe
  update has read the store. What comes later is covered by the proofs, and by two larger
  instances: 1.5 million states without the second half of the constraint, in five cells, and
  5 million up to the first name with two copies, in six.
* `smm_three`: three processors, so that there is an AP in the handler, one that comes late
  and one that leads; one scheduled procedure per SMI (`MaxCalls`), traditional mode with
  MTRRs and relaxed mode without. `smm_live`: two processors, two procedures, every
  mode and election. `Top` = 15 stands for the largest `UINT32`; it has to be larger than
  the number of processors.
* `hand`: two handles, two protocols of which one is watched, two interfaces at a time
  (`MaxProt`), calls nested two deep (`MaxDepth`), a driver that manages and an application
  that opens exclusively; handles are symmetric. Two structures are enough for one to be
  removed before, at or behind a `Position`. 1,310,287 states.

## 5. Fairness

* Events: the code on top of the stack runs on (weak fairness of `Core`),
  notification functions return and clients lower what they raised (`Unwind`); a
  pending tick is taken once interrupts are on (the interrupt controller holds it),
  and ticks are far enough apart that interrupted code gets on between them. Without
  the last assumption a firmware whose handler takes longer than a tick would starve.
* Timers: the lock holder runs on between ticks, the check event is dispatched (from
  `QueuedIsNotified`), ticks keep coming (the 8254 is periodic).
* Fault tolerant write: the driver runs while there is power, power comes back, and
  in the end stays. No bound on how often it fails before.
* SMM: every processor keeps executing (weak fairness of its `Step`); the way out, which
  polls `AllCpusInSync`, is strongly fair: the poll is shorter than the way of the other
  processors out of SMM and back into it, so it does not miss the flag for ever.
* `Variable` and `Hand` state safety only.

## 6. Proofs

The theorems hold for every value of the constants that meets the assumptions of the
module (any number of events, timers, processors, handles, variables; any stack bound or store size). Where a
theorem needs more, the table says so; sections 2 and 3 say what fails without it. Each
invariant was checked with TLC before it was proved.

| theorem | states | needs |
|---|---|---|
| `DxeEvent_proofs!TypeCorrect`, `PrioritiesExclude`, `LevelsRestored` | `TypeOK`, `TplExclusion`, `LevelsKept` | `~ReloadPending` |
| `DxeQueue_proofs!QueuesStaySound`, `NoSignalLost` | `QueuesSound`, `SignalNotLost` | `~ReloadPending` |
| `DxeQueue_proofs!NoFreedEventUsed` | `NoStaleEvent` | `~ReloadPending`, `Disciplined` |
| `DxeTimer_proofs!TimerListCorrect` | `TimerListOK` | |
| `DxeTimer_proofs!NoTimerEarly` | `NotEarly` | `NoWrap` |
| `Variable_proofs!TypeCorrect`, `MemoryInSync`, `UpdatesAreDurable`, `CallsKeepTheirWord` | `TypeOK`, `CacheInSync`, `Durable`, `StatusTruth` | |
| `Variable_proofs!UpdatesAreAtomic` | an action property: the values in flash of sound names change one at a time, as a whole | |
| `Variable_proofs!SafeWithoutFtwErrors` | no name becomes `unsafe`, nothing is written over a torn header | `FtwErrors = {}` |
| `Variable_proofs!EnumerationIsComplete` | `EnumerationComplete` | `VolatilePresent` |
| `Ftw_proofs!AllocationsHold`, `BootsRecover` | `SpaceAllocated`, `BootRecovered` | `OneWrite` |
| `Ftw_proofs!ClientsFindTheirBlocks`, `CellsWrittenErased`, `WritesAreAtomic` | `Recovered`, `WritesErased`, `AtomicWrites` (a refinement) | `OneWrite`, `~FvbErrors`, `~LookupFails` |
| `SmmSync_proofs!OneBspAtATime`, `ApsCountedExactly`, `SemaphoresConsumed`, `BusyWhileRunning` | `OneBsp`, `CountExact`, `RunConsumed`, `BusyHeld` | `Prompt`, `~LateBroadcast` |
| `SmmDuties_proofs!NoNormalCodeBeside`, `MtrrsRestored`, `EveryTaskFinished`, `RendezvousTypes` | `NoNormalCode`, `MtrrsKept`, `TasksFinished`, `TypeOK` | `Prompt`, `~LateBroadcast` |
| `Hand_proofs!TheListsAgree`, `RegistrationsToldOnce`, `RegistrationsToldSoon` | `ListsAgree`, `ToldOnce`, `ToldSoon` | |
| `Hand_proofs!NothingStale`, `OnlyUnusedRemoved` | `NoStalePointer`, `RemovedUnused` (an action property) | `OwnersWait` |
| `Hand_proofs!OneManagerAtATime` | `OneManager` | `~NestedExclusive` |

### Levels (`DxeEvent_proofs`)

`TplExclusion` is not inductive: whether a dispatch is legal depends on the levels of
*all* records below it, and on what an unfinished `CoreRestoreTpl` will restore. The
inductive invariant (`InductiveInvariant`) says of each record on the stack how its
level compares with that of the record under it: a client sits on a dispatch of its own
level, a dispatch sits on a `CoreRestoreTpl` whose `NewTpl` is lower, a
`CoreRestoreTpl` restores the level its caller holds, an interrupt remembers the level
it found. From that chain the levels of the clients rise strictly along the stack,
which is `TplExclusion`. The proof has one step per action and lemmas for pushing,
popping and replacing the top record. The assumption `~ReloadPending` is needed: without
it even the type of the level is lost (`LevelValid`, section 3).

### Queues and signals (`DxeQueue_proofs`)

`SignalNotLost` is not inductive: `CoreNotifySignalList` stands for the event it was
called for until it ends, and may only end because it has met that event on the way.
`SignalInv` therefore adds that `gEventSignalQueue` holds exactly the existing
`EVT_NOTIFY_SIGNAL` events, once each, but for those `CoreCloseEvent` has unlinked and not
yet freed (`Linked`), and that the running `CoreNotifySignalList`, which holds the lock,
has queued every member of the group it has walked past (`Walked`). It needs no discipline
of the clients.

`NoStaleEvent` does. `LiveInv` says that no other call in progress refers to an event that
is being closed, that a queued event is not one that has been unlinked, and that a
dispatcher which has dequeued an event runs at the event's level with no client directly
above it. The last part is what the discipline is for: whoever closes the event at its
level or below cannot be above such a dispatcher, because the levels rise
(`NoDispatcherBelow`, from the invariant of `DxeEvent_proofs`).

### Timers (`DxeTimer_proofs`)

`TimerListOK` with what the holder of `mEfiTimerLock` has read and is about to do: between
the steps of `CoreSetTimer` and `CoreCheckTimers` the event at hand is off the list, or at
its head. The part about closed events is inductive with the event in hand: a timer that
`CoreSetTimer` or `CoreCheckTimers` holds is of an event that is not closed, or in `rearmed`,
which only `ClientSetTimer` extends. `NotEarly` follows from an invariant that relates each entry's `TriggerTime` to
the time its arguments asked for, as long as no sum wraps at `TIME` (`NoWrap`).

### Variable store (`Variable_proofs`)

`MemoryInv` is about the copy in memory: the cache is the flash, except between the header
and the `ADDED` state of a new variable, when the flash is one incomplete variable ahead;
the totals are the size of the cache; the room for the variable was checked before its
header; the pointers of the call point to variables of its name. `RiskOK`, a part of it,
says what may be damaged: every garbled header is of an unsafe name, and a call under way
while a spare block waits or the free area is not free is of an unsafe name too. It gives
`TypeOK` and `CacheInSync`.

`Durable` is not inductive: a value that is found now may be found only because of a copy
that the next step deletes. `ValueInv` says for every sound name which `ADDED`
and which `IN_DELETED_TRANSITION` variables it has and which of them holds its value:
`Settled` between calls, and at the places of a call `Found`, `Replaced` (the old variable
is in transition, the new one not complete) and `Superseded` (the new one is complete, the
old ones not deleted yet). Two lemmas carry the hard cases. `LiveSettled`, on top of
`RankFacts`, `PickFacts` and `LiveFacts`, says that `Reclaim` copies each variable it keeps
once, as `ADDED`, so a settled name stays settled with its value. `CallSettles` says that a
call interrupted anywhere leaves its name settled, or with two copies in transition and so
in `doubled`: for `doubled` the exception in `Durable` is exactly the finding of section 3, no
more. The same is said of a spare block that waits (`SpareOK`): it is settled with the
contents `spared`, which differ from `committed` in the aborted update at most. So the replay
at the next boot leads from one settled store to another (`ValueCommonInitialize`), and
each outcome of a failed write (`ValueFtw`, `ValueFails`) leaves one of the two in the flash.
`StatusTruth` follows with what a call had brought about when it returned, and
`UpdatesAreAtomic` from `Durable` before and after each step.

For `EnumerationComplete` three things come together. `DataInv`, inductive with `MemoryInv`,
says that every variable that counts has data, so that a name that is found has a value.
For a settled name `GetNextVariableName` returns exactly what `FindVariableEx` finds
(`ReturnedIsFound`), so the search from behind it goes on where it was. And a walk that goes
from each position to the next of a set meets every one of them once (`StepsRise`,
`StepsMeetAll`): had it missed one, it would stay below it for as many steps as there are
positions. `Enumerated` is a recursive function, whose existence is shown by a least
counterexample (`VisitsExist`).

### Fault tolerant write (`Ftw_proofs`)

`FtwInv` has three parts: the types, `FlashOK` and `Place`.

`FlashOK` is what every loss of power leaves behind. From the last header on the work space
is erased (`Free`), or holds one open header and its record (`Held`, with the state bits of
the record). Without flash errors a block's contents are in the block, or in the spare block
with a record that has SpareComplete and not DestinationComplete. So there is always one
place that recovery may read from, and no step erases it.

`Place` says where the driver is. `todo` is what is left of a nest of functions, so a place
is written as a function from one of its steps on, followed by what its caller goes on with:
`Flush2(f)` is `FlushSpareBlockToWorkingBlock` from its second step on, then `f`. The callers
are finitely many although the programs they build look arbitrary, because reclaim, refresh
and abort call one another to a bounded depth. Each place says what the flash and the two
pointers are there; `Meets` collects what the next step needs of it. Each function is then
shown once to lead from one of its places to the next (`KeepFlushing`, `KeepCopying`, ...)
and not once per caller; a loss of power leads from any place to `Outside`.

`FtwGetLastWriteHeader` walks the headers recursively. `WalkExists` shows by a least
counterexample that the walk is a function, and from it come the equations that the rest of
the proof uses: what completing a header, adding one or erasing the block does to where
the walk ends.

`AtomicWrites` follows step by step: only setting SpareComplete changes what a block
logically holds, and the steps that then copy, restart or abort change nothing.

`OneWrite` (`AllocSizes` holds 1 only) is what the clients in the repository do: the variable
driver's `FtwVariableSpace` lets `FtwWrite` allocate one write. Without it, and for the last
three theorems without `~FvbErrors`, the properties fail (section 3). With `LookupFails` a
restart is skipped and the contents in the spare block are given up, as in the code.
`BootsRecover` and `AllocationsHold` hold with flash errors and failed lookups.

### SMM rendezvous (`SmmSync_proofs`, `SmmDuties_proofs`)

`CountExact` alone says nothing of a barrier. The invariant has one clause per place of the
BSP: where the APs can then be, what is left in each `Run` semaphore, which signals are
still to be collected, and what `Counter` counts. Its parts are named for the barrier they
belong to (met, signalled, released). `SmmDuties_proofs` adds the SMIs that are latched
while the processors gather, whose MTRRs each processor has saved, and that a token counts
its holders while `SmmStartupAllAPs` hands out procedures. `Prompt` is needed for the count,
`~LateBroadcast` for the BUSY locks.

### Handles and protocols (`Hand_proofs`)

`DatabaseInv` needs no discipline of the callers (up to the first use of something freed,
section 2): the lists of handles and protocols mirror each other, each registration's `Position` is on the list of its protocol and splits it into what was
and was not told, and the calls in progress have the shape their place calls for.
`NoStalePointer` is a matter of the callers. `OwnersInv` says that no two calls in
progress are at work on one interface, that each still finds the interface it waits with,
once it has looked it up, and that a call which has yet to take the lock finds its handle:
its interface is there and keeps the handle, or it is not, and no uninstall of anything
on that handle has been begun above it (`Guarded`). For `OneManager` the strengthening is that a waiting exclusive open is the outermost
call, so that no other one has been granted meanwhile.

### Only model-checked

* Liveness: `QueuedIsNotified`, `WaitNotices`, `ExpiredIsTaken`, `CheckTimersEnds`,
  `Recovers`, `SmiServed`, `EveryoneLeaves`. Out of the prover's reach.
* `Ftw`: `AtomicWrites` for headers with several records (run `ftw_recovers`). The layout in
  the proofs (`Held`) has one record after the last header; the other properties do not
  hold with more (section 3).

## 7. Not modelled

The components with status `not_modelled` in `PROJECT.json`, with the reason. In short:
the memory services, SMM core and PEI core are sequential and mostly about addresses;
device drivers, the SMM marshalling of FTW and the counter programming of the timer
drivers are I/O; the network stack, shell, build tools and vendored libraries are
outside the firmware core. BeniPkg's drivers and tests are clients of the services.

Of the components that are modelled in part:

* *fault tolerant write*: the boot block path and the swap protocol, targets inside the
  working block, torn header cells;
* *variables*: the volatile and HOB stores, hardware error records, the quota of user
  variables, append writes, authentication, variable lock and check, emulated non-volatile
  mode, the runtime cache, SMM marshalling, and flash errors outside the fault tolerant
  write (`Variable.c:2112` returns with a header programmed and the offset not advanced) and
  in the replay at boot;
* *SMM rendezvous*: `SwitchBsp` and `CandidateBsp`, hot plug, LMCE, blocked or SMI-disabled
  processors, the debug agent, the SMM profile;
* *handle database*: the multiple-interface services and their roll-back,
  `LocateDevicePath`, the database key, the order in which drivers are tried, `OpenCount`
  and the `ControllerHandle` of open entries;
* *events*: a bound on nested ticks with a driver such as `HpetTimer.c`, which acknowledges
  the interrupt before it restores the level. It depends on the speed of notification
  functions, which the model does not have; the proofs hold with nested ticks.

## 8. Plan

1. Proofs: the refinement of `Ftw` for headers with several records, with a `Held` that has
   one state per record.
2. An abstract specification for `Variable` that also promises the status of a call, and
   the refinement for `Sound` names; `UpdatesAreAtomic` is its safety part.
3. `Depex` and the dispatcher: evaluation of dependency expressions against a reference
   definition, and progress of the scheduling loop.
4. The MP services: the state machine of a processor, time-outs and late processors.
5. The SMM core: SMI handler lists that change while they are walked (`Smi.c`).
