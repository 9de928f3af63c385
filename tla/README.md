# Verification of the virtual NVMe controller emulator

TLA+ models, TLC configurations and TLAPS proofs for the Windows NVMe controller
emulator in `src/`: a KMDF bus driver (`src/vnvme`) that exposes virtual NVMe
controllers to the inbox `stornvme` driver, and a user-mode service
(`src/vnvme-server`) that executes their commands out of memory it shares with the
driver.

The three hard parts of the system are the lock-free hand-over between the two
processes, what happens to commands when the service stalls or dies, and the queue
bookkeeping that every other loop relies on.  Around them lie two command processors, one
in the driver and one in the service, each with its own queue tables, I/O commands and
storage backends.

## 1. Inventory

| Component | State | Operations | Interacts with | What is hard | What makes it correct |
|---|---|---|---|---|---|
| Notification ring (`user_forward.c`, `shm.c`, `command_engine.c`) | `Head`, `Tail`, `Entries` in shared memory; locals of both ends | `NotifyRingPush`, `CmdEnginePoll` | timers of all controllers push, the service walks | no lock, write order, full/empty, service dies in the middle of a walk | a bounded FIFO, whole entries, refusal only when full |
| Admin command path (`doorbell.c`, `user_forward.c`, `queue.c`, `command_engine.c`) | `Doorbells[0]`, `LastAdminSqTail`, `AdminSQ`, `AdminCQ`, phase copies, CC and CSTS | polling timer callback, forward, abort, poll, execute, post | host by doorbell and phase bit; driver and service by the ring and the queue descriptors | batched notifications, wraps, phase, abort against a service that is still running | exactly one completion per command, in order; none lost on a mode switch |
| Heartbeat and registration (`ctrl_dev.c`, `driver_comm.c`, `doorbell.c`) | `UserReady`, `UserCrashed`, `CommandMode`, `LastHeartbeat` | `USER_READY`, `HEARTBEAT`, `CheckUserModeHeartbeat` | decides whether commands go to the service or to the kernel handlers | timeout against a live but slow service; restart | a service that runs is given commands |
| Driver's admin handlers (`admin_cmd.c`) | `IoSq`, `IoCq`, `IoQueueCount`, `MaxIoQueues`, `AerCids` | Create/Delete I/O SQ/CQ, Set/Get Features, AER, Identify, Get Log Page, Abort, Keep Alive | doorbell scan, abort and heartbeat loop over `1 .. IoQueueCount` | order of creation and deletion, gaps in the numbering, 16-bit sizes | every SQ has its CQ, no queue is skipped, no parked AER is doubled, overrun or lost in the array |
| Queue manager (`queue.c`) | the same tables and `Head`/`Tail`/`Phase` of each queue, twice: in the driver's context and in shared memory | create, delete, fetch, post, batches | called by doorbell and command code | second set of bookkeeping rules for the same tables; two copies of every index | the copies of what both sides read agree; a command is fetched once, a completion never overwrites an unread one |
| I/O forwarding and completion (`doorbell.c`, `user_forward.c`, `io_cmd.c`) | I/O queue descriptors in shared memory | doorbell scan, forward, process in kernel mode, I/O abort | ring, service | the abort moves heads that the kernel path has its own copy of; queues deleted under their commands | each forwarded command completed once and in order |
| Service's admin handlers (`admin_commands.c`) | the service's own queue tables, features | as the driver's | data buffer in shared memory | two implementations of one protocol; answers that do not say what happened | the host knows the queues that exist |
| Service's I/O commands and backends (`io_commands.c`, `backend_*.c`) | a file or a memory block, data buffer | Read, Write, Write Zeroes, Flush, DSM | data buffer, completion queues | writes that fail or die half-way, restart with another size; one data buffer and one completion slot for a whole batch | reads return the last answered write; read-only stays so |
| Driver's I/O commands, PRP, backends (`io_cmd.c`, `prp.c`, `storage*.c`) | namespace contents, open files | Read, Write, Flush, Compare, Write Zeroes, DSM | host memory through PRPs | 64-bit and 16-bit wrap-around, PRP lists, storage destroyed during I/O | data at the right place in host memory and in the store |
| Control device and bus (`ctrl_dev.c`, `bus.c`, `vnvme.c`, `shm.c`) | `g_FdoContext`, list of controllers and `ChildDeviceCount`, namespaces and their storages, the shared memory's mapping | IOCTLs: create, delete, query, map, event; PnP and power callbacks of the FDO | IOCTL queue is sequential, PnP and timers run beside it | look up under a lock, use after it; roll-back of half-made objects; power-down and removal against a running handler | no use after deletion, counters agree with the lists, one owner per storage, power-down waits and ends |
| Configuration and adaptive polling (`config.c`, `doorbell.c`) | `g_Config`, polling interval | registry load, `SET_CONFIG`, `AdjustPollingInterval` | read by every timer tick | values changed between two reads, limits | always inside the documented ranges |
| BAR0, PCIe configuration space (`bar0.c`, `pcie_config.c`, `pdo.c`) | register images | register reads, CC handling | host | mostly constant data | |
| `vnvmectl`, logging, debug output, configuration files | | | | text | |

`PROJECT.json` lists the same components with their status, and under `hazards` every
place in the code where one of these difficulties bites, with the property that covers
it or the reason why none does yet.

## 2. Modules

| Module | Models | Lines of code it stands for |
|---|---|---|
| `NotifyQueue` | what the ring promises: a bounded FIFO, at-least-once after a crash | abstract |
| `NotifyRing` | the ring, one memory access per step | `NotifyRingPush`, ring set-up in `VnvmeAllocateShm`, the walk of `CmdEnginePoll` |
| `NotifyRing_proofs` | theorems about `NotifyRing` | |
| `AdminPath` | one controller's admin queue from doorbell to completion; heartbeat, abort, restart | polling timer, `CheckUserModeHeartbeat`, `VnvmeAbortPendingUserCommands` (admin half), `VnvmeProcessDoorbells` (admin half), `VnvmeForwardAdminCommandsToUser`, `CmdEnginePoll` and the admin half of the engine, `main`, `USER_READY`, `HEARTBEAT` |
| `AdminPath_proofs` | theorems about `AdminPath` | |
| `QueueTable` | what NVMe asks of the queue tables | abstract |
| `KernelQueues` | the driver's admin handlers and the I/O half of the doorbell scan | `admin_cmd.c`, the loop of `VnvmeProcessDoorbells` |
| `KernelQueues_proofs` | theorems about `KernelQueues` | |
| `ControlDevice` | the FDO's life, the IOCTL queue, controllers, namespaces, storages, the shared memory's mapping | `vnvme.c`, `bus.c`, `ctrl_dev.c` (create, delete, list, map), `VnvmeMapShmToUser`, `VnvmeUnmapShmFromUser`, `VnvmeFreeShm`, `VnvmeStorageDestroy` |
| `ControlDevice_proofs` | theorems about `ControlDevice` | |
| `IoQueues` | I/O queues: the queue manager, the doorbell scan, forwarding, kernel processing, abort | `queue.c` without its batch forms, the I/O halves of `doorbell.c` and `user_forward.c`, `VnvmeProcessIoCommands` |
| `IoQueues_proofs` | theorems about `IoQueues` | |
| `Counters` | lemmas about natural numbers: induction over a set, iteration of a function, and the place and phase of a counter in a circular queue | |
| `Words` | numbers of fixed width | |
| `PrpList` | PRP fields to pieces of host memory, as functions | `prp.c` |
| `Storage` | the driver's storage backends, as functions on bytes | `storage.c`, `storage_memory.c`, `storage_file.c` |
| `DriverIo` | the driver's I/O commands over `PrpList` and `Storage` | `io_cmd.c`, the range macros of `vnvme_utils.h` |
| `DriverIo_proofs` | theorems about `DriverIo` | |
| `Backend` | the service's storage backends, as functions on bytes | `backend_common.c`, `backend_memory.c`, `backend_file.c` |
| `ServerCommands` | the service's admin and I/O commands over `Backend`, start and end of the process | `admin_commands.c`, `io_commands.c`, `CmdEngineInitSimple`, `CmdEngineProcessAdminCommand`, `main` |
| `ServerCommands_proofs` | theorems about `ServerCommands` | |
| `MCNotifyRing`, `MCAdminPath`, `MCKernelQueues`, `MCControlDevice`, `MCIoQueues`, `MCDriverIo`, `MCServerCommands` | instances for TLC | |

Composition: `NotifyRing` implements `NotifyQueue`, and `AdminPath` uses the ring through
that abstract behaviour (a sequence that is taken in order and released at the end of a
poll), so that the interleavings of single memory accesses are explored once, in
`NotifyRing`.  `KernelQueues` implements `QueueTable`.  The service's handlers do not (they
delete a completion queue under its submission queues), so they are held against what the
host was told instead.  `DriverIo` is composed of `PrpList` and `Storage`, `ServerCommands` of
the command tables and `Backend`; `IoQueues` takes from `DriverIo` only that a command is
answered once.

The exact source lines of each definition are in `PROJECT.json` under `map`.

### NotifyRing

A push is four steps: read `Tail`; compare with `Head` and, if there is room, write the
entry's `QueueId` (otherwise give up); write its `Index`; after the barrier store `Tail`.
`PushReadTail`, `PushFull`, `PushWriteQueueId`, `PushWriteIndex` and `PushPublish` are
these steps for producer `p`; between any two of them every other process may run.
A poll reads `Head` and `Tail` once (`PollBegin`), handles the entries between them one by
one (`PollTake`) and stores `Head` (`PollEnd`).  `ServiceRestart` loses the locals of a
poll that is under way.  Entries keep `QueueId` and `Index` (`Type` is always 0).  The
write barrier is modelled by the order of the steps; a mutant removes it.

### AdminPath

One variable per owner: `host` (external: `stornvme`), `ctrl` (the controller's context),
`timer` and `abort` (program counter and locals of the timer callback), `fdo`, `shm` (the
admin queue descriptors in shared memory), `sq` and `cq` (the slots), `queue` (the ring)
and `service` (program counter and locals of the engine).  Commands are told apart by
their CID only; what they do is the business of the handler modules.  `forwarded`,
`posted` and `refused` are history.

The timer callback is `TimerDetectsCrash` or `TimerFindsServiceAlive`, then one `AbortOne`
per pending command and `AbortEnd`, then `TimerDoorbells`.  `TimerDoorbells` is one step:
what it reads and writes is shared with the host (one doorbell, one CC) and with the
service (the ring, whose atomicity `NotifyRing` justifies, and `AdminSQ.Tail`, which the
engine does not read).  The engine is `PollBegin`, then for each notification
`TakeNotification`, for each command `ExecuteCommand` and `PostAdvance`, and `StoreHead`;
`PollEnd` releases the ring.

Three facts of the code shape the model:

* `PollingEnabled` is tested and assigned nowhere, so the callback does not re-arm its
  timer: a controller enabled after the single tick of a D0 entry never becomes ready,
  although the comment there (doorbell.c:247) says the timer is re-armed.  Further ticks come from D0 exit and entry, which the model
  allows at any time; a driver that did re-arm would have a subset of these behaviours
  with the same ticks.
* The service sends `USER_READY` and `HEARTBEAT` without the buffers the handlers require,
  so it never registers (`SendsBuffers = FALSE`; driver_comm.c:201 against ctrl_dev.c:590 and
  645).  The runs take `SendsBuffers = TRUE`: they show what the rest of the path does once
  registration works.
* `AdminSQ.Valid` is never 1, so that in kernel mode `VnvmeFetchCommand` returns
  `STATUS_INVALID_DEVICE_STATE` and no command is executed: `TimerDoorbells` only remembers
  the new tail.

`HonoursSqhd` chooses between two hosts: one that reuses an SQ slot as soon as the
command in it is completed, and one that waits for the SQ head pointer in a completion.
(The engine puts into every completion of a batch the head from before the batch, so that
the second host always sees fewer free slots than there are.)

### KernelQueues

One action per admin command, with the status the handler answers in `answer`; its error
paths are the alternatives of the `...Status` operators, in the order of the code's checks.
`QSize` increments the 0-based size field in 16 bits.  Commands that only read are the
action `HandleReadOnly`.  `HostRings` and `ScanIoDoorbells` are the doorbells of the I/O
queues and the loop over them.  Until `AdminSQ.Valid` is set somewhere these handlers are
not reached; `VnvmeCompleteAer` has no caller at all.  They are modelled as the code
intends to call them.

`VnvmeCompleteAer` takes the oldest request out of `AerCids` and then returns what
`PostSuccessCompletion` returns, which is an error when there is no shared memory or the admin
completion queue is not valid.  `Post` has both outcomes; after the second the request is neither
parked nor answered, and nobody tries again (`lost`).  `AersAreWaitedFor` says that this is the only
way to lose one: what is parked is exactly what the host waits for and was not lost that way.

### ControlDevice

`device` is how far PnP and power management have taken the FDO; each of the FDO's callbacks
is an action, D0Exit two: `D0Exit` stops the queue, and `D0ExitDrained` is its return, once no
handler runs.  `RemoveDevice` is the framework's (external).  A request is `Submit`ted,
`Dispatch`ed when the queue is started and no other request is with the driver, and then its
handler runs: `CreateReserve`, `CreatePdo`, `InsertPdo`; `DeleteUnlink`, `DeletePdo`;
`CtrlDevFindController` and then `CreateNamespace`, `DeleteNamespace` or `ListNamespaces`; or
`MapShm`.  A handler is cut where it releases `ChildDeviceListLock` and keeps a pointer or a
reservation, so that the order of two handlers is a consequence of the queue's dispatch type
and not of the model: the mutant with parallel dispatch breaks `NoUseAfterDelete`.

Failures are alternatives of the actions: a device add whose control device cannot be created,
a failed allocation of the shared memory, a PDO that cannot be created, a storage that cannot
be allocated or whose file is open already, an MDL or a mapping that cannot be made.  The
capacity computation keeps its width (`Wrap` for 2^64), as does the id counter (`IdWidth` for
2^32).  `orphaned` is history: the storages of namespaces whose controller was deleted.
Nothing destroys them, so `StorageHasOneOwner` says what the code does: apart from these no
storage is lost or shared.

A handler that finds `g_FdoContext` dangling is not continued: what it does to freed memory
has no model.  That this can happen is the run `stale_context`.  The polling timers and the
I/O they do on a namespace's storage are not part of this module.

### IoQueues

Every index exists twice, in the driver's tables (`IoSq`, `IoCq`) and in the descriptors in
shared memory (`sqDesc`, `cqDesc`), and each function of the code updates the two in its own
way: `VnvmePostCompletion` starts from the driver's phase, the abort from the descriptor's.
`TablesAgree` says which of them are copies of each other: existence, sizes, the tail and phase of a
completion queue always, the head of a submission queue until the abort of a crashed service.  The
abort moves `sqDesc.Head` alone (user_forward.c:446-453), and from then on `VnvmeProcessIoCommands`
counts from `IoSq.Head` (io_cmd.c:869) what `VnvmeFetchCommand` takes at `sqDesc.Head`; that no
forwarded command is lost or answered twice all the same is `ForwardedIsAccountedFor`.  The tails of
a submission queue are no copies: `IoSq.Tail` is the doorbell last seen, `sqDesc.Tail` the one last
forwarded.
An action is one call: everything here runs in the timer callback, and the service, which
reads no I/O queue, never writes the descriptors.  `host` is `stornvme` (external), which
respects the size of both queues, because nothing in the driver looks whether a completion
queue is full.  `owed` is history.

Nothing calls the queue manager's create and delete functions yet, and only the kernel path
calls fetch and post; the callers are external (`FetchAndPost`).  Two constants say what the
code relies on: `Paired` (the comment in `VnvmeDeleteIoCompletionQueue` assumes that a
submission queue posts to the completion queue of its number) and `Rewound` (a submission
queue is created only where the doorbell is 0).  `Rewound` is a precondition on the external
caller: it is true of the first creation of every queue, and no function of the driver makes it true
again after a deletion.  With `Rewound = FALSE` the scan takes the
doorbell of the deleted predecessor for new commands (doorbell.c:358), and
`TypeOK`, `ReapedOnceInOrder` and `ForwardedIsAccountedFor` fail.  None of the theorems needs
`Paired`: what the model's host looks for in completion queue `q` is what submission queue `q`
was given.

Facts of the code that the model has and no property contradicts: in kernel mode nobody
writes `sqDesc.Tail`, so commands rung there are never fetched, although the comment of
`VnvmeProcessIoCommands` (io_cmd.c:843) says all pending commands are processed; this is why
`ForwardedIsAccountedFor` speaks of forwarded commands.  `IoQueueCount` is a count but is
used as the highest number, so a gap in the numbers hides the queues above it from the scan
and the abort.  Left out: the batch functions and `VnvmeProcessUserCompletions` (no caller),
`IoCq.Head` (never read).

### DriverIo, PrpList, Storage

A store and the host's memory are modelled byte by byte with small blocks and pages; the host
memory at address `a` holds the value `a`, so that a byte of a store tells where it came from.
`VnvmeParsePrpList` turns the two PRP fields into entries, `CopyMap` is the copy loop over
them, with at most one entry that cannot be mapped; the backends return the set of their
possible outcomes, among them writes of which only the first blocks arrived.  A handler is
one step, since a controller's timer runs one command after the other.  `belief` is what the
host may conclude from the answers.

A PRP list.  The host keeps its list from `ListAt` to the end of that page, where `buf.room`
addresses fit; when there are more, the last of them is that of the page where the list goes on
(`NextList`).  The code maps at most one page (`ListPage` addresses, prp.c:178-182), reads as many
addresses as there are data pages all the same (prp.c:193), and takes every one of them for a data
page, the chain pointer too (prp.c:197-198).  `PrpListReads` is what it may read: the host's
addresses as far as they and the mapping go, and then any of `Strays`.  So with a list that goes on
in a second page data comes from, and goes to, pages the host did not mean, and the command
succeeds.  src/docs/architecture/core-mechanisms.md:550 shows a parser that follows the chain; this
one does not.  `ReadDelivers` and `CompareTells` therefore speak of lists inside one page
(`Followed`), and of a Write with a longer one `StoreIsAsTold` says only that it keeps to the blocks
it named (`belief` becomes `Anything` there).  The driver reports MDTS = 5, 128 KB (admin_cmd.c:103),
for which a page-aligned list is enough, and limits a transfer to 2 MB where it needs a temporary
buffer, but nothing limits one that goes straight to a memory backend; a list that begins near the
end of its page is cut at any length.  A read beyond the mapping may also fault and stop the system,
which ends the behaviour and has no state in the model.

The run stays clear of two places where the arithmetic of the code wraps, and each of them
refutes a property if it is let in: the largest 16-bit block count becomes 0 (io_cmd.c:95), a
Read of it succeeds and delivers nothing; and a start just below 2^64 passes
`VNVME_LBA_RANGE_VALID` (vnvme_utils.h:120).  Three more facts show in the model: an entry that
cannot be mapped is skipped and the command still succeeds (`ReadDelivers` and
`CompareTells` exempt it, and `belief` then knows nothing of the blocks); `CreateNew` is TRUE
in every call, so a file namespace starts empty although storage.c:7 calls the file backend
persistent; the length of a Dataset Management range is cut to 32 bits.  Left out: `ReadOnly`
of a storage context (never set), the statistics, a namespace without storage (not created by
any path), `VnvmeStorageDeallocate` and `VnvmeStorageGetStats` (no caller).

### ServerCommands, Backend

The process is `Start`ed with one of the storage configurations, answers commands and ends
between two of them (`End`) or in the middle of a write (`Change`); a file survives, memory
does not.  The commands of a batch follow each other without waiting for the host
(command_engine.c:451-456), admin and I/O commands in any order.  They share one data buffer: a Write
stores whatever it holds, Identify and Get Log Page leave their pages in it, and what a Read delivered
is there until the next command (`delivered` is that Read).  A log page clears the length asked
for, which is computed in 32 bits, and the SMART page sets bytes 1 to 5 (`SmartEnd`) whatever that
length is.

They share a completion slot, too: `IoCmdPostCompletion` always writes entry 0 of the completion queue,
with head 0 and a phase that never flips (io_commands.c:195-203), over the completion that is there.
`slot` is that entry, told by the submission queue it answers, and `newest` the one that should be
there.  That every command's answer reaches the host is false of this code, so it is not claimed:
`NewestAnswerStands` says that entry 0 answers the last command executed for that queue, so that no
answer goes to another queue or is dropped because its queue is gone.

`belief` is as above, `view` the queues and settings the host was told of.  `Orderly` is the host's discipline: it names only completion queues it has
created, and deletes the submission queues of a completion queue first.  The handlers do not
insist on it.  With `Orderly = FALSE` `HostViewAgrees` fails because Create I/O SQ on a
missing completion queue is answered with status 0 (admin_commands.c:460), and
`NewestAnswerStands` because Delete I/O CQ does not look for attached queues.

`CmdEnginePoll` does not reach the I/O handlers yet: its loop needs `sqInfo->descriptor`
(command_engine.c:444-446), which nothing in the service sets.  They are modelled as that loop would
call them.  A command
longer than the data buffer is answered with success and moves nothing; with the sizes of the
code that cannot happen.

## 3. Runs

| Run | Expected | Checks | What it shows |
|---|---|---|---|
| `ring` | pass | `TypeOK`, `NoTornRead`, `IsNotifyQueue`, `RefusesOnlyWhenFull`, `EveryAcceptedIsConsumed` | one controller: the ring is a bounded FIFO under every interleaving of the two ends and through crashes of the service |
| `ring_two_controllers` | violation | `IsNotifyQueue` | two controllers: two pushes that read the same `Tail` lose or mix notifications |
| `admin` | pass | `TypeOK`, `CompletedOnceInOrder`, `NeverRefused`, `AbortCoversForwarded`, `ForwardedIsReaped` | a service that may die between any two of its steps, or be late with its heartbeat and be taken for dead or heard again in time: until the crash is detected each command is completed exactly once and in order across the wrap of both queues; a ring of `2 * (Depth - 1)` entries never drops a notification; when the driver has switched to kernel mode after a death each forwarded command has a completion in the queue |
| `stall_lost_command` | violation | `AbortCoversAll` | a service that is alive but late: it completes commands beside the abort, the host is told to reuse a slot too early, and a forwarded command is never completed |
| `crash_double_completion` | violation | `NoDoubleCompletion` | a service that dies inside a batch: the abort completes its commands a second time |
| `restart` | violation | `RestartRecovers` | the mode never returns to user mode, so a restarted service is given nothing |
| `kernel_queues` | pass | `TypeOK`, `BoundCqExists`, `ScanReachesEveryQueue`, `AersAreWaitedFor`, `IsQueueTable` | the handlers implement the queue table in every order of commands; event requests are answered at most once and lost only when their completion cannot be posted |
| `control` | pass | `TypeOK`, `NoUseAfterDelete`, `DistinctIds`, `CountsAgree`, `StorageHasOneOwner`, `CapacityIsExact`, `MappingBacked`, `NoHandlerAfterD0Exit`, `D0ExitCompletes`, `QueuedIsDispatched` | the IOCTLs of two clients beside power-down, release, removal and re-adding of the device |
| `io_queues` | pass | `TypeOK`, `TablesAgree`, `ReapedOnceInOrder`, `ForwardedIsAccountedFor` | what both sides read of the queues agrees in its two copies, and every forwarded command is completed once and in order, over wraps, a crash with its abort, kernel mode, deletion and re-creation |
| `driver_io` | pass | `TypeOK`, `StoreIsAsTold`, `ReadDelivers`, `CompareTells` | data reaches the right bytes of the store and of the host's buffer through one page, two pages or a PRP list inside one page, on all three backends, also when a write fails half-way; with a list that goes on in a second page a Write still touches no block it did not name |
| `server` | pass | `TypeOK`, `HostViewAgrees`, `NewestAnswerStands`, `MediumIsAsTold`, `ReadFillsBuffer`, `ReadOnlyIsKept` | the service's queues are those the host was told of; entry 0 of a completion queue is its newest answer; the medium is what was answered, through failures, deaths and restarts with another size; a read-only file is not touched |
| `stale_context` | violation | `ContextIsValid` | the FDO is removed after a failed `PrepareHardware`; a handler then runs on a deleted context |

Each violation run is a disagreement between the code and a comment or document of the
repository; `findings` in `PROJECT.json` quotes the line.

### Bounds

* `NotifyRing`: `Size = 3` is the smallest ring that can hold two entries, so that a wrap,
  a full ring, an empty ring and a poll of several entries all occur; two queue numbers and
  two indexes make a mixed entry visible; two crashes allow a redelivery to be interrupted.
* `AdminPath`: `Depth = 4`, three outstanding commands; the fifth command is in the second lap of
  both queues, with the other phase.  `RingCapacity` is exactly `2 * (Depth - 1)`; the code has 255
  and 2 * 63.  A host that does not wait for SQHD (`HonoursSqhd = FALSE`) needs every entry: with
  one less TLC finds a refused notification.  One crash, at any step of the service, is detected
  once; a second one finds the driver in kernel mode.  `stall_lost_command` has `Depth = 5`, the
  smallest depth at which it fails: the late service needs a batch of two, and a slot must be
  reused while the abort is between two commands.
* `KernelQueues`: two queues and two event requests (three identifiers) reach every status;
  the size fields 0, 1 and 65535 are the two refused ones and the smallest legal one, with
  the real 16-bit width.
* `ControlDevice`: two clients, two controllers and two namespaces each are the smallest numbers
  for which ids and storages can collide; two storages run out, also through the leak; two id
  values wrap at the second creation.  Of the configurations with `TotalBlocks` 0, 5, 9 and
  block size 0, 3, 16 (`Wrap = 64`, sizes 2 and 16, limit 16) one is legal; the others are a
  size that is not allowed, no blocks, a capacity above the limit, and a product that wraps back
  below it.

* `IoQueues`: two queues of two or three entries, so that the two ends of a pair have
  different sizes and wrap at different times; three commands between two creations of a queue
  wrap both and turn the phase; a third queue number that is in the table and not configured.
* `DriverIo`: pages and blocks of two bytes and three blocks, so that a transfer has one, two,
  or more pages and begins inside one; a buffer with an address that is not valid; a transfer
  above the limit of the temporary buffer; chunks of one block, so that zeroing fails between
  chunks.  `Half = 4` and `Wide = 32` keep the wraps of 16-bit and 64-bit fields.  Two changing
  commands are enough for one to overlap another.  One buffer has three pages and room for one
  address in the page of its list, so that the list goes on elsewhere, with a chain pointer
  (`NextList`) that is the address of a page like any other; of the two `Strays` one is a valid address
  and one is not.
* `ServerCommands`: one completion queue with two submission queues, so that answers of different
  queues meet in one slot, and one number of no queue; log pages that fit the buffer, are longer
  than it, and wrap to nothing (`Long = 4`); files of one and two blocks, with
  and without preallocation, and read-only, so that a restart finds a file shorter and longer
  than it wants; chunks of one block; a start that wraps (31 of 32), which the service refuses.

Deadlock is checked in every run.

### Fairness

* The main loop of the service calls `CmdEnginePoll` at least every 100 ms: weak fairness of
  the engine's steps.  No fairness for `ServiceHeartbeat`, crashes or restarts.
* A timer that is armed fires, and its callback runs to its end: weak fairness of `Timer`.
  Nothing is assumed of `D0Entry` and `D0Exit`.
* A service that has been started sends `USER_READY`: `main` does so before its loop.
* In `ControlDevice`: the framework presents a request it may present, a handler runs to its
  end (it waits for nothing but a spin lock held for a bounded loop), and
  `WdfIoQueueStopSynchronously` returns when no request is with the driver.  Nothing is
  assumed of clients and of PnP.
* The host reaps a completion it can see.  It need not submit anything.

## 4. Proofs

`tlapm` checks `NotifyRing_proofs`, `AdminPath_proofs`, `KernelQueues_proofs`,
`ControlDevice_proofs`, `IoQueues_proofs`, `DriverIo_proofs`, `ServerCommands_proofs` and the lemmas in `Counters`;
every theorem holds for all values of the constants that satisfy the named assumptions of the module and the hypotheses
in its statement.

| Theorem | Statement | Argument |
|---|---|---|
| `NotifyRing_proofs!TypeCorrect` | `Spec => []TypeOK` | inductive as it stands; any number of producers |
| `SingleProducerNeverTears` | one producer: `Spec => []NoTornRead` | `TypeOK /\ TailIsMine`: the tail a push has read stays the ring's tail until the push stores the next one.  The slot at `Tail` is outside the window from `Head` to `Tail` wherever `Head` is |
| `SingleProducerRefusesOnlyWhenFull` | one producer: `Spec => RefusesOnlyWhenFull` | the same invariant: `Succ(tail) = Head` with `tail = Tail` means `Size - 1` entries |
| `SingleProducerImplementsNotifyQueue` | one producer: `Spec => IsNotifyQueue` | `RingInv` adds what a push has written so far and that its slot was free (`Written`), and that a walk stays between `Head` and the tail it read (`Walk`).  The queue is the window from `Head` to `Tail`: publishing appends to it, a take moves inside it, `PollEnd` cuts its front off, and a write to the slot at `Tail` is outside it |
| `AdminPath_proofs!TypeCorrect` | `Spec => []TypeOK` | inductive; the number of entries a poll still has to take is never more than the ring holds |
| `CompletedOnceInOrderCorrect` | `Spec => []CompletedOnceInOrder` | `Tracking`: counters that never wrap (commands done by the service, stored in `AdminSQ.Head`, seen by the timer, reaped by the host) determine every index, `Pos(k) = k % Depth`, and every phase, `Ph(k)`; the slots between two counters hold the commands of those numbers.  Neighbouring counters are less than `Depth` apart, so places determine counters |
| `NeverRefusedCorrect` | `~Restarts`: `Spec => []NeverRefused` | a notification in the ring that has not been taken announces a command no other one announces (`RingCount`), and those that were taken are of this poll: at most `2 * (Depth - 1)` in all |
| `AbortCoversForwardedCorrect` | `~Restarts`, `HonoursSqhd`: `Spec => []AbortCoversForwarded` | `Heads`: what the host knows of the SQ head is a head the service has stored, so no slot from that head on is reused; `Aborting`: the abort goes from there to the tail and completes the command in each slot, with the phase of its own copy of the queue.  That copy may be one lap behind the service's, and the two cases (`RightPhase`, `WrongPhase`) are kept apart: the property counts completions that are in the queue, not whether the host sees them.  `SwitchesMode`: only the end of an abort switches the mode |
| `KernelQueues_proofs!TypeCorrect` | `Spec => []TypeOK` | inductive; the size of a created queue is the one the status operator accepted |
| `CompletionsHaveAQueue`, `NoQueueIsSkipped` | `Spec => []BoundCqExists`, `Spec => []ScanReachesEveryQueue` | `TableInv`: both, with the types.  Types are needed because the handlers compare queue numbers that come from commands |
| `EventRequestsCorrect` | `Spec => []AersAreWaitedFor` | inductive with the types; the shift of the array is a `Tail`, the entries are distinct, and what a failed post leaves is `lost` |
| `ImplementsQueueTable` | `Spec => IsQueueTable` | under `TableInv` every action is a step of the table or leaves it alone |
| `NoUseAfterDeleteCorrect`, `DistinctIdsCorrect`, `NoHandlerAfterD0ExitCorrect` | `Spec => []NoUseAfterDelete`, and likewise | `Inv`: one handler at a time (`OneHandler`, from the dispatch type), which handlers hold a pointer and to what (`PointerShape`, `HeldPointers`: a found controller is listed, one under construction or deletion is live and not listed, a reserved id is still free), and how device, global pointer and queue go together (`Lifecycle`).  Without `OneHandler` a deletion could invalidate another handler's pointer |
| `CountsAgreeCorrect` | `Spec => []CountsAgree` | `ListCount`: `ChildDeviceCount` is the cardinality of the list plus that of `Building`, the handlers between reservation and insertion, which has at most one element by `OneHandler`; `NamespaceCounts`: slot by slot with `PdoChange`, the slot that `FirstFree` finds not being counted yet |
| `ControlDevice_proofs!TypeCorrect` | `Spec => []TypeOK` | from `Inv` and the two counts: that the unsigned counters do not step below 0 needs what they count |
| `CapacityIsExactCorrect` | `Spec => []CapacityIsExact` | `NoOverflow`: `total \div bs = blocks` with `total = (blocks * bs) % Wrap` forces `total = blocks * bs`; and the ways a step may change a slot (`PdoChange`) |
| `StorageHasOneOwnerCorrect` | `Spec => []StorageHasOneOwner` | `Ownership`: the same over all contexts, those that do not exist owning nothing |
| `MappingBackedCorrect` | `Spec => []MappingBacked` | inductive with the types |
| `TablesAgreeCorrect` | `Spec => []TablesAgree` | `SqInv`, `CqInv`: the agreement and which fields the records have.  Every post goes through `PostTo`, which writes both copies.  `HeadInv`: in user mode no step moves one copy of a submission queue's head alone; the abort does, and leaves user mode in the same step.  No type of the numbers is needed, hence nothing about the recursion of `PostAll` |
| `IoQueues_proofs!TypeCorrect`, `ReapedOnceInOrderCorrect`, `ForwardedIsAccountedForCorrect` | `Rewound`: `Spec => []TypeOK`, and likewise | `IInv` (`IInvCorrect`): for every queue there are the list `w` of the commands answered and the last commands taken (`h`), forwarded (`f`) and issued before the submission queue was created (`b`) such that every index is the place of a counter, every phase that of its lap, the completion queue holds the answers that are not reaped and everything up to a lap ahead has the other phase (`CqTracked`), the submission queue holds the commands from `h + 1` on (`SqTracked`), and `owed = Len(w) + (f - h)` (`Accounts`).  The host's limit makes neighbouring counters differ by less than a size.  A batch of answers (`PostAll`) is one after the other (`PostAllHolds`, by induction on their number); deleting a submission queue ends the run of `h`, and the next one starts at what was issued.  `CountInv`: `IoQueueCount` is the number of existing submission queues |
| `DriverIo_proofs!TypeCorrect` | `Unwrapped`: `Spec => []TypeOK` | part of `IoInv`, see the next row: the entries lie in pages that a PRP field, the list or a stray address names (`ParseLoose`, `Loose`), the copy loop takes bytes of these only, whichever entries cannot be mapped (`CopyIsStored`), and the rest of the temporary buffer is zero (`FillBufferIs`) |
| `StoreIsAsToldCorrect` | `Unwrapped`, `Counted`: `Spec => []StoreIsAsTold` | `Outcome`: whatever a backend operation leaves is the old contents with a part of the new data at the offset, and with all of it when it succeeds.  By induction on the chunks this holds of `WriteZeroChunks` and of `ZeroRange`, which are nested (`AllChunks`), and of the ranges of a Deallocate (`Trimmed`).  `Covers`: the entries `VnvmeParsePrpList` makes follow each other without a gap through the host's buffer, for one page, two, and a list that lies in one page, of which every address read is the host's (`ParseCovers`); so with every entry mapped byte `k` of the data is byte `k` of the buffer (`CopyIsWhole`).  With a longer list nothing is known of the data but where it is stored.  `Located`: a range that passes the check lies in the store |
| `ReadDeliversCorrect`, `CompareTellsCorrect` | `Unwrapped`, `Counted`: `Spec => []ReadDelivers`, and likewise | `IoInv` joins them to the two above: a Read that succeeds has read the named part of the store (`ReadIs`), and nothing happens before the host has taken the completion |
| `HostViewAgreesCorrect`, `NewestAnswerStandsCorrect` | `Orderly`: `Spec => []HostViewAgrees`, and likewise | `TableInv`: queue by queue, the host knows what is created, and every submission queue has its completion queue (`Attached`).  `Orderly` is used in exactly two places, the creation of a submission queue and the deletion of a completion queue.  With `Attached` the queue that `IoCmdPostCompletion` writes to is the one the host bound the submission queue to |
| `ReadOnlyIsKeptCorrect` | `Spec => ReadOnlyIsKept` | `MediumInv`: an open backend has a medium and the configured kind.  A command changes the medium through `Change` only, whose outcomes on a read-only file are one refusal; no assumption on the host |
| `ServerCommands_proofs!TypeCorrect` | `Spec => []TypeOK` | `StoreInv`: the medium is a file of at most the largest configured size, the namespace is not larger than the backend, and the backend not larger than its medium unless it is a read-only file (`Backed`).  A range that passes `IoCmdValidateLbaRange` has not wrapped (`SumInRange`), so its bytes exist (`CommandInRange`).  `QueuesTyped` for the tables |
| `MediumIsAsToldCorrect` | `Counted`: `Spec => []MediumIsAsTold` | `ToldInv` adds that bytes a file does not have yet may be zero or junk (`Unwritten`, for a restart that extends the file), and that memory is gone with the process.  `Outcome`: whatever a backend operation leaves is the old contents with a part of the new data at the offset, and with all of it when it succeeds.  For the chunks of `FileBackendWriteZeroes` that is an induction on their number (`AfterChunks`) |
| `ReadFillsBufferCorrect` | `Counted`, `Buffered`: `Spec => []ReadFillsBuffer` | with `ToldInv`: a Read that succeeds has moved every byte asked for (`ReadOutcome`: a set of as many bytes as were asked for is all of them), and the next command sets `delivered` anew |

Assumptions: the ring has at least two slots (with one it could hold nothing); the table
has at least one queue, the configured maximum lies in its range, and a 16-bit field can
hold every queue number; the id counter has at least two values, and the block sizes and the
width are not zero; at least one I/O queue is configured; queue sizes and feature values are
numbers; a 16-bit field is not wider than a 64-bit one, starts, counts and configured sizes fit
their fields, and there is a largest configuration; the host's buffers are as long as the transfers
they are given for (`BufferAssumption`), a page of a PRP list holds at least one address; the data
buffer of the service has room for the bytes the SMART page sets; an admin queue has at least two entries and the ring at least one; an I/O queue has at
least two entries and there is a largest size.  All hold for the
constants of the code and TLC evaluates them in every run.  `SingleProducer` is a hypothesis of
the three ring theorems that name it and not of the model: the run `ring_two_controllers` shows
that it is needed.  So is `Rewound`: with `Rewound = FALSE` TLC violates each of the three
properties of `IoQueues` that assume it.  `Paired` is not assumed by any theorem.
`Counted` (no command carries the block count 65536, which becomes 0 in 16 bits) is needed for
`MediumIsAsTold` and for `StoreIsAsTold`, `ReadDelivers` and `CompareTells`: with that count TLC
finds a Write answered with success that wrote nothing, and likewise for the others.
`Unwrapped` (no range of a command to the driver reaches beyond 2^64) is needed because
`VNVME_LBA_RANGE_VALID` does not look for an overflow: with a start just below 2^64 TLC violates
`StoreIsAsTold`, and the Read and Compare of such a range name bytes that do not exist.  The proof
of `TypeOK` uses it to bound a transfer by the size of the store.  No theorem about `DriverIo`
uses the model's bound of one entry that fails to map (`MapFaults`).
`Buffered` (the data buffer holds the longest transfer) is true of the code's sizes, 32 MB and
60 MB; without it a Read answered with success leaves the buffer alone.

`Restarts` and `HonoursSqhd` are constants of `AdminPath` that choose what the service and the
host may do; the hypotheses on them are needed, and so is the exemption of a service that was only
late (`misjudged`): without it the run `stall_lost_command` finds a lost command.  A host that reuses the slot of
every completed command at once (`HonoursSqhd = FALSE`) overwrites a command the abort has still
to read, and a restarted service (`Restarts`) completes old commands again beside the abort: TLC
finds a counterexample to `AbortCoversForwarded` for each.  A service that dies and is restarted
before the driver notices takes the notifications of its predecessor again and completes commands
twice, so that the host submits more than the bound of `NeverRefused` allows for: TLC finds a
refused notification with `Depth = 3`, eight commands and two deaths.

Induction is done with `Counters!NatSetInduction`, about a set of numbers instead of a predicate
(from the least number principle), which the provers can instantiate; `IterationExists` gives
from it the values of a recursively defined function such as those in `PostAll`,
`FileBackendWriteZeroes`, `ZeroRange` and `CopyMap`, and `StepsStay` what all of them have in
common.

Only model-checked: the liveness properties (`EveryAcceptedIsConsumed`, `ForwardedIsReaped`,
`D0ExitCompletes`, `QueuedIsDispatched`), which are out of the prover's reach.  Every other
property of a passing run has its theorem.

## 5. What is not modelled, and the plan

In this order:

1. A CC.EN reset after commands have been issued, as an extension of `AdminPath`
   (`HostToggleEnable` now acts only before the first command), with a property about the phase
   of the abort's completions (the abort takes `AdminCQ.Phase`, which the service never
   updates); several controllers on the one admin queue of the shared memory.
2. The rest of the control device: `GET_COMMAND_EVENT` (its handle is made once and given to
   every later process), `SUBMIT_COMPLETIONS`, and the polling timers' use of controllers and
   storages beside the IOCTL handlers.
3. `KernelQueues` and `IoQueues` on one set of tables: the admin handlers accept queue numbers
   up to `VNVME_MAX_IO_QUEUES`, `VnvmeFetchCommand` only those that are configured.
4. Configuration and `AdjustPollingInterval`.

Not planned: functions without a caller (the batch forms of `queue.c`,
`VnvmeProcessUserCompletions`), the data returned by Identify, Get Log Page and Get Features,
BAR0 and PCIe register images, `vnvmectl`, logging, debug output and configuration file
parsing.  The latter are constant tables or text, with no state that another component depends
on.

## 6. Running

    tlc -config MCNotifyRing.cfg MCNotifyRing
    tlapm NotifyRing_proofs.tla

and likewise for the other configurations.  `admin`, `server` and `io_queues` take one to two
minutes with two workers, the others less than a minute; `AdminPath_proofs`, `IoQueues_proofs`
and `DriverIo_proofs` take several minutes, the other proofs less.
