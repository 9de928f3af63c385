---------------------------- MODULE ControlDevice ----------------------------
(***************************************************************************)
(* The control device of the bus driver: the FDO's life (DeviceAdd,        *)
(* hardware, power, removal, unload), the sequential IOCTL queue, and the  *)
(* IOCTLs that create and delete controllers and namespaces and map the    *)
(* shared memory.                                                          *)
(*                                                                         *)
(* A handler is cut where it gives up ChildDeviceListLock, because only    *)
(* the queue's dispatch type keeps another handler out from there on.  A   *)
(* client's IOCTL code and arguments are chosen when its handler looks at  *)
(* them.  PDOs and storage contexts are identified by their addresses.     *)
(***************************************************************************)
EXTENDS Naturals, Sequences, FiniteSets

CONSTANTS
  Clients,         \* threads that call DeviceIoControl, one request each at a time
  Pdos,            \* addresses of controller (PDO) contexts
  Storages,        \* addresses of storage contexts
  NoPdo, NoStorage,
  IdWidth,         \* how many values NextControllerId has (a ULONG, 2^32)
  MaxControllers,  \* VNVME_MAX_CONTROLLERS (16)
  MaxNamespaces,   \* VNVME_MAX_NAMESPACES (16)
  Wrap,            \* how many values a UINT64 has (2^64)
  SmallBlock,      \* VNVME_BLOCK_SIZE_512
  LargeBlock,      \* VNVME_BLOCK_SIZE_4096
  MaxCapacity,     \* VNVME_MAX_NAMESPACE_CAPACITY (2^44)
  Blocks, Sizes,   \* the TotalBlocks and BlockSize values clients ask for
  StorageType,     \* CONFIG_STORAGE_TYPE: "memory" or "file"
  StoragePath      \* is CONFIG_STORAGE_PATH set?

ASSUME PointerAssumption == NoPdo \notin Pdos /\ NoStorage \notin Storages
ASSUME LimitAssumption ==
  IdWidth \in Nat \ {0, 1} /\ MaxControllers \in Nat /\ MaxNamespaces \in Nat
ASSUME CapacityAssumption ==
  /\ SmallBlock \in Nat \ {0} /\ LargeBlock \in Nat \ {0}
  /\ Wrap \in Nat \ {0} /\ MaxCapacity \in Nat
  /\ Blocks \subseteq 0 .. Wrap - 1 /\ Sizes \subseteq Nat /\ StoragePath \in BOOLEAN

Ids == 0 .. IdWidth - 1
Slots == 1 .. MaxNamespaces          \* NSIDs; the array index is one less

VARIABLES
  g_FdoContext,      \* "NULL", "valid", or "dangling" once the FDO is gone
  device,            \* where PnP and power management have taken the FDO
  queueState,        \* ControlQueue: "none", "started", "stopped"
  queue,             \* requests the framework has not presented yet, oldest first
  handler,           \* per client: pc, and the controller id and PDO its handler holds
  NextControllerId,
  ChildDeviceList,   \* the PDOs on the FDO's list
  ChildDeviceCount,
  pdo,               \* PDO contexts: ControllerId, Namespaces, NamespaceCount
  live,              \* PDO contexts that exist
  storage,           \* what each storage context is: "free", "memory" or "file"
  orphaned,          \* history: storages whose namespace went away with its controller
  shm                \* ShmKernelVirtAddr, ShmMdl, ShmUserVirtAddr: set or NULL

fdoVars == <<NextControllerId, ChildDeviceList, ChildDeviceCount>>
pdoVars == <<pdo, live>>
storageVars == <<storage, orphaned>>
pnpVars == <<g_FdoContext, device, queueState>>
vars == <<pnpVars, queue, handler, fdoVars, pdoVars, storageVars, shm>>

Idle == [pc |-> "idle", id |-> 0, pdo |-> NoPdo]
Running(c) == handler[c].pc \notin {"idle", "queued"}

(* A slot that is not active.  The sizes a deletion or a failed creation   *)
(* leaves in it are not kept: every reader looks at Active first, and the  *)
(* next creation zeroes the slot.                                          *)
EmptySlot ==
  [Active |-> FALSE, Storage |-> NoStorage, TotalBlocks |-> 0, BlockSize |-> 0, TotalBytes |-> 0]
ZeroPdo(id) ==
  [ControllerId |-> id, Namespaces |-> [n \in Slots |-> EmptySlot], NamespaceCount |-> 0]
NoShm == [kernel |-> FALSE, mdl |-> FALSE, user |-> FALSE]

(* The storages the active namespaces of the PDOs in P point to. *)
StoragesOf(P) ==
  {s \in Storages : \E p \in P, n \in Slots :
     pdo[p].Namespaces[n].Active /\ pdo[p].Namespaces[n].Storage = s}

Init ==
  /\ g_FdoContext = "NULL" /\ device = "none" /\ queueState = "none"
  /\ queue = << >>
  /\ handler = [c \in Clients |-> Idle]
  /\ NextControllerId = 1 /\ ChildDeviceList = {} /\ ChildDeviceCount = 0
  /\ pdo = [p \in Pdos |-> ZeroPdo(0)] /\ live = {}
  /\ storage = [s \in Storages |-> "free"] /\ orphaned = {}
  /\ shm = NoShm

-----------------------------------------------------------------------------
(* The IOCTL queue, WdfIoQueueDispatchSequential *)

Submit(c) ==
  /\ queueState # "none" /\ handler[c].pc = "idle"
  /\ queue' = Append(queue, c)
  /\ handler' = [handler EXCEPT ![c].pc = "queued"]
  /\ UNCHANGED <<pnpVars, fdoVars, pdoVars, storageVars, shm>>

(* Mutant: WdfIoQueueDispatchParallel. *)
DispatchParallel(c) ==
  /\ queueState = "started" /\ queue # << >> /\ c = Head(queue)
  /\ queue' = Tail(queue)
  /\ handler' = [handler EXCEPT ![c].pc = "dispatched"]
  /\ UNCHANGED <<pnpVars, fdoVars, pdoVars, storageVars, shm>>

(* The framework presents a request only when the one before is completed. *)
Dispatch(c) ==
  /\ queueState = "started" /\ queue # << >> /\ c = Head(queue)
  /\ \A d \in Clients : ~Running(d)
  /\ queue' = Tail(queue)
  /\ handler' = [handler EXCEPT ![c].pc = "dispatched"]
  /\ UNCHANGED <<pnpVars, fdoVars, pdoVars, storageVars, shm>>

(* A handler at pc goes on: every handler reads g_FdoContext first, and    *)
(* nothing is said of what it does with a context that is gone.            *)
At(c, pc) == handler[c].pc = pc /\ g_FdoContext = "valid" /\ UNCHANGED <<pnpVars, queue>>
Complete(c) == handler' = [handler EXCEPT ![c] = Idle]

-----------------------------------------------------------------------------
(* IOCTL_VNVME_CREATE_CONTROLLER *)

(* Mutant: ids are drawn from a wider counter than the context keeps. *)
NextIdWide(id) == id + 1

NextId(id) == (id + 1) % IdWidth

(* Mutant: an id that was just drawn is taken to be new. *)
IdTakenNever(id) == FALSE

IdTaken(id) == \E p \in ChildDeviceList : pdo[p].ControllerId = id

(* The id is drawn before anything is checked; the place is reserved       *)
(* under the lock.                                                         *)
CreateReserve(c) ==
  /\ At(c, "dispatched")
  /\ NextControllerId' = NextId(NextControllerId)
  /\ \/ /\ IdTaken(NextControllerId) \/ ChildDeviceCount >= MaxControllers
        /\ Complete(c) /\ UNCHANGED ChildDeviceCount
     \/ /\ ~IdTaken(NextControllerId) /\ ChildDeviceCount < MaxControllers
        /\ ChildDeviceCount' = ChildDeviceCount + 1
        /\ handler' = [handler EXCEPT ![c] = [pc |-> "reserved", id |-> NextControllerId, pdo |-> NoPdo]]
  /\ UNCHANGED <<ChildDeviceList, pdoVars, storageVars, shm>>

(* Mutant: a creation that failed is tried again with the next id. *)
CreatePdoRetries(c) ==
  /\ At(c, "reserved")
  /\ \/ /\ ChildDeviceCount' = ChildDeviceCount - 1
        /\ handler' = [handler EXCEPT ![c] = [Idle EXCEPT !.pc = "dispatched"]] /\ UNCHANGED pdoVars
     \/ \E p \in Pdos \ live :
          /\ live' = live \cup {p}
          /\ pdo' = [pdo EXCEPT ![p] = ZeroPdo(handler[c].id)]
          /\ handler' = [handler EXCEPT ![c].pc = "created", ![c].pdo = p]
          /\ UNCHANGED ChildDeviceCount
  /\ UNCHANGED <<NextControllerId, ChildDeviceList, storageVars, shm>>

(* VnvmeCreateControllerPdo, outside the lock; a failure gives the place back. *)
CreatePdo(c) ==
  /\ At(c, "reserved")
  /\ \/ /\ ChildDeviceCount' = ChildDeviceCount - 1
        /\ Complete(c) /\ UNCHANGED pdoVars
     \/ \E p \in Pdos \ live :
          /\ live' = live \cup {p}
          /\ pdo' = [pdo EXCEPT ![p] = ZeroPdo(handler[c].id)]
          /\ handler' = [handler EXCEPT ![c].pc = "created", ![c].pdo = p]
          /\ UNCHANGED ChildDeviceCount
  /\ UNCHANGED <<NextControllerId, ChildDeviceList, storageVars, shm>>

(* Mutant: the controller is counted once more when it is inserted. *)
InsertPdoCounts(c) ==
  /\ At(c, "created")
  /\ ChildDeviceList' = ChildDeviceList \cup {handler[c].pdo}
  /\ ChildDeviceCount' = ChildDeviceCount + 1
  /\ Complete(c)
  /\ UNCHANGED <<NextControllerId, pdoVars, storageVars, shm>>

InsertPdo(c) ==
  /\ At(c, "created")
  /\ ChildDeviceList' = ChildDeviceList \cup {handler[c].pdo}
  /\ Complete(c)
  /\ UNCHANGED <<NextControllerId, ChildDeviceCount, pdoVars, storageVars, shm>>

-----------------------------------------------------------------------------
(* IOCTL_VNVME_DELETE_CONTROLLER *)

DeleteUnlink(c) ==
  /\ At(c, "dispatched")
  /\ \E id \in Ids :
       \/ \E p \in ChildDeviceList :
            /\ pdo[p].ControllerId = id
            /\ ChildDeviceList' = ChildDeviceList \ {p}
            /\ ChildDeviceCount' = ChildDeviceCount - 1
            /\ handler' = [handler EXCEPT ![c] = [pc |-> "unlinked", id |-> id, pdo |-> p]]
       \/ /\ \A p \in ChildDeviceList : pdo[p].ControllerId # id
          /\ Complete(c) /\ UNCHANGED <<ChildDeviceList, ChildDeviceCount>>
  /\ UNCHANGED <<NextControllerId, pdoVars, storageVars, shm>>

(* WdfObjectDelete: the context goes, the storages of its namespaces stay. *)
DeletePdo(c) ==
  /\ At(c, "unlinked")
  /\ live' = live \ {handler[c].pdo}
  /\ pdo' = [pdo EXCEPT ![handler[c].pdo] = ZeroPdo(0)]
  /\ orphaned' = orphaned \cup StoragesOf({handler[c].pdo})
  /\ Complete(c)
  /\ UNCHANGED <<fdoVars, storage, shm>>

-----------------------------------------------------------------------------
(* IOCTLs on the namespaces of a controller *)

(* The pointer is used after the list lock is released. *)
CtrlDevFindController(c) ==
  /\ At(c, "dispatched")
  /\ \E id \in Ids :
       \/ \E p \in ChildDeviceList :
            /\ pdo[p].ControllerId = id
            /\ handler' = [handler EXCEPT ![c] = [pc |-> "found", id |-> id, pdo |-> p]]
       \/ /\ \A p \in ChildDeviceList : pdo[p].ControllerId # id
          /\ Complete(c)
  /\ UNCHANGED <<fdoVars, pdoVars, storageVars, shm>>

EffectiveSize(size) == IF size = 0 THEN SmallBlock ELSE size

(* Mutant: the multiplication is not checked for overflow. *)
ConfigOKUnchecked(blocks, size) ==
  /\ size \in {0, SmallBlock, LargeBlock}
  /\ blocks # 0
  /\ (blocks * EffectiveSize(size)) % Wrap <= MaxCapacity

(* The block size, block count, overflow and capacity checks. *)
ConfigOK(blocks, size) ==
  LET bs == EffectiveSize(size)
      totalCapacity == (blocks * bs) % Wrap
  IN  /\ size \in {0, SmallBlock, LargeBlock}
      /\ blocks # 0
      /\ totalCapacity \div bs = blocks
      /\ totalCapacity <= MaxCapacity

(* The configured type, or a sparse file when thin provisioning is asked   *)
(* for; a file needs the configured path, else memory is used.             *)
Backend(sparse) == IF (sparse \/ StorageType = "file") /\ StoragePath THEN "file" ELSE "memory"

(* Every file backend opens the one configured path, sharing it with nobody. *)
CanOpen(type) == type = "file" => \A s \in Storages : storage[s] # "file"

(* The lowest NSID that is free. *)
FirstFree(p, n) ==
  /\ ~pdo[p].Namespaces[n].Active
  /\ \A m \in Slots : m < n => pdo[p].Namespaces[m].Active

NewSlot(s, blocks, size) ==
  [Active |-> TRUE, Storage |-> s, TotalBlocks |-> blocks, BlockSize |-> EffectiveSize(size),
   TotalBytes |-> (blocks * EffectiveSize(size)) % Wrap]

SetSlot(p, n, slot, count) ==
  pdo' = [pdo EXCEPT ![p] =
            [ControllerId |-> pdo[p].ControllerId, NamespaceCount |-> count,
             Namespaces |-> [pdo[p].Namespaces EXCEPT ![n] = slot]]]

CreateNamespace(c) ==
  LET p == handler[c].pdo IN
  /\ At(c, "found")
  /\ Complete(c)
  /\ \E blocks \in Blocks, size \in Sizes, sparse \in BOOLEAN :
       \/ /\ \/ ~ConfigOK(blocks, size) \/ pdo[p].NamespaceCount >= MaxNamespaces
             \/ \A n \in Slots : pdo[p].Namespaces[n].Active
          /\ UNCHANGED <<pdo, storage>>
       \/ /\ ConfigOK(blocks, size) /\ pdo[p].NamespaceCount < MaxNamespaces
          /\ \E n \in Slots :
               /\ FirstFree(p, n)
               /\ \/ /\ SetSlot(p, n, EmptySlot, pdo[p].NamespaceCount)
                     /\ UNCHANGED storage
                  \/ \E s \in Storages :
                       /\ storage[s] = "free" /\ CanOpen(Backend(sparse))
                       /\ storage' = [storage EXCEPT ![s] = Backend(sparse)]
                       /\ SetSlot(p, n, NewSlot(s, blocks, size), pdo[p].NamespaceCount + 1)
  /\ UNCHANGED <<fdoVars, live, orphaned, shm>>

(* Mutant: the namespace goes, its storage stays. *)
StorageDestroyNever(s) == UNCHANGED storage

VnvmeStorageDestroy(s) == storage' = [storage EXCEPT ![s] = "free"]

DeleteNamespace(c) ==
  LET p == handler[c].pdo IN
  /\ At(c, "found")
  /\ Complete(c)
  /\ \E nsid \in 0 .. MaxNamespaces + 1 :
       \/ /\ nsid \in Slots => ~pdo[p].Namespaces[nsid].Active
          /\ UNCHANGED <<pdo, storage>>
       \/ /\ nsid \in Slots /\ pdo[p].Namespaces[nsid].Active
          /\ VnvmeStorageDestroy(pdo[p].Namespaces[nsid].Storage)
          /\ SetSlot(p, nsid, EmptySlot, pdo[p].NamespaceCount - 1)
  /\ UNCHANGED <<fdoVars, live, orphaned, shm>>

ListNamespaces(c) ==
  /\ At(c, "found")
  /\ Complete(c)
  /\ UNCHANGED <<fdoVars, pdoVars, storageVars, shm>>

-----------------------------------------------------------------------------
(* IOCTL_VNVME_MAP_SHM: an old mapping is undone first; the MDL is kept *)

UnmapShmFromUser(m) == [m EXCEPT !.user = m.user /\ ~m.mdl]

MapShm(c) ==
  /\ At(c, "dispatched")
  /\ Complete(c)
  /\ LET unmapped == UnmapShmFromUser(shm) IN
       \/ shm' = unmapped
       \/ shm.kernel /\ shm' = [unmapped EXCEPT !.mdl = TRUE]
       \/ shm.kernel /\ shm' = [unmapped EXCEPT !.mdl = TRUE, !.user = TRUE]
  /\ UNCHANGED <<fdoVars, pdoVars, storageVars>>

-----------------------------------------------------------------------------
(* PnP and power callbacks of the FDO, and the driver's unloading *)

(* One instance only: a context pointer that is still there refuses it.    *)
(* When the control device cannot be created the framework deletes the     *)
(* FDO, and the pointer stays.                                             *)
DeviceAdd ==
  /\ device = "none"
  /\ \/ g_FdoContext # "NULL" /\ UNCHANGED pnpVars
     \/ g_FdoContext = "NULL" /\ g_FdoContext' = "valid" /\ device' = "added" /\ queueState' = "started"
     \/ g_FdoContext = "NULL" /\ g_FdoContext' = "dangling" /\ UNCHANGED <<device, queueState>>
  /\ UNCHANGED <<queue, handler, fdoVars, pdoVars, storageVars, shm>>

PrepareHardware ==
  /\ device \in {"added", "released"}
  /\ \/ device' = "prepared" /\ shm' = [shm EXCEPT !.kernel = TRUE]
     \/ device' = "failed" /\ UNCHANGED shm
  /\ UNCHANGED <<g_FdoContext, queueState, queue, handler, fdoVars, pdoVars, storageVars>>

(* Nothing is started again here, the control queue included. *)
D0Entry ==
  /\ device \in {"prepared", "stopped"}
  /\ device' = "D0"
  /\ UNCHANGED <<g_FdoContext, queueState, queue, handler, fdoVars, pdoVars, storageVars, shm>>

(* Mutant: new requests are still presented while D0Exit waits. *)
D0ExitKeepsQueue ==
  /\ device = "D0"
  /\ device' = "exiting"
  /\ UNCHANGED <<g_FdoContext, queueState, queue, handler, fdoVars, pdoVars, storageVars, shm>>

(* WdfIoQueueStop: requests stay in the queue, a running handler goes on. *)
D0Exit ==
  /\ device = "D0"
  /\ device' = "exiting" /\ queueState' = "stopped"
  /\ UNCHANGED <<g_FdoContext, queue, handler, fdoVars, pdoVars, storageVars, shm>>

(* Mutant: D0Exit does not wait for the running handler. *)
D0ExitDrainedAtOnce ==
  /\ device = "exiting"
  /\ device' = "stopped" /\ queueState' = "stopped"
  /\ UNCHANGED <<g_FdoContext, queue, handler, fdoVars, pdoVars, storageVars, shm>>

(* The wait for UserReadyEvent that comes first ends at once: the event is *)
(* set when UserReady is.  WdfIoQueueStopSynchronously stops the queue     *)
(* (again) and returns when no handler is running.                         *)
D0ExitDrained ==
  /\ device = "exiting"
  /\ \A c \in Clients : ~Running(c)
  /\ device' = "stopped" /\ queueState' = "stopped"
  /\ UNCHANGED <<g_FdoContext, queue, handler, fdoVars, pdoVars, storageVars, shm>>

(* Mutant: the memory is freed under the user mapping. *)
FreeShmMapped(m) == [m EXCEPT !.mdl = FALSE, !.kernel = FALSE]

(* VnvmeFreeShm: unmap, free the MDL, free the memory *)
FreeShm(m) == [UnmapShmFromUser(m) EXCEPT !.mdl = FALSE, !.kernel = FALSE]

ReleaseHardware ==
  /\ device = "stopped"
  /\ device' = "released"
  /\ shm' = FreeShm(shm)
  /\ UNCHANGED <<g_FdoContext, queueState, queue, handler, fdoVars, pdoVars, storageVars>>

(* The framework deletes the FDO and its PDOs with their contexts.  No     *)
(* callback of the driver clears g_FdoContext.                             *)
RemoveDevice ==
  /\ device \in {"released", "failed"}
  /\ device' = "none" /\ g_FdoContext' = "dangling"
  /\ live' = {} /\ pdo' = [p \in Pdos |-> ZeroPdo(0)]
  /\ orphaned' = orphaned \cup StoragesOf(live)
  /\ NextControllerId' = 1 /\ ChildDeviceList' = {} /\ ChildDeviceCount' = 0
  /\ UNCHANGED <<queueState, queue, handler, storage, shm>>

(* VnvmeEvtDriverContextCleanup: the control device goes, and the requests *)
(* still in its queue are cancelled.                                       *)
DriverContextCleanup ==
  /\ device = "none" /\ g_FdoContext # "NULL"
  /\ \A c \in Clients : ~Running(c)
  /\ g_FdoContext' = "NULL" /\ queueState' = "none"
  /\ queue' = << >> /\ handler' = [c \in Clients |-> Idle]
  /\ UNCHANGED <<device, fdoVars, pdoVars, storageVars, shm>>

-----------------------------------------------------------------------------
Handler(c) ==
  \/ CreateReserve(c) \/ CreatePdo(c) \/ InsertPdo(c)
  \/ DeleteUnlink(c) \/ DeletePdo(c)
  \/ CtrlDevFindController(c) \/ CreateNamespace(c) \/ DeleteNamespace(c) \/ ListNamespaces(c)
  \/ MapShm(c)

PnP ==
  \/ DeviceAdd \/ PrepareHardware \/ D0Entry \/ D0Exit \/ D0ExitDrained
  \/ ReleaseHardware \/ RemoveDevice \/ DriverContextCleanup

Next == (\E c \in Clients : Submit(c) \/ Dispatch(c) \/ Handler(c)) \/ PnP

(* Handlers run to their end without waiting for anything, the framework   *)
(* presents what it may present, and D0Exit returns when it can.           *)
Fairness ==
  /\ \A c \in Clients : WF_vars(Dispatch(c)) /\ WF_vars(Handler(c))
  /\ WF_vars(D0ExitDrained)

Spec == Init /\ [][Next]_vars /\ Fairness

-----------------------------------------------------------------------------
SlotType ==
  [Active : BOOLEAN, Storage : Storages \cup {NoStorage}, TotalBlocks : Nat, BlockSize : Nat, TotalBytes : Nat]
PdoType == [ControllerId : Ids, Namespaces : [Slots -> SlotType], NamespaceCount : Nat]

(* Every variable keeps its type; the two unsigned counters of the driver, *)
(* ChildDeviceCount and NamespaceCount, never step below 0.                *)
TypeOK ==
  /\ g_FdoContext \in {"NULL", "valid", "dangling"}
  /\ device \in {"none", "added", "prepared", "failed", "D0", "exiting", "stopped", "released"}
  /\ queueState \in {"none", "started", "stopped"}
  /\ queue \in Seq(Clients)
  /\ handler \in [Clients ->
       [pc : {"idle", "queued", "dispatched", "reserved", "created", "unlinked", "found"},
        id : Ids, pdo : Pdos \cup {NoPdo}]]
  /\ NextControllerId \in Ids /\ ChildDeviceList \subseteq Pdos /\ ChildDeviceCount \in Nat
  /\ pdo \in [Pdos -> PdoType] /\ live \subseteq Pdos
  /\ storage \in [Storages -> {"free", "memory", "file"}] /\ orphaned \subseteq Storages
  /\ shm \in [kernel : BOOLEAN, mdl : BOOLEAN, user : BOOLEAN]

(* While the FDO exists, the PDO a handler kept a pointer to after it let  *)
(* go of the list lock has not been deleted by another handler, and no     *)
(* deleted PDO is on the list.                                             *)
NoUseAfterDelete ==
  g_FdoContext = "valid" =>
    /\ ChildDeviceList \subseteq live
    /\ \A c \in Clients : handler[c].pdo # NoPdo => handler[c].pdo \in live

(* No two controllers on the list have the same id, even when              *)
(* NextControllerId has wrapped around while old controllers still exist.  *)
DistinctIds ==
  \A p, q \in ChildDeviceList : pdo[p].ControllerId = pdo[q].ControllerId => p = q

(* The two counts the limits are enforced with agree with the lists they   *)
(* count, whichever of the steps of a creation failed: ChildDeviceCount    *)
(* with the listed controllers and the one under construction,             *)
(* NamespaceCount with the active slots.                                   *)
CountsAgree ==
  g_FdoContext = "valid" =>
    /\ ChildDeviceCount = Cardinality(ChildDeviceList)
         + Cardinality({c \in Clients : handler[c].pc \in {"reserved", "created"}})
    /\ ChildDeviceCount <= MaxControllers
    /\ \A p \in live :
         pdo[p].NamespaceCount = Cardinality({n \in Slots : pdo[p].Namespaces[n].Active})

(* An active namespace has a storage that exists and that is no other      *)
(* namespace's; a storage that exists belongs to an active namespace, or   *)
(* did when its controller was deleted: nothing else loses a storage.      *)
StorageHasOneOwner ==
  /\ \A p \in live, n \in Slots : pdo[p].Namespaces[n].Active =>
       LET s == pdo[p].Namespaces[n].Storage IN
       /\ s \in Storages /\ storage[s] # "free" /\ s \notin orphaned
       /\ \A q \in live, m \in Slots :
            pdo[q].Namespaces[m].Active /\ pdo[q].Namespaces[m].Storage = s => q = p /\ m = n
  /\ {s \in Storages : storage[s] # "free"} = StoragesOf(live) \cup orphaned

(* The byte count of an active namespace is the true product of its blocks *)
(* and its block size, not what a 64-bit multiplication left of it, and is *)
(* within the limit.                                                       *)
CapacityIsExact ==
  \A p \in live, n \in Slots : LET ns == pdo[p].Namespaces[n] IN
    ns.Active => ns.TotalBytes = ns.TotalBlocks * ns.BlockSize /\ ns.TotalBytes \in 1 .. MaxCapacity

(* A recorded user mapping has its MDL and an MDL its memory, across       *)
(* remapping, failed mapping, release and another PrepareHardware.         *)
MappingBacked == (shm.user => shm.mdl) /\ (shm.mdl => shm.kernel)

(* After D0Exit has returned no handler is running, so that the shared     *)
(* memory and the PDOs can go.                                             *)
NoHandlerAfterD0Exit ==
  device \in {"stopped", "released"} => \A c \in Clients : ~Running(c)

(* D0Exit returns: the handler it waits for comes to its end. *)
D0ExitCompletes == device = "exiting" ~> device # "exiting"

(* A request is presented to its handler, unless the queue is stopped or   *)
(* the FDO goes away: no handler leaves its request uncompleted.           *)
QueuedIsDispatched ==
  \A c \in Clients : handler[c].pc = "queued" ~>
    handler[c].pc # "queued" \/ queueState # "started" \/ g_FdoContext # "valid"

(* A handler that runs finds a valid context behind g_FdoContext.          *)
ContextIsValid == \A c \in Clients : Running(c) => g_FdoContext = "valid"
=============================================================================
