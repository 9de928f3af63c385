------------------------ MODULE ControlDevice_proofs ------------------------
(***************************************************************************)
(* Proofs about the control device, for any number of clients, controllers *)
(* and namespaces and any width of the counters.                           *)
(***************************************************************************)
EXTENDS ControlDevice, Integers, FiniteSetTheorems, TLAPS

Pcs == {"idle", "queued", "dispatched", "reserved", "created", "unlinked", "found"}

(* The types the argument about pointers needs; the counters play no part. *)
Types ==
  /\ handler \in [Clients -> [pc : Pcs, id : Ids, pdo : Pdos \cup {NoPdo}]]
  /\ NextControllerId \in Ids
  /\ ChildDeviceList \subseteq Pdos /\ live \subseteq Pdos
  /\ pdo \in [Pdos -> [ControllerId : Ids, Namespaces : [Slots -> SlotType], NamespaceCount : Int]]
  /\ shm \in [kernel : BOOLEAN, mdl : BOOLEAN, user : BOOLEAN]

(* The sequential queue: one handler runs at a time. *)
OneHandler == \A c, d \in Clients : Running(c) /\ Running(d) => c = d

(* Which handlers hold a pointer. *)
PointerShape ==
  \A c \in Clients :
    handler[c].pc \in {"created", "unlinked", "found"} <=> handler[c].pdo # NoPdo

(* What a held pointer points to, and that a reserved id is still free.    *)
HeldPointers ==
  \A c \in Clients :
    /\ handler[c].pc = "found" => handler[c].pdo \in ChildDeviceList
    /\ handler[c].pc \in {"created", "unlinked"} => handler[c].pdo \in live \ ChildDeviceList
    /\ handler[c].pc = "created" => pdo[handler[c].pdo].ControllerId = handler[c].id
    /\ handler[c].pc \in {"reserved", "created"} =>
         \A p \in ChildDeviceList : pdo[p].ControllerId # handler[c].id

(* The FDO, the global pointer and the queue. *)
Lifecycle ==
  /\ g_FdoContext \in {"NULL", "valid", "dangling"}
  /\ device # "none" <=> g_FdoContext = "valid"
  /\ g_FdoContext = "NULL" => queueState = "none" /\ \A c \in Clients : ~Running(c)
  /\ g_FdoContext # "valid" => ChildDeviceList = {} /\ live = {}
  /\ device \in {"exiting", "stopped", "released"} => queueState = "stopped"
  /\ device \in {"stopped", "released"} => \A c \in Clients : ~Running(c)

Inv ==
  /\ Types /\ OneHandler /\ PointerShape /\ Lifecycle
  /\ ChildDeviceList \subseteq live /\ DistinctIds
  /\ g_FdoContext = "valid" => HeldPointers

USE PointerAssumption, LimitAssumption, CapacityAssumption

PdoWeakType == [ControllerId : Ids, Namespaces : [Slots -> SlotType], NamespaceCount : Int]

LEMMA ZeroPdoType == \A id \in Ids : ZeroPdo(id) \in PdoWeakType /\ ZeroPdo(id).ControllerId = id
  BY DEF ZeroPdo, PdoWeakType, SlotType, EmptySlot

LEMMA EmptySlotType == EmptySlot \in SlotType
  BY DEF EmptySlot, SlotType

LEMMA NewSlotType ==
  \A s \in Storages, blocks \in Blocks, size \in Sizes : NewSlot(s, blocks, size) \in SlotType
<1> TAKE s \in Storages, blocks \in Blocks, size \in Sizes
<1>1. EffectiveSize(size) \in Nat /\ blocks \in Nat
  BY DEF EffectiveSize
<1>2. (blocks * EffectiveSize(size)) % Wrap \in Nat
  BY <1>1
<1> QED
  BY <1>1, <1>2 DEF NewSlot, SlotType

LEMMA IdRange == 0 \in Ids /\ 1 \in Ids /\ \A id \in Ids : NextId(id) \in Ids
  BY DEF Ids, NextId

(* What changing one namespace slot does to the contexts. *)
LEMMA SetSlotEffect ==
  ASSUME pdo \in [Pdos -> PdoWeakType], NEW p \in Pdos, NEW n \in Slots,
         NEW slot \in SlotType, NEW count \in Int, SetSlot(p, n, slot, count)
  PROVE  /\ pdo' \in [Pdos -> PdoWeakType]
         /\ \A q \in Pdos : pdo'[q].ControllerId = pdo[q].ControllerId
         /\ \A q \in Pdos, m \in Slots :
              pdo'[q].Namespaces[m] = IF q = p /\ m = n THEN slot ELSE pdo[q].Namespaces[m]
         /\ \A q \in Pdos : pdo'[q].NamespaceCount = IF q = p THEN count ELSE pdo[q].NamespaceCount
<1> DEFINE spaces == [pdo[p].Namespaces EXCEPT ![n] = slot]
           context == [ControllerId |-> pdo[p].ControllerId, NamespaceCount |-> count, Namespaces |-> spaces]
<1>1. pdo[p] \in PdoWeakType /\ pdo[p].Namespaces \in [Slots -> SlotType]
  BY DEF PdoWeakType
<1>2. spaces \in [Slots -> SlotType] /\ context \in PdoWeakType
  BY <1>1 DEF PdoWeakType
<1>3. pdo' = [pdo EXCEPT ![p] = context]
  BY DEF SetSlot
<1>4. \A m \in Slots : spaces[m] = IF m = n THEN slot ELSE pdo[p].Namespaces[m]
  BY <1>1
<1> HIDE DEF spaces
<1>5. /\ context.Namespaces = spaces /\ context.ControllerId = pdo[p].ControllerId
      /\ context.NamespaceCount = count
  OBVIOUS
<1> HIDE DEF context
<1> QED
  BY <1>2, <1>3, <1>4, <1>5

(* The invariant holds while the framework, the driver's handlers and the  *)
(* PnP manager take their steps.                                           *)
LEMMA InvStep == Inv /\ [Next]_vars => Inv'
<1> SUFFICES ASSUME Inv, [Next]_vars PROVE Inv'
  OBVIOUS
<1> USE DEF Inv, Types, PdoWeakType
<1>1. ASSUME NEW c \in Clients, Submit(c) PROVE Inv'
  BY <1>1 DEF Submit, pnpVars, fdoVars, pdoVars, Pcs, Running, OneHandler, PointerShape, HeldPointers, Lifecycle, DistinctIds
<1>2. ASSUME NEW c \in Clients, Dispatch(c) PROVE Inv'
  <2>1. /\ handler' = [handler EXCEPT ![c].pc = "dispatched"]
        /\ ~Running(c) /\ \A d \in Clients : ~Running(d)
        /\ queueState = "started" /\ UNCHANGED <<pnpVars, fdoVars, pdoVars, shm>>
    BY <1>2 DEF Dispatch
  <2>2. Types' /\ OneHandler' /\ PointerShape'
    BY <2>1 DEF pnpVars, fdoVars, pdoVars, Pcs, Running, OneHandler, PointerShape
  <2>3. Lifecycle'
    BY <2>1 DEF pnpVars, fdoVars, pdoVars, Lifecycle
  <2>4. DistinctIds' /\ (HeldPointers => HeldPointers')
    BY <2>1 DEF fdoVars, pdoVars, DistinctIds, HeldPointers
  <2> QED
    BY <2>1, <2>2, <2>3, <2>4 DEF pnpVars, fdoVars, pdoVars
<1>3. ASSUME NEW c \in Clients, CreateReserve(c) PROVE Inv'
  BY SMTT(30), <1>3, IdRange DEF CreateReserve, At, Complete, Idle, IdTaken, pnpVars, fdoVars, pdoVars, Pcs, Running,
     OneHandler, PointerShape, HeldPointers, Lifecycle, DistinctIds
<1>4. ASSUME NEW c \in Clients, CreatePdo(c) PROVE Inv'
  BY <1>4, IdRange, ZeroPdoType DEF CreatePdo, At, Complete, Idle, pnpVars, fdoVars, pdoVars, Pcs, Running,
     OneHandler, PointerShape, HeldPointers, Lifecycle, DistinctIds
<1>5. ASSUME NEW c \in Clients, InsertPdo(c) PROVE Inv'
  BY <1>5, IdRange DEF InsertPdo, At, Complete, Idle, pnpVars, fdoVars, pdoVars, Pcs, Running,
     OneHandler, PointerShape, HeldPointers, Lifecycle, DistinctIds
<1>6. ASSUME NEW c \in Clients, DeleteUnlink(c) PROVE Inv'
  <2>1. /\ handler[c].pc = "dispatched" /\ g_FdoContext = "valid" /\ Running(c)
        /\ UNCHANGED <<pnpVars, pdoVars, shm, NextControllerId>>
    BY <1>6 DEF DeleteUnlink, At, Running
  <2>2. ASSUME NEW id \in Ids, NEW p \in ChildDeviceList, pdo[p].ControllerId = id,
               ChildDeviceList' = ChildDeviceList \ {p},
               handler' = [handler EXCEPT ![c] = [pc |-> "unlinked", id |-> id, pdo |-> p]]
        PROVE  Inv'
    <3>1. Types' /\ OneHandler' /\ PointerShape'
      BY <2>1, <2>2 DEF pnpVars, pdoVars, Pcs, Running, OneHandler, PointerShape
    <3>2. Lifecycle'
      BY <2>1, <2>2 DEF pnpVars, pdoVars, Lifecycle, Running
    <3>3. DistinctIds' /\ HeldPointers'
      BY <2>1, <2>2 DEF pdoVars, DistinctIds, HeldPointers, Running, OneHandler
    <3> QED
      BY <2>1, <2>2, <3>1, <3>2, <3>3 DEF pdoVars
  <2>3. CASE handler' = [handler EXCEPT ![c] = Idle] /\ ChildDeviceList' = ChildDeviceList
    BY <2>1, <2>3, IdRange DEF Idle, pnpVars, pdoVars, Pcs, Running,
       OneHandler, PointerShape, HeldPointers, Lifecycle, DistinctIds
  <2> QED
    BY <1>6, <2>2, <2>3 DEF DeleteUnlink, Complete
<1>7. ASSUME NEW c \in Clients, DeletePdo(c) PROVE Inv'
  BY <1>7, IdRange, ZeroPdoType DEF DeletePdo, At, Complete, Idle, pnpVars, fdoVars, pdoVars, Pcs, Running,
     OneHandler, PointerShape, HeldPointers, Lifecycle, DistinctIds
<1>8. ASSUME NEW c \in Clients, CtrlDevFindController(c) PROVE Inv'
  <2>1. /\ handler[c].pc = "dispatched" /\ g_FdoContext = "valid" /\ Running(c)
        /\ UNCHANGED <<pnpVars, fdoVars, pdoVars, shm>>
    BY <1>8 DEF CtrlDevFindController, At, Running
  <2>2. ASSUME NEW id \in Ids, NEW p \in ChildDeviceList,
               handler' = [handler EXCEPT ![c] = [pc |-> "found", id |-> id, pdo |-> p]]
        PROVE  Inv'
    <3>1. Types' /\ OneHandler' /\ PointerShape'
      BY <2>1, <2>2 DEF pnpVars, fdoVars, pdoVars, Pcs, Running, OneHandler, PointerShape
    <3>2. Lifecycle'
      BY <2>1, <2>2 DEF pnpVars, fdoVars, pdoVars, Lifecycle, Running
    <3>3. DistinctIds' /\ HeldPointers'
      BY <2>1, <2>2 DEF fdoVars, pdoVars, DistinctIds, HeldPointers
    <3> QED
      BY <2>1, <3>1, <3>2, <3>3 DEF fdoVars, pdoVars
  <2>3. CASE handler' = [handler EXCEPT ![c] = Idle]
    BY <2>1, <2>3, IdRange DEF Idle, pnpVars, fdoVars, pdoVars, Pcs, Running,
       OneHandler, PointerShape, HeldPointers, Lifecycle, DistinctIds
  <2> QED
    BY <1>8, <2>2, <2>3 DEF CtrlDevFindController, Complete
<1>9. ASSUME NEW c \in Clients, CreateNamespace(c) \/ DeleteNamespace(c) PROVE Inv'
  <2>1. /\ handler[c].pc = "found" /\ g_FdoContext = "valid"
        /\ handler' = [handler EXCEPT ![c] = Idle]
        /\ UNCHANGED <<pnpVars, fdoVars, live, shm>>
    <3>1. CASE CreateNamespace(c)
      BY <3>1 DEF CreateNamespace, At, Complete
    <3>2. CASE DeleteNamespace(c)
      BY <3>2 DEF DeleteNamespace, At, Complete
    <3> QED
      BY <1>9, <3>1, <3>2
  <2>2. handler[c].pdo \in Pdos
    BY <2>1 DEF HeldPointers
  <2>3. \/ pdo' = pdo
        \/ \E n \in Slots, slot \in SlotType, count \in Int : SetSlot(handler[c].pdo, n, slot, count)
    <3>1. pdo[handler[c].pdo].NamespaceCount \in Int
      BY <2>2
    <3>2. CASE CreateNamespace(c)
      BY <3>1, <3>2, EmptySlotType, NewSlotType DEF CreateNamespace
    <3>3. CASE DeleteNamespace(c)
      BY <3>1, <3>3, EmptySlotType DEF DeleteNamespace
    <3> QED
      BY <1>9, <3>2, <3>3
  <2>4. /\ pdo' \in [Pdos -> PdoWeakType]
        /\ \A q \in Pdos : pdo'[q].ControllerId = pdo[q].ControllerId
    BY <2>2, <2>3, SetSlotEffect
  <2> QED
    BY <2>1, <2>4, IdRange DEF Idle, pnpVars, fdoVars, Pcs, Running,
       OneHandler, PointerShape, HeldPointers, Lifecycle, DistinctIds
<1>11. ASSUME NEW c \in Clients, ListNamespaces(c) \/ MapShm(c) PROVE Inv'
  <2>1. /\ handler' = [handler EXCEPT ![c] = Idle]
        /\ g_FdoContext = "valid" /\ UNCHANGED <<pnpVars, fdoVars, pdoVars>>
    BY <1>11 DEF ListNamespaces, MapShm, At, Complete
  <2>2. shm' \in [kernel : BOOLEAN, mdl : BOOLEAN, user : BOOLEAN]
    BY <1>11 DEF ListNamespaces, MapShm, UnmapShmFromUser
  <2> QED
    BY <2>1, <2>2, IdRange DEF Idle, pnpVars, fdoVars, pdoVars, Pcs, Running,
       OneHandler, PointerShape, HeldPointers, Lifecycle, DistinctIds
<1>12. CASE DeviceAdd \/ PrepareHardware \/ D0Entry \/ D0Exit \/ D0ExitDrained \/ ReleaseHardware
  <2>1. UNCHANGED <<handler, fdoVars, pdoVars>>
    BY <1>12 DEF DeviceAdd, PrepareHardware, D0Entry, D0Exit, D0ExitDrained, ReleaseHardware
  <2>2. shm' \in [kernel : BOOLEAN, mdl : BOOLEAN, user : BOOLEAN]
    BY <1>12 DEF DeviceAdd, PrepareHardware, D0Entry, D0Exit, D0ExitDrained, ReleaseHardware,
       FreeShm, UnmapShmFromUser
  <2>3. Types' /\ OneHandler' /\ PointerShape' /\ DistinctIds' /\ (HeldPointers => HeldPointers')
    BY <2>1, <2>2 DEF fdoVars, pdoVars, Running, OneHandler, PointerShape, DistinctIds, HeldPointers
  <2>4. Lifecycle'
    BY <1>12, <2>1 DEF DeviceAdd, PrepareHardware, D0Entry, D0Exit, D0ExitDrained, ReleaseHardware,
       pnpVars, fdoVars, pdoVars, Running, Lifecycle
  <2>5. g_FdoContext' = "valid" => HeldPointers'
    <3>1. CASE g_FdoContext = "valid"
      BY <2>3, <3>1
    <3>2. CASE g_FdoContext = "NULL"
      BY <2>1, <3>2 DEF fdoVars, pdoVars, Lifecycle, Running, HeldPointers
    <3>3. CASE g_FdoContext = "dangling"
      BY <1>12, <3>3 DEF DeviceAdd, PrepareHardware, D0Entry, D0Exit, D0ExitDrained, ReleaseHardware,
         pnpVars, Lifecycle
    <3> QED
      BY <3>1, <3>2, <3>3 DEF Lifecycle
  <2> QED
    BY <2>1, <2>3, <2>4, <2>5 DEF fdoVars, pdoVars
<1>13. CASE RemoveDevice
  BY <1>13, IdRange, ZeroPdoType DEF RemoveDevice, Running, OneHandler, PointerShape, HeldPointers, Lifecycle, DistinctIds
<1>14. CASE DriverContextCleanup
  BY <1>14, IdRange DEF DriverContextCleanup, Idle, fdoVars, pdoVars, Pcs, Running, OneHandler, PointerShape, HeldPointers, Lifecycle, DistinctIds
<1>15. CASE UNCHANGED vars
  BY <1>15 DEF vars, pnpVars, fdoVars, pdoVars, Running, OneHandler, PointerShape, HeldPointers, Lifecycle, DistinctIds
<1> QED
  BY <1>1, <1>2, <1>3, <1>4, <1>5, <1>6, <1>7, <1>8, <1>9, <1>11, <1>12, <1>13, <1>14, <1>15
  DEF Next, Handler, PnP

THEOREM InvCorrect == Spec => []Inv
<1>1. Init => Inv
  BY IdRange, ZeroPdoType DEF Init, Inv, Types, Pcs, NoShm, Idle, Running, PdoWeakType,
     OneHandler, PointerShape, HeldPointers, Lifecycle, DistinctIds
<1> QED
  BY <1>1, InvStep, PTL DEF Spec

(* A handler never uses a controller that another handler has deleted: the *)
(* pointer CtrlDevFindController returned, and the one kept while a        *)
(* controller is created or deleted outside the lock, stay good.           *)
THEOREM NoUseAfterDeleteCorrect == Spec => []NoUseAfterDelete
<1>1. Inv => NoUseAfterDelete
  BY DEF Inv, Types, Pcs, PointerShape, HeldPointers, NoUseAfterDelete
<1> QED
  BY <1>1, InvCorrect, PTL

(* No two controllers have the same id, whatever the width of the counter. *)
THEOREM DistinctIdsCorrect == Spec => []DistinctIds
<1>1. Inv => DistinctIds
  BY DEF Inv
<1> QED
  BY <1>1, InvCorrect, PTL

(* No handler is running once D0Exit has returned. *)
THEOREM NoHandlerAfterD0ExitCorrect == Spec => []NoHandlerAfterD0Exit
<1>1. Inv => NoHandlerAfterD0Exit
  BY DEF Inv, Lifecycle, NoHandlerAfterD0Exit
<1> QED
  BY <1>1, InvCorrect, PTL

(* The division check: what passes it has not overflowed. *)
LEMMA NoOverflow ==
  ASSUME NEW blocks \in Blocks, NEW size \in Sizes, ConfigOK(blocks, size)
  PROVE  /\ (blocks * EffectiveSize(size)) % Wrap = blocks * EffectiveSize(size)
         /\ (blocks * EffectiveSize(size)) % Wrap \in 1 .. MaxCapacity
<1> DEFINE bs == EffectiveSize(size)
           total == (blocks * bs) % Wrap
<1>1. bs \in Nat /\ bs > 0 /\ blocks \in Nat /\ blocks > 0
  BY DEF ConfigOK, EffectiveSize
<1>2. total \div bs = blocks /\ total <= MaxCapacity
  BY DEF ConfigOK
<1> HIDE DEF bs
<1>3. blocks * bs \in Nat /\ blocks * bs > 0
  BY <1>1
<1>4. total \in Nat /\ total <= blocks * bs
  BY <1>3
<1> HIDE DEF total
<1>5. total >= bs * (total \div bs)
  BY <1>1, <1>4
<1>6. total = blocks * bs
  BY <1>1, <1>2, <1>3, <1>4, <1>5
<1> QED
  BY <1>2, <1>3, <1>6 DEF total, bs

(* The byte count of a slot, wherever the slot is. *)
Exact ==
  \A p \in Pdos, n \in Slots : LET ns == pdo[p].Namespaces[n] IN
    ns.Active => ns.TotalBytes = ns.TotalBlocks * ns.BlockSize /\ ns.TotalBytes \in 1 .. MaxCapacity

(* The NamespaceCount of p when its slot n is active or not from now on. *)
CountAfter(p, n, active, count) ==
  count = pdo[p].NamespaceCount + (IF active THEN 1 ELSE 0) - (IF pdo[p].Namespaces[n].Active THEN 1 ELSE 0)

(* How a step may change the PDO contexts: not at all, to zeroed ones, or  *)
(* one slot of a controller that exists.                                   *)
LEMMA PdoChange ==
  ASSUME Inv, [Next]_vars
  PROVE  \/ pdo' = pdo
         \/ \E p \in Pdos, id \in Ids : pdo' = [pdo EXCEPT ![p] = ZeroPdo(id)]
         \/ pdo' = [p \in Pdos |-> ZeroPdo(0)]
         \/ \E p \in live, n \in Slots, count \in Int : CountAfter(p, n, FALSE, count) /\ SetSlot(p, n, EmptySlot, count)
         \/ \E p \in live, n \in Slots, count \in Int, s \in Storages, blocks \in Blocks, size \in Sizes :
              ConfigOK(blocks, size) /\ CountAfter(p, n, TRUE, count) /\ SetSlot(p, n, NewSlot(s, blocks, size), count)
<1>1. ASSUME NEW c \in Clients, CreatePdo(c) \/ DeletePdo(c) PROVE
        \/ pdo' = pdo
        \/ \E p \in Pdos, id \in Ids : pdo' = [pdo EXCEPT ![p] = ZeroPdo(id)]
  <2>1. CASE CreatePdo(c)
    BY <2>1 DEF CreatePdo, pdoVars, Inv, Types
  <2>2. CASE DeletePdo(c)
    BY <2>2, IdRange DEF DeletePdo, At, Inv, Types, HeldPointers
  <2> QED
    BY <1>1, <2>1, <2>2
<1>2. ASSUME NEW c \in Clients, CreateNamespace(c) \/ DeleteNamespace(c) PROVE
        /\ handler[c].pdo \in live /\ pdo[handler[c].pdo].NamespaceCount \in Int
  BY <1>2 DEF CreateNamespace, DeleteNamespace, At, Inv, Types, HeldPointers
<1>3. ASSUME NEW c \in Clients, CreateNamespace(c) PROVE
        \/ pdo' = pdo
        \/ \E p \in live, n \in Slots, count \in Int : CountAfter(p, n, FALSE, count) /\ SetSlot(p, n, EmptySlot, count)
        \/ \E p \in live, n \in Slots, count \in Int, s \in Storages, blocks \in Blocks, size \in Sizes :
             ConfigOK(blocks, size) /\ CountAfter(p, n, TRUE, count) /\ SetSlot(p, n, NewSlot(s, blocks, size), count)
  <2> DEFINE p == handler[c].pdo
  <2>1. p \in live /\ pdo[p].NamespaceCount \in Int
    BY <1>2, <1>3
  <2>2. \A n \in Slots : FirstFree(p, n) =>
          /\ CountAfter(p, n, FALSE, pdo[p].NamespaceCount)
          /\ CountAfter(p, n, TRUE, pdo[p].NamespaceCount + 1)
    BY <2>1 DEF CountAfter, FirstFree
  <2>3. \/ pdo' = pdo
        \/ \E n \in Slots : FirstFree(p, n) /\ SetSlot(p, n, EmptySlot, pdo[p].NamespaceCount)
        \/ \E n \in Slots, s \in Storages, blocks \in Blocks, size \in Sizes :
             /\ FirstFree(p, n) /\ ConfigOK(blocks, size)
             /\ SetSlot(p, n, NewSlot(s, blocks, size), pdo[p].NamespaceCount + 1)
    BY <1>3 DEF CreateNamespace
  <2>4. pdo[p].NamespaceCount + 1 \in Int
    BY <2>1
  <2> HIDE DEF p
  <2> QED
    BY <2>1, <2>2, <2>3, <2>4
<1>4. ASSUME NEW c \in Clients, DeleteNamespace(c) PROVE
        pdo' = pdo \/ \E p \in live, n \in Slots, count \in Int : CountAfter(p, n, FALSE, count) /\ SetSlot(p, n, EmptySlot, count)
  <2> DEFINE p == handler[c].pdo
  <2>1. p \in live /\ pdo[p].NamespaceCount \in Int
    BY <1>2, <1>4
  <2>2. \/ pdo' = pdo
        \/ \E n \in Slots : pdo[p].Namespaces[n].Active /\ SetSlot(p, n, EmptySlot, pdo[p].NamespaceCount - 1)
    BY <1>4 DEF DeleteNamespace
  <2>3. pdo[p].NamespaceCount - 1 \in Int
    BY <2>1
  <2>4. \A n \in Slots : pdo[p].Namespaces[n].Active => CountAfter(p, n, FALSE, pdo[p].NamespaceCount - 1)
    BY <2>1 DEF CountAfter
  <2> HIDE DEF p
  <2> QED
    BY <2>1, <2>2, <2>3, <2>4
<1>5. CASE RemoveDevice
  BY <1>5 DEF RemoveDevice
<1>6. CASE \/ \E c \in Clients : Submit(c) \/ Dispatch(c) \/ CreateReserve(c) \/ InsertPdo(c)
                              \/ DeleteUnlink(c) \/ CtrlDevFindController(c) \/ ListNamespaces(c) \/ MapShm(c)
           \/ DeviceAdd \/ PrepareHardware \/ D0Entry \/ D0Exit \/ D0ExitDrained \/ ReleaseHardware
           \/ DriverContextCleanup \/ UNCHANGED vars
  <2>1. pdo' = pdo
    BY <1>6 DEF Submit, Dispatch, CreateReserve, InsertPdo, DeleteUnlink, CtrlDevFindController,
       ListNamespaces, MapShm, DeviceAdd, PrepareHardware, D0Entry, D0Exit, D0ExitDrained,
       ReleaseHardware, DriverContextCleanup, vars, pdoVars
  <2> QED
    BY <2>1
<1> QED
  BY <1>1, <1>3, <1>4, <1>5, <1>6 DEF Next, Handler, PnP

LEMMA ExactStep == Inv /\ Exact /\ [Next]_vars => Exact'
<1> SUFFICES ASSUME Inv, Exact, [Next]_vars PROVE Exact'
  OBVIOUS
<1>1. pdo \in [Pdos -> PdoWeakType]
  BY DEF Inv, Types, PdoWeakType
<1>2. CASE pdo' = pdo
  BY <1>2 DEF Exact
<1>3. \A id \in Ids, n \in Slots : ~ZeroPdo(id).Namespaces[n].Active
  BY DEF ZeroPdo, EmptySlot
<1>4. ASSUME NEW p \in Pdos, NEW id \in Ids, pdo' = [pdo EXCEPT ![p] = ZeroPdo(id)] PROVE Exact'
  BY <1>1, <1>3, <1>4 DEF Exact
<1>5. CASE pdo' = [p \in Pdos |-> ZeroPdo(0)]
  BY <1>3, <1>5, IdRange DEF Exact
<1>6. ASSUME NEW p \in live, NEW n \in Slots, NEW count \in Int, SetSlot(p, n, EmptySlot, count) PROVE Exact'
  <2>1. p \in Pdos /\ ~EmptySlot.Active
    BY DEF Inv, Types, EmptySlot
  <2> QED
    BY <1>1, <1>6, <2>1, EmptySlotType, SetSlotEffect DEF Exact
<1>7. ASSUME NEW p \in live, NEW n \in Slots, NEW count \in Int, NEW s \in Storages,
             NEW blocks \in Blocks, NEW size \in Sizes,
             ConfigOK(blocks, size), SetSlot(p, n, NewSlot(s, blocks, size), count)
      PROVE  Exact'
  <2> DEFINE slot == NewSlot(s, blocks, size)
  <2>1. slot.TotalBytes = slot.TotalBlocks * slot.BlockSize /\ slot.TotalBytes \in 1 .. MaxCapacity
    BY <1>7, NoOverflow DEF NewSlot
  <2>2. slot \in SlotType /\ p \in Pdos
    BY NewSlotType DEF Inv, Types
  <2> HIDE DEF slot
  <2>3. \A q \in Pdos, m \in Slots :
          pdo'[q].Namespaces[m] = IF q = p /\ m = n THEN slot ELSE pdo[q].Namespaces[m]
    BY <1>1, <1>7, <2>2, SetSlotEffect DEF slot
  <2> QED
    BY <2>1, <2>3 DEF Exact
<1> QED
  BY <1>2, <1>4, <1>5, <1>6, <1>7, PdoChange

(* The byte count of a namespace is the true product, for any width of the *)
(* multiplication and any limits.                                          *)
THEOREM CapacityIsExactCorrect == Spec => []CapacityIsExact
<1>1. Init => Exact
  BY DEF Init, Exact, ZeroPdo, EmptySlot
<1>2. Inv /\ Exact => CapacityIsExact
  BY DEF Inv, Types, Exact, CapacityIsExact
<1> QED
  BY <1>1, <1>2, InvCorrect, ExactStep, PTL DEF Spec

(* Who owns the storages.  A context that is gone owns none, so that the   *)
(* controllers that exist can be read as all the contexts.                 *)
Owns(p, n, s) == pdo[p].Namespaces[n].Active /\ pdo[p].Namespaces[n].Storage = s

Ownership ==
  /\ storage \in [Storages -> {"free", "memory", "file"}] /\ orphaned \subseteq Storages
  /\ \A p \in Pdos \ live, n \in Slots : ~pdo[p].Namespaces[n].Active
  /\ \A p \in Pdos, n \in Slots : pdo[p].Namespaces[n].Active => pdo[p].Namespaces[n].Storage \in Storages
  /\ \A p, q \in Pdos, n, m \in Slots, s \in Storages : Owns(p, n, s) /\ Owns(q, m, s) => p = q /\ n = m
  /\ \A p \in Pdos, n \in Slots, s \in Storages : Owns(p, n, s) => s \notin orphaned
  /\ \A s \in Storages :
       storage[s] # "free" <=> s \in orphaned \/ \E p \in Pdos, n \in Slots : Owns(p, n, s)

LEMMA OwnershipStep == Inv /\ Ownership /\ [Next]_vars => Ownership'
<1> SUFFICES ASSUME Inv, Ownership, [Next]_vars PROVE Ownership'
  OBVIOUS
<1>1. pdo \in [Pdos -> PdoWeakType] /\ live \subseteq Pdos
  BY DEF Inv, Types, PdoWeakType
<1>2. \A id \in Ids, n \in Slots : ~ZeroPdo(id).Namespaces[n].Active
  BY DEF ZeroPdo, EmptySlot
<1>3. ASSUME NEW c \in Clients, CreatePdo(c) PROVE Ownership'
  <2>1. CASE UNCHANGED <<pdo, live, storage, orphaned>>
    BY <2>1 DEF Ownership, Owns
  <2>2. ASSUME NEW p \in Pdos \ live, live' = live \cup {p}, NEW id \in Ids,
               pdo' = [pdo EXCEPT ![p] = ZeroPdo(id)], UNCHANGED <<storage, orphaned>>
        PROVE  Ownership'
    <3>1. \A q \in Pdos : pdo'[q] = IF q = p THEN ZeroPdo(id) ELSE pdo[q]
      BY <1>1, <2>2
    <3>2. \A q \in Pdos, n \in Slots, s \in Storages : Owns(q, n, s)' <=> Owns(q, n, s)
      BY <1>2, <2>2, <3>1 DEF Owns, Ownership
    <3>3. \A q \in Pdos, n \in Slots : pdo'[q].Namespaces[n].Active =>
            pdo[q].Namespaces[n].Active /\ pdo'[q].Namespaces[n].Storage = pdo[q].Namespaces[n].Storage
      BY <1>2, <3>1
    <3> QED
      BY <2>2, <3>2, <3>3 DEF Ownership
  <2>3. handler[c].id \in Ids
    BY DEF Inv, Types
  <2> QED
    BY <1>3, <2>1, <2>2, <2>3 DEF CreatePdo, storageVars, pdoVars
<1>4. ASSUME NEW c \in Clients, DeletePdo(c) PROVE Ownership'
  <2>0. PICK p \in Pdos : p = handler[c].pdo
    BY <1>4 DEF DeletePdo, At, Inv, Types, HeldPointers
  <2>1. /\ live' = live \ {p} /\ pdo' = [pdo EXCEPT ![p] = ZeroPdo(0)]
        /\ orphaned' = orphaned \cup StoragesOf({p}) /\ storage' = storage
    BY <1>4, <2>0 DEF DeletePdo
  <2>2. \A q \in Pdos : pdo'[q] = IF q = p THEN ZeroPdo(0) ELSE pdo[q]
    BY <1>1, <2>1
  <2>3. \A q \in Pdos, n \in Slots, s \in Storages : Owns(q, n, s)' <=> q # p /\ Owns(q, n, s)
    BY <1>2, <2>2, IdRange DEF Owns
  <2>4. \A s \in Storages : s \in orphaned' <=> s \in orphaned \/ \E n \in Slots : Owns(p, n, s)
    BY <2>1 DEF StoragesOf, Owns
  <2>5. \A q \in Pdos, n \in Slots : pdo'[q].Namespaces[n].Active =>
          q # p /\ pdo[q].Namespaces[n].Active /\ pdo'[q].Namespaces[n].Storage = pdo[q].Namespaces[n].Storage
    BY <1>2, <2>2, IdRange
  <2>6. orphaned' \subseteq Storages
    BY <2>1 DEF StoragesOf, Ownership
  <2>7. /\ \A q \in Pdos \ live', n \in Slots : ~pdo'[q].Namespaces[n].Active
        /\ \A q \in Pdos, n \in Slots : pdo'[q].Namespaces[n].Active => pdo'[q].Namespaces[n].Storage \in Storages
    BY <2>1, <2>5 DEF Ownership
  <2>8. \A q, r \in Pdos, n, m \in Slots, s \in Storages : Owns(q, n, s)' /\ Owns(r, m, s)' => q = r /\ n = m
    BY <2>3 DEF Ownership
  <2>9. \A q \in Pdos, n \in Slots, s \in Storages : Owns(q, n, s)' => s \notin orphaned'
    BY <2>3, <2>4 DEF Ownership
  <2>10. \A s \in Storages :
           s \in orphaned' \/ (\E q \in Pdos, n \in Slots : Owns(q, n, s)')
             <=> s \in orphaned \/ \E q \in Pdos, n \in Slots : Owns(q, n, s)
    BY <2>3, <2>4
  <2>11. \A s \in Storages :
           storage'[s] # "free" <=> s \in orphaned' \/ \E q \in Pdos, n \in Slots : Owns(q, n, s)'
    BY <2>1, <2>10 DEF Ownership
  <2> QED
    BY <2>1, <2>6, <2>7, <2>8, <2>9, <2>11 DEF Ownership
<1>5. CASE RemoveDevice
  <2>1. /\ live' = {} /\ pdo' = [p \in Pdos |-> ZeroPdo(0)]
        /\ orphaned' = orphaned \cup StoragesOf(live) /\ storage' = storage
    BY <1>5 DEF RemoveDevice
  <2>2. \A q \in Pdos, n \in Slots : ~pdo'[q].Namespaces[n].Active
    BY <1>2, <2>1, IdRange
  <2>3. \A s \in Storages : s \in orphaned' <=> s \in orphaned \/ \E p \in Pdos, n \in Slots : Owns(p, n, s)
    BY <1>1, <2>1 DEF StoragesOf, Owns, Ownership
  <2>4. orphaned' \subseteq Storages
    BY <2>1 DEF StoragesOf, Ownership
  <2> QED
    BY <2>1, <2>2, <2>3, <2>4 DEF Ownership, Owns
<1>6. ASSUME NEW c \in Clients, CreateNamespace(c) PROVE Ownership'
  <2>0. PICK p \in Pdos : p = handler[c].pdo /\ p \in live
    BY <1>6 DEF CreateNamespace, At, Inv, Types, HeldPointers
  <2>1. pdo[p].NamespaceCount \in Int /\ UNCHANGED <<live, orphaned>>
    BY <1>6 DEF CreateNamespace, Inv, Types
  <2>2. CASE UNCHANGED <<pdo, storage>>
    BY <2>1, <2>2 DEF Ownership, Owns
  <2>3. ASSUME NEW n \in Slots, ~pdo[p].Namespaces[n].Active,
               SetSlot(p, n, EmptySlot, pdo[p].NamespaceCount), storage' = storage
        PROVE  Ownership'
    <3>1. \A q \in Pdos, m \in Slots :
            pdo'[q].Namespaces[m] = IF q = p /\ m = n THEN EmptySlot ELSE pdo[q].Namespaces[m]
      BY <1>1, <2>1, <2>3, EmptySlotType, SetSlotEffect
    <3>2. ~EmptySlot.Active
      BY DEF EmptySlot
    <3>3. \A q \in Pdos, m \in Slots, s \in Storages : Owns(q, m, s)' <=> Owns(q, m, s)
      BY <2>3, <3>1, <3>2 DEF Owns
    <3>4. \A q \in Pdos, m \in Slots : pdo'[q].Namespaces[m].Active =>
            pdo[q].Namespaces[m].Active /\ pdo'[q].Namespaces[m].Storage = pdo[q].Namespaces[m].Storage
      BY <3>1, <3>2
    <3> QED
      BY <2>1, <2>3, <3>3, <3>4 DEF Ownership
  <2>4. ASSUME NEW n \in Slots, ~pdo[p].Namespaces[n].Active, NEW blocks \in Blocks, NEW size \in Sizes,
               NEW s \in Storages, storage[s] = "free", NEW type \in {"memory", "file"},
               storage' = [storage EXCEPT ![s] = type],
               SetSlot(p, n, NewSlot(s, blocks, size), pdo[p].NamespaceCount + 1)
        PROVE  Ownership'
    <3> DEFINE slot == NewSlot(s, blocks, size)
    <3>1. slot \in SlotType /\ slot.Active /\ slot.Storage = s /\ pdo[p].NamespaceCount + 1 \in Int
      BY <2>1, NewSlotType DEF NewSlot
    <3>2. \A q \in Pdos, m \in Slots :
            pdo'[q].Namespaces[m] = IF q = p /\ m = n THEN slot ELSE pdo[q].Namespaces[m]
      BY <1>1, <2>1, <2>4, <3>1, SetSlotEffect
    <3> HIDE DEF slot
    <3>3. \A q \in Pdos, m \in Slots, t \in Storages :
            Owns(q, m, t)' <=> IF q = p /\ m = n THEN t = s ELSE Owns(q, m, t)
      BY <3>1, <3>2 DEF Owns
    <3>4. \A q \in Pdos, m \in Slots : ~Owns(q, m, s) /\ s \notin orphaned
      BY <2>4 DEF Ownership
    <3>5. \A t \in Storages : storage'[t] = IF t = s THEN type ELSE storage[t]
      BY <2>4 DEF Ownership
    <3>6. storage' \in [Storages -> {"free", "memory", "file"}]
      BY <2>4 DEF Ownership
    <3>7. \A t \in Storages :
            storage'[t] # "free" <=> t \in orphaned' \/ \E q \in Pdos, m \in Slots : Owns(q, m, t)'
      <4>1. storage'[s] # "free" /\ Owns(p, n, s)'
        BY <2>4, <3>3, <3>5
      <4>2. \A t \in Storages \ {s}, q \in Pdos, m \in Slots : Owns(q, m, t)' <=> Owns(q, m, t)
        BY <2>4, <3>3 DEF Owns
      <4>3. \A t \in Storages \ {s} : storage'[t] = storage[t]
        BY <3>5
      <4> QED
        BY <2>1, <4>1, <4>2, <4>3 DEF Ownership
    <3>8. \A q \in Pdos \ live', m \in Slots : ~pdo'[q].Namespaces[m].Active
      BY <2>0, <2>1, <3>2 DEF Ownership
    <3>9. \A q \in Pdos, m \in Slots : pdo'[q].Namespaces[m].Active => pdo'[q].Namespaces[m].Storage \in Storages
      BY <3>1, <3>2 DEF Ownership
    <3>10. \A q, r \in Pdos, m, l \in Slots, t \in Storages :
             Owns(q, m, t)' /\ Owns(r, l, t)' => q = r /\ m = l
      BY <3>3, <3>4 DEF Ownership
    <3>11. \A q \in Pdos, m \in Slots, t \in Storages : Owns(q, m, t)' => t \notin orphaned'
      BY <2>1, <3>3, <3>4 DEF Ownership
    <3> QED
      BY <2>1, <3>6, <3>7, <3>8, <3>9, <3>10, <3>11 DEF Ownership
  <2>5. \A sparse \in BOOLEAN : Backend(sparse) \in {"memory", "file"}
    BY DEF Backend
  <2>6. PICK blocks \in Blocks, size \in Sizes, sparse \in BOOLEAN :
          \/ UNCHANGED <<pdo, storage>>
          \/ \E n \in Slots :
               /\ FirstFree(p, n)
               /\ \/ SetSlot(p, n, EmptySlot, pdo[p].NamespaceCount) /\ UNCHANGED storage
                  \/ \E s \in Storages :
                       /\ storage[s] = "free" /\ CanOpen(Backend(sparse))
                       /\ storage' = [storage EXCEPT ![s] = Backend(sparse)]
                       /\ SetSlot(p, n, NewSlot(s, blocks, size), pdo[p].NamespaceCount + 1)
    BY <1>6, <2>0 DEF CreateNamespace
  <2> QED
    BY <2>2, <2>3, <2>4, <2>5, <2>6 DEF FirstFree
<1>7. ASSUME NEW c \in Clients, DeleteNamespace(c) PROVE Ownership'
  <2>0. PICK p \in Pdos : p = handler[c].pdo /\ p \in live
    BY <1>7 DEF DeleteNamespace, At, Inv, Types, HeldPointers
  <2>1. pdo[p].NamespaceCount \in Int /\ UNCHANGED <<live, orphaned>>
    BY <1>7 DEF DeleteNamespace, Inv, Types
  <2>2. CASE UNCHANGED <<pdo, storage>>
    BY <2>1, <2>2 DEF Ownership, Owns
  <2>3. ASSUME NEW n \in Slots, pdo[p].Namespaces[n].Active,
               storage' = [storage EXCEPT ![pdo[p].Namespaces[n].Storage] = "free"],
               SetSlot(p, n, EmptySlot, pdo[p].NamespaceCount - 1)
        PROVE  Ownership'
    <3>0. PICK s \in Storages : s = pdo[p].Namespaces[n].Storage
      BY <2>3 DEF Ownership
    <3>1. pdo[p].NamespaceCount - 1 \in Int /\ ~EmptySlot.Active
      BY <2>1 DEF EmptySlot
    <3>2. \A q \in Pdos, m \in Slots :
            pdo'[q].Namespaces[m] = IF q = p /\ m = n THEN EmptySlot ELSE pdo[q].Namespaces[m]
      BY <1>1, <2>1, <2>3, <3>1, EmptySlotType, SetSlotEffect
    <3>3. Owns(p, n, s)
      BY <2>3, <3>0 DEF Owns
    <3>4. storage' = [storage EXCEPT ![s] = "free"]
      BY <2>3, <3>0
    <3>5. \A q \in Pdos, m \in Slots, t \in Storages :
            Owns(q, m, t)' <=> Owns(q, m, t) /\ ~(q = p /\ m = n)
      BY <3>1, <3>2 DEF Owns
    <3>6. /\ storage' \in [Storages -> {"free", "memory", "file"}]
          /\ \A t \in Storages : storage'[t] = IF t = s THEN "free" ELSE storage[t]
      BY <3>3, <3>4 DEF Ownership
    <3>7. \A q \in Pdos, m \in Slots, t \in Storages \ {s} : Owns(q, m, t)' <=> Owns(q, m, t)
      BY <3>3, <3>5 DEF Owns
    <3>8. s \notin orphaned /\ \A q \in Pdos, m \in Slots : ~Owns(q, m, s)'
      BY <2>1, <3>3, <3>5 DEF Ownership
    <3>9. \A q \in Pdos, m \in Slots : pdo'[q].Namespaces[m].Active =>
            pdo[q].Namespaces[m].Active /\ pdo'[q].Namespaces[m].Storage = pdo[q].Namespaces[m].Storage
      BY <3>1, <3>2
    <3>10. \A t \in Storages :
             storage'[t] # "free" <=> t \in orphaned' \/ \E q \in Pdos, m \in Slots : Owns(q, m, t)'
      <4>1. storage'[s] = "free" /\ s \notin orphaned' /\ ~\E q \in Pdos, m \in Slots : Owns(q, m, s)'
        BY <2>1, <3>3, <3>6, <3>8
      <4>2. \A t \in Storages \ {s} : storage'[t] = storage[t] /\ (t \in orphaned' <=> t \in orphaned)
        BY <2>1, <3>6
      <4> QED
        BY <3>7, <4>1, <4>2 DEF Ownership
    <3>11. \A q, r \in Pdos, m, l \in Slots, t \in Storages :
             Owns(q, m, t)' /\ Owns(r, l, t)' => q = r /\ m = l
      BY <3>5 DEF Ownership
    <3>12. \A q \in Pdos, m \in Slots, t \in Storages : Owns(q, m, t)' => t \notin orphaned'
      BY <2>1, <3>5 DEF Ownership
    <3> QED
      BY <2>1, <3>6, <3>9, <3>10, <3>11, <3>12 DEF Ownership
  <2>4. \/ UNCHANGED <<pdo, storage>>
        \/ \E n \in Slots :
             /\ pdo[p].Namespaces[n].Active
             /\ storage' = [storage EXCEPT ![pdo[p].Namespaces[n].Storage] = "free"]
             /\ SetSlot(p, n, EmptySlot, pdo[p].NamespaceCount - 1)
    <3>1. PICK nsid \in 0 .. MaxNamespaces + 1 :
            \/ UNCHANGED <<pdo, storage>>
            \/ /\ nsid \in Slots /\ pdo[p].Namespaces[nsid].Active
               /\ VnvmeStorageDestroy(pdo[p].Namespaces[nsid].Storage)
               /\ SetSlot(p, nsid, EmptySlot, pdo[p].NamespaceCount - 1)
      BY <1>7, <2>0 DEF DeleteNamespace
    <3> QED
      BY <3>1 DEF VnvmeStorageDestroy
  <2> QED
    BY <2>2, <2>3, <2>4
<1>8. CASE \/ \E c \in Clients : Submit(c) \/ Dispatch(c) \/ CreateReserve(c) \/ InsertPdo(c)
                              \/ DeleteUnlink(c) \/ CtrlDevFindController(c) \/ ListNamespaces(c) \/ MapShm(c)
           \/ DeviceAdd \/ PrepareHardware \/ D0Entry \/ D0Exit \/ D0ExitDrained \/ ReleaseHardware
           \/ DriverContextCleanup \/ UNCHANGED vars
  <2>1. UNCHANGED <<pdo, live, storage, orphaned>>
    BY <1>8 DEF Submit, Dispatch, CreateReserve, InsertPdo, DeleteUnlink, CtrlDevFindController,
       ListNamespaces, MapShm, DeviceAdd, PrepareHardware, D0Entry, D0Exit, D0ExitDrained,
       ReleaseHardware, DriverContextCleanup, vars, pdoVars, storageVars
  <2> QED
    BY <2>1 DEF Ownership, Owns
<1> QED
  BY <1>3, <1>4, <1>5, <1>6, <1>7, <1>8 DEF Next, Handler, PnP

(* Every storage has one owner, and only the deletion of a controller, or  *)
(* of the FDO, leaves one without.                                         *)
THEOREM StorageHasOneOwnerCorrect == Spec => []StorageHasOneOwner
<1>1. Init => Ownership
  BY DEF Init, Ownership, Owns, ZeroPdo, EmptySlot
<1>2. Inv /\ Ownership => StorageHasOneOwner
  <2> SUFFICES ASSUME Inv, Ownership PROVE StorageHasOneOwner
    OBVIOUS
  <2>1. live \subseteq Pdos
    BY DEF Inv, Types
  <2>2. \A s \in Storages : s \in StoragesOf(live) <=> \E p \in Pdos, n \in Slots : Owns(p, n, s)
    BY <2>1 DEF StoragesOf, Ownership, Owns
  <2>3. {s \in Storages : storage[s] # "free"} = StoragesOf(live) \cup orphaned
    BY <2>2 DEF Ownership, StoragesOf
  <2>4. ASSUME NEW p \in live, NEW n \in Slots, pdo[p].Namespaces[n].Active,
               NEW s, s = pdo[p].Namespaces[n].Storage
        PROVE  /\ s \in Storages /\ storage[s] # "free" /\ s \notin orphaned
               /\ \A q \in live, m \in Slots :
                    pdo[q].Namespaces[m].Active /\ pdo[q].Namespaces[m].Storage = s => q = p /\ m = n
    BY <2>1, <2>4 DEF Ownership, Owns
  <2> QED
    BY <2>3, <2>4 DEF StorageHasOneOwner
<1> QED
  BY <1>1, <1>2, InvCorrect, OwnershipStep, PTL DEF Spec

(* A user mapping that is recorded is backed by its MDL and its memory.    *)
THEOREM MappingBackedCorrect == Spec => []MappingBacked
<1>1. Init => MappingBacked
  BY DEF Init, NoShm, MappingBacked
<1>2. Inv /\ MappingBacked /\ [Next]_vars => MappingBacked'
  <2> SUFFICES ASSUME Inv, MappingBacked, [Next]_vars PROVE MappingBacked'
    OBVIOUS
  <2>1. ASSUME NEW c \in Clients, MapShm(c) PROVE MappingBacked'
    BY <2>1 DEF MapShm, UnmapShmFromUser, MappingBacked, Inv, Types
  <2>2. CASE PrepareHardware
    BY <2>2 DEF PrepareHardware, MappingBacked, Inv, Types
  <2>3. CASE ReleaseHardware
    BY <2>3 DEF ReleaseHardware, FreeShm, UnmapShmFromUser, MappingBacked, Inv, Types
  <2>4. CASE \/ \E c \in Clients : Submit(c) \/ Dispatch(c) \/ CreateReserve(c) \/ CreatePdo(c) \/ InsertPdo(c)
                                \/ DeleteUnlink(c) \/ DeletePdo(c) \/ CtrlDevFindController(c)
                                \/ CreateNamespace(c) \/ DeleteNamespace(c) \/ ListNamespaces(c)
             \/ DeviceAdd \/ D0Entry \/ D0Exit \/ D0ExitDrained \/ RemoveDevice
             \/ DriverContextCleanup \/ UNCHANGED vars
    <3>1. ASSUME NEW c \in Clients, CreateNamespace(c) PROVE shm' = shm
      BY <3>1 DEF CreateNamespace
    <3>2. ASSUME NEW c \in Clients, DeleteNamespace(c) PROVE shm' = shm
      BY <3>2 DEF DeleteNamespace
    <3>3. shm' = shm
      BY <2>4, <3>1, <3>2 DEF Submit, Dispatch, CreateReserve, CreatePdo, InsertPdo, DeleteUnlink, DeletePdo,
         CtrlDevFindController, ListNamespaces, DeviceAdd, D0Entry,
         D0Exit, D0ExitDrained, RemoveDevice, DriverContextCleanup, vars
    <3> QED
      BY <3>3 DEF MappingBacked
  <2> QED
    BY <2>1, <2>2, <2>3, <2>4 DEF Next, Handler, PnP
<1> QED
  BY <1>1, <1>2, InvCorrect, PTL DEF Spec

-----------------------------------------------------------------------------
(* The counters *)

ActiveSlots(p) == {n \in Slots : pdo[p].Namespaces[n].Active}
NamespaceCounts == \A p \in Pdos : pdo[p].NamespaceCount = Cardinality(ActiveSlots(p))

LEMMA SlotsFinite ==
  \A T \in SUBSET Slots : IsFiniteSet(T) /\ Cardinality(T) \in Nat
<1>1. IsFiniteSet(Slots)
  BY FS_Interval DEF Slots
<1> QED
  BY <1>1, FS_Subset, FS_CardinalityType

(* One slot is set: the count follows the slot's old and new state. *)
LEMMA CountFollowsSlot ==
  ASSUME NamespaceCounts, pdo \in [Pdos -> PdoWeakType],
         NEW p \in Pdos, NEW n \in Slots, NEW slot \in SlotType, NEW count \in Int,
         CountAfter(p, n, slot.Active, count), SetSlot(p, n, slot, count)
  PROVE  NamespaceCounts'
<1>1. /\ \A q \in Pdos, m \in Slots :
           pdo'[q].Namespaces[m] = IF q = p /\ m = n THEN slot ELSE pdo[q].Namespaces[m]
      /\ \A q \in Pdos : pdo'[q].NamespaceCount = IF q = p THEN count ELSE pdo[q].NamespaceCount
  BY SetSlotEffect
<1>2. ASSUME NEW q \in Pdos, q # p PROVE pdo'[q].NamespaceCount = Cardinality(ActiveSlots(q)')
  <2>1. ActiveSlots(q)' = ActiveSlots(q)
    BY <1>1, <1>2 DEF ActiveSlots
  <2> QED
    BY <1>1, <1>2, <2>1 DEF NamespaceCounts
<1>3. count = Cardinality(ActiveSlots(p)')
  <2>1. PICK S : S = ActiveSlots(p)
    OBVIOUS
  <2>2. /\ S \in SUBSET Slots /\ IsFiniteSet(S) /\ Cardinality(S) \in Nat
        /\ pdo[p].NamespaceCount = Cardinality(S)
    BY <2>1, SlotsFinite DEF ActiveSlots, NamespaceCounts
  <2>3. n \in S <=> pdo[p].Namespaces[n].Active
    BY <2>1 DEF ActiveSlots
  <2>4. slot.Active \in BOOLEAN
    BY DEF SlotType
  <2>5. CASE slot.Active
    <3>1. ActiveSlots(p)' = S \cup {n}
      BY <1>1, <2>1, <2>5 DEF ActiveSlots
    <3>2. Cardinality(S \cup {n}) = IF n \in S THEN Cardinality(S) ELSE Cardinality(S) + 1
      BY <2>2, FS_AddElement
    <3> QED
      BY <2>2, <2>3, <2>5, <3>1, <3>2 DEF CountAfter
  <2>6. CASE ~slot.Active
    <3>1. ActiveSlots(p)' = S \ {n}
      BY <1>1, <2>1, <2>6 DEF ActiveSlots
    <3>2. Cardinality(S \ {n}) = IF n \in S THEN Cardinality(S) - 1 ELSE Cardinality(S)
      BY <2>2, FS_RemoveElement
    <3> QED
      BY <2>2, <2>3, <2>6, <3>1, <3>2 DEF CountAfter
  <2> QED
    BY <2>5, <2>6
<1> QED
  BY <1>1, <1>2, <1>3 DEF NamespaceCounts

LEMMA NamespaceCountsStep == Inv /\ NamespaceCounts /\ [Next]_vars => NamespaceCounts'
<1> SUFFICES ASSUME Inv, NamespaceCounts, [Next]_vars PROVE NamespaceCounts'
  OBVIOUS
<1>1. pdo \in [Pdos -> PdoWeakType] /\ live \subseteq Pdos
  BY DEF Inv, Types, PdoWeakType
<1>2. CASE pdo' = pdo
  BY <1>2 DEF NamespaceCounts, ActiveSlots
<1>3. ASSUME NEW id \in Ids, NEW p \in Pdos, pdo'[p] = ZeroPdo(id)
      PROVE  pdo'[p].NamespaceCount = Cardinality(ActiveSlots(p)')
  <2>1. ActiveSlots(p)' = {}
    BY <1>3 DEF ActiveSlots, ZeroPdo, EmptySlot
  <2> QED
    BY <1>3, <2>1, FS_EmptySet DEF ZeroPdo
<1>4. ASSUME NEW p \in Pdos, NEW id \in Ids, pdo' = [pdo EXCEPT ![p] = ZeroPdo(id)] PROVE NamespaceCounts'
  <2>1. ASSUME NEW q \in Pdos, q # p PROVE pdo'[q].NamespaceCount = Cardinality(ActiveSlots(q)')
    <3>1. pdo'[q] = pdo[q]
      BY <1>1, <1>4, <2>1
    <3>2. ActiveSlots(q)' = ActiveSlots(q)
      BY <3>1 DEF ActiveSlots
    <3> QED
      BY <3>1, <3>2 DEF NamespaceCounts
  <2>2. pdo'[p] = ZeroPdo(id)
    BY <1>1, <1>4
  <2> QED
    BY <1>3, <2>1, <2>2 DEF NamespaceCounts
<1>5. CASE pdo' = [p \in Pdos |-> ZeroPdo(0)]
  BY <1>3, <1>5, IdRange DEF NamespaceCounts
<1>6. ASSUME NEW p \in live, NEW n \in Slots, NEW count \in Int,
             CountAfter(p, n, FALSE, count), SetSlot(p, n, EmptySlot, count)
      PROVE  NamespaceCounts'
  <2>1. EmptySlot.Active = FALSE /\ EmptySlot \in SlotType /\ p \in Pdos
    BY <1>1, EmptySlotType DEF EmptySlot
  <2> QED
    BY <1>1, <1>6, <2>1, CountFollowsSlot
<1>7. ASSUME NEW p \in live, NEW n \in Slots, NEW count \in Int, NEW s \in Storages,
             NEW blocks \in Blocks, NEW size \in Sizes,
             CountAfter(p, n, TRUE, count), SetSlot(p, n, NewSlot(s, blocks, size), count)
      PROVE  NamespaceCounts'
  <2>1. PICK slot : slot = NewSlot(s, blocks, size)
    OBVIOUS
  <2>2. slot.Active = TRUE /\ slot \in SlotType /\ p \in Pdos
    BY <1>1, <2>1, NewSlotType DEF NewSlot
  <2> QED
    BY <1>1, <1>7, <2>1, <2>2, CountFollowsSlot
<1> QED
  BY <1>2, <1>4, <1>5, <1>6, <1>7, PdoChange

(* The controllers that are being made: counted, and not listed yet. *)
Building == {c \in Clients : handler[c].pc \in {"reserved", "created"}}

ListCount ==
  /\ IsFiniteSet(ChildDeviceList)
  /\ g_FdoContext # "valid" => ChildDeviceCount = 0
  /\ g_FdoContext = "valid" =>
       /\ ChildDeviceCount = Cardinality(ChildDeviceList) + Cardinality(Building)
       /\ ChildDeviceCount <= MaxControllers

(* At most one controller is being made. *)
LEMMA BuildingCount ==
  /\ (\A c \in Clients : handler[c].pc \notin {"reserved", "created"}) => Cardinality(Building) = 0
  /\ OneHandler => \A c \in Clients : handler[c].pc \in {"reserved", "created"} => Cardinality(Building) = 1
<1>1. ASSUME \A c \in Clients : handler[c].pc \notin {"reserved", "created"} PROVE Cardinality(Building) = 0
  BY <1>1, FS_EmptySet DEF Building
<1>2. ASSUME OneHandler, NEW c \in Clients, handler[c].pc \in {"reserved", "created"}
      PROVE  Cardinality(Building) = 1
  <2>1. Building = {c}
    BY <1>2 DEF Building, OneHandler, Running
  <2> QED
    BY <2>1, FS_Singleton
<1> QED
  BY <1>1, <1>2

LEMMA ListCountStep == Inv /\ ListCount /\ [Next]_vars => ListCount'
<1> SUFFICES ASSUME Inv, ListCount, [Next]_vars PROVE ListCount'
  OBVIOUS
<1>0. /\ IsFiniteSet(ChildDeviceList) /\ Cardinality(ChildDeviceList) \in Nat /\ OneHandler
      /\ handler \in [Clients -> [pc : Pcs, id : Ids, pdo : Pdos \cup {NoPdo}]]
  BY FS_CardinalityType DEF ListCount, Inv, Types
<1>1. ASSUME UNCHANGED <<g_FdoContext, ChildDeviceList, ChildDeviceCount>>,
             Building' = Building
      PROVE  ListCount'
  BY <1>1 DEF ListCount
(* A handler that is not making a controller changes only its own place.   *)
<1>2. ASSUME NEW c \in Clients, handler[c].pc \notin {"reserved", "created"},
             NEW h, handler' = [handler EXCEPT ![c] = h], h.pc \notin {"reserved", "created"}
      PROVE  Building' = Building
  BY <1>0, <1>2 DEF Building
<1>3. ASSUME NEW c \in Clients, Running(c), handler[c].pc \notin {"reserved", "created"}
      PROVE  Cardinality(Building) = 0
  <2>1. \A d \in Clients : handler[d].pc \notin {"reserved", "created"}
    BY <1>0, <1>3 DEF OneHandler, Running
  <2> QED
    BY <2>1, BuildingCount
<1>4. ASSUME NEW c \in Clients, Running(c), NEW h, handler' = [handler EXCEPT ![c] = h]
      PROVE  /\ h.pc \in {"reserved", "created"} => Cardinality(Building') = 1
             /\ h.pc \notin {"reserved", "created"} => Cardinality(Building') = 0
  <2>1. \A d \in Clients : d # c => handler[d].pc \notin {"reserved", "created"}
    BY <1>0, <1>4 DEF OneHandler, Running
  <2>2. CASE h.pc \in {"reserved", "created"}
    <3>1. Building' = {c}
      BY <1>0, <1>4, <2>1, <2>2 DEF Building
    <3> QED
      BY <2>2, <3>1, FS_Singleton
  <2>3. CASE h.pc \notin {"reserved", "created"}
    <3>1. Building' = {}
      BY <1>0, <1>4, <2>1, <2>3 DEF Building
    <3> QED
      BY <2>3, <3>1, FS_EmptySet
  <2> QED
    BY <2>2, <2>3
<1>5. Idle.pc = "idle"
  BY DEF Idle
<1>6. ASSUME NEW c \in Clients, Submit(c) \/ Dispatch(c) PROVE ListCount'
  <2>1. handler[c].pc \notin {"reserved", "created"} /\ UNCHANGED <<pnpVars, fdoVars>>
    BY <1>6 DEF Submit, Dispatch, Running
  <2>2. \E pc \in {"queued", "dispatched"} : handler' = [handler EXCEPT ![c].pc = pc]
    BY <1>6 DEF Submit, Dispatch
  <2>3. Building' = Building
    BY <1>0, <2>1, <2>2 DEF Building
  <2> QED
    BY <1>1, <2>1, <2>3 DEF pnpVars, fdoVars
<1>7. ASSUME NEW c \in Clients, CreateReserve(c) PROVE ListCount'
  <2>1. /\ g_FdoContext = "valid" /\ handler[c].pc = "dispatched" /\ Running(c)
        /\ UNCHANGED <<g_FdoContext, ChildDeviceList>>
    BY <1>7 DEF CreateReserve, At, pnpVars, Running
  <2>2. Cardinality(Building) = 0
    BY <1>3, <2>1
  <2>3. CASE Complete(c) /\ ChildDeviceCount' = ChildDeviceCount
    <3>1. Cardinality(Building') = 0
      BY <1>4, <1>5, <2>1, <2>3 DEF Complete
    <3> QED
      BY <2>1, <2>2, <2>3, <3>1 DEF ListCount
  <2>4. CASE /\ ChildDeviceCount < MaxControllers
             /\ ChildDeviceCount' = ChildDeviceCount + 1
             /\ handler' = [handler EXCEPT ![c] = [pc |-> "reserved", id |-> NextControllerId, pdo |-> NoPdo]]
    <3>0. PICK h : h = [pc |-> "reserved", id |-> NextControllerId, pdo |-> NoPdo]
      OBVIOUS
    <3>1. Cardinality(Building') = 1
      <4>1. handler' = [handler EXCEPT ![c] = h] /\ h.pc = "reserved"
        BY <2>4, <3>0
      <4> QED
        BY <1>4, <2>1, <4>1
    <3> QED
      BY <1>0, <2>1, <2>2, <2>4, <3>1 DEF ListCount
  <2> QED
    BY <1>7, <2>3, <2>4 DEF CreateReserve
<1>8. ASSUME NEW c \in Clients, CreatePdo(c) PROVE ListCount'
  <2>1. /\ g_FdoContext = "valid" /\ handler[c].pc = "reserved" /\ Running(c)
        /\ UNCHANGED <<g_FdoContext, ChildDeviceList>>
    BY <1>8 DEF CreatePdo, At, pnpVars, Running
  <2>2. Cardinality(Building) = 1
    BY <1>0, <2>1, BuildingCount
  <2>3. CASE Complete(c) /\ ChildDeviceCount' = ChildDeviceCount - 1
    <3>1. Cardinality(Building') = 0
      BY <1>4, <1>5, <2>1, <2>3 DEF Complete
    <3> QED
      BY <1>0, <2>1, <2>2, <2>3, <3>1 DEF ListCount
  <2>4. CASE /\ \E p \in Pdos : handler' = [handler EXCEPT ![c].pc = "created", ![c].pdo = p]
             /\ ChildDeviceCount' = ChildDeviceCount
    <3>1. Building' = Building
      BY <1>0, <2>1, <2>4 DEF Building
    <3> QED
      BY <1>1, <2>1, <2>4, <3>1
  <2> QED
    BY <1>8, <2>3, <2>4 DEF CreatePdo
<1>9. ASSUME NEW c \in Clients, InsertPdo(c) PROVE ListCount'
  <2>1. /\ g_FdoContext = "valid" /\ handler[c].pc = "created" /\ Running(c)
        /\ UNCHANGED <<g_FdoContext, ChildDeviceCount>> /\ Complete(c)
        /\ ChildDeviceList' = ChildDeviceList \cup {handler[c].pdo}
    BY <1>9 DEF InsertPdo, At, pnpVars, Running
  <2>2. Cardinality(Building) = 1 /\ Cardinality(Building') = 0
    BY <1>0, <1>4, <1>5, <2>1, BuildingCount DEF Complete
  <2>3. handler[c].pdo \notin ChildDeviceList
    BY <2>1 DEF Inv, HeldPointers
  <2>4. IsFiniteSet(ChildDeviceList') /\ Cardinality(ChildDeviceList') = Cardinality(ChildDeviceList) + 1
    BY <1>0, <2>1, <2>3, FS_AddElement
  <2> QED
    BY <1>0, <2>1, <2>2, <2>4 DEF ListCount
<1>10. ASSUME NEW c \in Clients, DeleteUnlink(c) PROVE ListCount'
  <2>1. /\ g_FdoContext = "valid" /\ handler[c].pc = "dispatched" /\ Running(c)
        /\ g_FdoContext' = g_FdoContext
    BY <1>10 DEF DeleteUnlink, At, pnpVars, Running
  <2>2. Cardinality(Building) = 0
    BY <1>3, <2>1
  <2>3. ASSUME NEW id \in Ids, NEW p \in ChildDeviceList,
               ChildDeviceList' = ChildDeviceList \ {p}, ChildDeviceCount' = ChildDeviceCount - 1,
               handler' = [handler EXCEPT ![c] = [pc |-> "unlinked", id |-> id, pdo |-> p]]
        PROVE  ListCount'
    <3>0. PICK h : h = [pc |-> "unlinked", id |-> id, pdo |-> p]
      OBVIOUS
    <3>1. Cardinality(Building') = 0
      <4>1. handler' = [handler EXCEPT ![c] = h] /\ h.pc = "unlinked"
        BY <2>3, <3>0
      <4> QED
        BY <1>4, <2>1, <4>1
    <3>2. IsFiniteSet(ChildDeviceList') /\ Cardinality(ChildDeviceList') = Cardinality(ChildDeviceList) - 1
      BY <1>0, <2>3, FS_RemoveElement
    <3> QED
      BY <1>0, <2>1, <2>2, <2>3, <3>1, <3>2 DEF ListCount
  <2>4. CASE Complete(c) /\ UNCHANGED <<ChildDeviceList, ChildDeviceCount>>
    <3>1. Building' = Building
      BY <1>2, <1>5, <2>1, <2>4 DEF Complete
    <3> QED
      BY <1>1, <2>1, <2>4, <3>1
  <2> QED
    BY <1>10, <2>3, <2>4 DEF DeleteUnlink
<1>11. ASSUME NEW c \in Clients,
              DeletePdo(c) \/ CtrlDevFindController(c) \/ CreateNamespace(c) \/ DeleteNamespace(c)
              \/ ListNamespaces(c) \/ MapShm(c)
       PROVE  ListCount'
  <2>1. /\ handler[c].pc \notin {"reserved", "created"}
        /\ UNCHANGED <<g_FdoContext, ChildDeviceList, ChildDeviceCount>>
    <3>1. CASE CreateNamespace(c)
      BY <3>1 DEF CreateNamespace, At, pnpVars, fdoVars
    <3>2. CASE DeleteNamespace(c)
      BY <3>2 DEF DeleteNamespace, At, pnpVars, fdoVars
    <3> QED
      BY <1>11, <3>1, <3>2 DEF DeletePdo, CtrlDevFindController, ListNamespaces, MapShm, At, pnpVars, fdoVars
  <2>2. \E h : handler' = [handler EXCEPT ![c] = h] /\ h.pc \notin {"reserved", "created"}
    <3>1. CASE Complete(c)
      BY <1>5, <3>1 DEF Complete
    <3>2. CASE CtrlDevFindController(c)
      BY <1>5, <3>2 DEF CtrlDevFindController, Complete
    <3> QED
      BY <1>11, <3>1, <3>2 DEF DeletePdo, CreateNamespace, DeleteNamespace, ListNamespaces, MapShm
  <2>3. Building' = Building
    BY <1>2, <2>1, <2>2
  <2> QED
    BY <1>1, <2>1, <2>3
<1>12. CASE PrepareHardware \/ D0Entry \/ D0Exit \/ D0ExitDrained \/ ReleaseHardware \/ UNCHANGED vars
  <2>1. UNCHANGED <<g_FdoContext, ChildDeviceList, ChildDeviceCount, handler>>
    BY <1>12 DEF PrepareHardware, D0Entry, D0Exit, D0ExitDrained, ReleaseHardware, vars, pnpVars, fdoVars
  <2> QED
    BY <1>1, <2>1 DEF Building
<1>13. CASE DeviceAdd
  <2>1. /\ UNCHANGED <<ChildDeviceList, ChildDeviceCount, handler>>
        /\ g_FdoContext' = g_FdoContext \/ g_FdoContext = "NULL"
    BY <1>13 DEF DeviceAdd, fdoVars, pnpVars
  <2>2. CASE g_FdoContext' = g_FdoContext
    BY <1>1, <2>1, <2>2 DEF Building
  <2>3. CASE g_FdoContext = "NULL"
    <3>1. ChildDeviceList = {} /\ ChildDeviceCount = 0 /\ \A c \in Clients : ~Running(c)
      BY <2>3 DEF Inv, Lifecycle, ListCount
    <3>2. \A c \in Clients : handler[c].pc \notin {"reserved", "created"}
      BY <3>1 DEF Running
    <3>3. Cardinality(Building) = 0 /\ Building' = Building
      BY <2>1, <3>2, BuildingCount DEF Building
    <3> QED
      BY <2>1, <3>1, <3>3, FS_EmptySet DEF ListCount
  <2> QED
    BY <2>1, <2>2, <2>3
<1>14. CASE RemoveDevice \/ DriverContextCleanup
  <2>1. g_FdoContext' # "valid" /\ ChildDeviceList' = {} /\ ChildDeviceCount' = 0
    <3>1. CASE RemoveDevice
      BY <3>1 DEF RemoveDevice
    <3>2. CASE DriverContextCleanup
      BY <3>2 DEF DriverContextCleanup, fdoVars, Inv, Lifecycle, ListCount
    <3> QED
      BY <1>14, <3>1, <3>2
  <2> QED
    BY <2>1, FS_EmptySet DEF ListCount
<1> QED
  BY <1>6, <1>7, <1>8, <1>9, <1>10, <1>11, <1>12, <1>13, <1>14 DEF Next, Handler, PnP

LEMMA CountsInvariant == Spec => [](NamespaceCounts /\ ListCount)
<1>1. Init => NamespaceCounts /\ ListCount
  <2> SUFFICES ASSUME Init PROVE NamespaceCounts /\ ListCount
    OBVIOUS
  <2>1. ASSUME NEW p \in Pdos PROVE ActiveSlots(p) = {} /\ pdo[p].NamespaceCount = 0
    BY DEF Init, ActiveSlots, ZeroPdo, EmptySlot
  <2>2. g_FdoContext = "NULL" /\ ChildDeviceList = {} /\ ChildDeviceCount = 0
    BY DEF Init
  <2> QED
    BY <2>1, <2>2, FS_EmptySet DEF NamespaceCounts, ListCount
<1> QED
  BY <1>1, InvCorrect, NamespaceCountsStep, ListCountStep, PTL DEF Spec

(* The counters the limits are enforced with count what they should,       *)
(* whichever step of a creation failed and however many clients there are. *)
THEOREM CountsAgreeCorrect == Spec => []CountsAgree
<1>1. Inv /\ NamespaceCounts /\ ListCount => CountsAgree
  <2> SUFFICES ASSUME Inv, NamespaceCounts, ListCount, g_FdoContext = "valid"
               PROVE  /\ ChildDeviceCount = Cardinality(ChildDeviceList) + Cardinality(Building)
                      /\ ChildDeviceCount <= MaxControllers
                      /\ \A p \in live : pdo[p].NamespaceCount = Cardinality(ActiveSlots(p))
    BY DEF CountsAgree, Building, ActiveSlots
  <2> QED
    BY DEF Inv, Types, NamespaceCounts, ListCount
<1> QED
  BY <1>1, InvCorrect, CountsInvariant, PTL

-----------------------------------------------------------------------------
(* Types *)

PnpTypes ==
  /\ device \in {"none", "added", "prepared", "failed", "D0", "exiting", "stopped", "released"}
  /\ queueState \in {"none", "started", "stopped"}
  /\ queue \in Seq(Clients)

LEMMA PnpTypesStep == PnpTypes /\ [Next]_vars => PnpTypes'
<1> SUFFICES ASSUME PnpTypes, [Next]_vars PROVE PnpTypes'
  OBVIOUS
<1> USE DEF PnpTypes
<1>1. ASSUME NEW c \in Clients, Submit(c) PROVE PnpTypes'
  BY <1>1 DEF Submit, pnpVars
<1>2. ASSUME NEW c \in Clients, Dispatch(c) PROVE PnpTypes'
  BY <1>2 DEF Dispatch, pnpVars
<1>3. ASSUME NEW c \in Clients, Handler(c) PROVE PnpTypes'
  <2>1. \E pc : At(c, pc)
    BY <1>3 DEF Handler, CreateReserve, CreatePdo, InsertPdo, DeleteUnlink, DeletePdo,
       CtrlDevFindController, CreateNamespace, DeleteNamespace, ListNamespaces, MapShm
  <2> QED
    BY <2>1 DEF At, pnpVars
<1>4. CASE PnP
  <2>1. << >> \in Seq(Clients)
    OBVIOUS
  <2> QED
    BY <1>4, <2>1 DEF PnP, DeviceAdd, PrepareHardware, D0Entry, D0Exit, D0ExitDrained, ReleaseHardware,
       RemoveDevice, DriverContextCleanup, pnpVars
<1>5. CASE UNCHANGED vars
  BY <1>5 DEF vars, pnpVars
<1> QED
  BY <1>1, <1>2, <1>3, <1>4, <1>5 DEF Next

(* Type correctness; that the two unsigned counters never step below 0     *)
(* rests on what they count.                                               *)
THEOREM TypeCorrect == Spec => []TypeOK
<1>1. Init => PnpTypes
  BY DEF Init, PnpTypes
<1>2. Init => Ownership
  BY DEF Init, Ownership, Owns, ZeroPdo, EmptySlot
<1>3. Inv /\ PnpTypes /\ Ownership /\ NamespaceCounts /\ ListCount => TypeOK
  <2> SUFFICES ASSUME Inv, PnpTypes, Ownership, NamespaceCounts, ListCount PROVE TypeOK
    OBVIOUS
  <2>1. ChildDeviceCount \in Nat
    <3>1. CASE g_FdoContext # "valid"
      BY <3>1 DEF ListCount
    <3>2. CASE g_FdoContext = "valid"
      <4>1. Cardinality(ChildDeviceList) \in Nat
        BY FS_CardinalityType DEF ListCount
      <4>2. Cardinality(Building) \in Nat
        BY BuildingCount DEF Inv
      <4> QED
        BY <3>2, <4>1, <4>2 DEF ListCount
    <3> QED
      BY <3>1, <3>2
  <2>2. pdo \in [Pdos -> PdoType]
    <3>1. \A p \in Pdos : pdo[p].NamespaceCount \in Nat
      BY SlotsFinite DEF NamespaceCounts, ActiveSlots
    <3> QED
      BY <3>1 DEF Inv, Types, PdoType
  <2> QED
    BY <2>1, <2>2 DEF Inv, Types, Pcs, PnpTypes, Ownership, Lifecycle, TypeOK
<1> QED
  BY <1>1, <1>2, <1>3, InvCorrect, PnpTypesStep, OwnershipStep, CountsInvariant, PTL DEF Spec
=============================================================================
