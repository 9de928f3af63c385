------------------------------- MODULE AdminPath -------------------------------
(***************************************************************************)
(* One admin command's way through the emulator, and what happens to it    *)
(* when the user-mode service stalls, dies or is started again.            *)
(*                                                                         *)
(*  host (stornvme, external)  writes a command into the admin SQ, rings   *)
(*        Doorbells[0], reaps completions by their phase bit;              *)
(*  driver  one controller's polling timer: heartbeat check (with the      *)
(*        abort of pending commands), then VnvmeProcessDoorbells, which    *)
(*        forwards the new tail through the notification ring; the IOCTL   *)
(*        handlers USER_READY and HEARTBEAT;                               *)
(*  service  vnvme-server: CmdEnginePoll walks the ring, executes the      *)
(*        admin commands up to the tail of each notification and posts     *)
(*        their completions.                                               *)
(*                                                                         *)
(* The admin queues, their descriptors (AdminSQ, AdminCQ) and the ring are *)
(* in the memory that driver and service share.  The ring is used through  *)
(* its abstract specification NotifyQueue, which NotifyRing implements for *)
(* one controller.  Commands are told apart by their CID only.             *)
(***************************************************************************)
EXTENDS Naturals, Sequences, FiniteSets

CONSTANTS
  Depth,            \* AdminSQ.Capacity = AdminCQ.Capacity (VNVME_ADMIN_QUEUE_DEPTH, 64)
  RingCapacity,     \* entries the notification ring can hold (255)
  SendsBuffers,     \* does the service pass the buffers the IOCTL handlers require
  Stalls,           \* may a live service miss heartbeats for the whole timeout
  Restarts,         \* is a service that died started again
  HonoursSqhd,      \* does the host reuse an SQ slot only when SQHD says it is free
  MaxSubmits,       \* bound: commands the host issues
  MaxCrashes        \* bound: how often the service dies

ASSUME DepthAssumption == Depth \in Nat /\ Depth >= 2
ASSUME RingCapacityAssumption == RingCapacity \in Nat \ {0}
ASSUME ServiceAssumption == {SendsBuffers, Stalls, Restarts, HonoursSqhd} \subseteq BOOLEAN
ASSUME BoundsAssumption == MaxSubmits \in Nat /\ MaxCrashes \in Nat

Slots == 0 .. Depth - 1
NoCommand == 0
Cids == 1 .. MaxSubmits
Phases == {0, 1}

(* Mutant: the index is not wrapped. *)
Next1NoWrap(i) == i + 1

(* (i + 1) % capacity, for both queues *)
Next1(i) == (i + 1) % Depth

(* the phase of a completion queue once its tail has become i *)
Flip(phase, i) == IF i = 0 THEN 1 - phase ELSE phase

VARIABLES
  host,       \* stornvme: issued commands, SQ tail, CQ head, expected phase, reaped CIDs
  CcEn,       \* CC.EN as the host wrote it
  ctrl,       \* PDO context: CSTS.RDY, CachedCC.EN, LastAdminSqTail
  timer,      \* the polling timer: power state and program counter of its callback
  abort,      \* the locals of VnvmeAbortPendingUserCommands
  fdo,        \* FDO context: UserReady, UserCrashed, CommandMode
  late,       \* LastHeartbeat is older than the heartbeat timeout
  sq, cq,     \* the slots of the admin queues
  shm,        \* AdminSQ.Head, AdminSQ.Tail, AdminCQ.Tail, AdminCQ.Phase
  queue,      \* the notification ring: tails not yet released by the service
  service,    \* program counter and locals of vnvme-server
  crashes,    \* how often the service died
  forwarded,  \* history: how many commands the driver has forwarded
  posted,     \* history: CIDs for which a completion was written to the CQ
  misjudged,  \* history: the service was alive when the driver took it for dead
  refused     \* history: a push found the ring full

driverVars == <<ctrl, timer, abort, fdo>>
historyVars == <<crashes, forwarded, posted, misjudged, refused>>
vars == <<host, CcEn, ctrl, timer, abort, fdo, late, sq, cq, shm, queue, service,
          crashes, forwarded, posted, misjudged, refused>>

NoAbort == [head |-> 0, tail |-> 0, cqTail |-> 0, phase |-> 0, any |-> FALSE]
ServiceDown == [pc |-> "down", phase |-> 1, limit |-> 0, taken |-> 0,
                sqHead |-> 0, target |-> 0, cqTail |-> 0]

(* DriverEntry and the AddDevice routine are done, the controller exists   *)
(* and is not yet in D0; VnvmeAllocateShm has zeroed the shared memory.    *)
Init ==
  /\ host = [issued |-> 0, tail |-> 0, sqHead |-> 0, cqHead |-> 0, phase |-> 1,
             reaped |-> << >>]
  /\ CcEn = FALSE
  /\ ctrl = [RDY |-> FALSE, CachedEN |-> FALSE, LastSqTail |-> 0]
  /\ timer = "stopped"
  /\ abort = NoAbort
  /\ fdo = [UserReady |-> FALSE, UserCrashed |-> FALSE, Mode |-> "USER"]
  /\ late = FALSE
  /\ sq = [i \in Slots |-> NoCommand]
  /\ cq = [i \in Slots |-> [cid |-> NoCommand, sqhd |-> 0, phase |-> 0]]
  /\ shm = [SqHead |-> 0, SqTail |-> 0, CqTail |-> 0, CqPhase |-> 1]
  /\ queue = << >>
  /\ service = ServiceDown
  /\ crashes = 0
  /\ forwarded = 0
  /\ posted = {}
  /\ misjudged = FALSE
  /\ refused = FALSE

-----------------------------------------------------------------------------
(* The host. It is not part of this repository; it follows the NVMe rules  *)
(* the driver relies on: it issues commands only when CSTS.RDY is set and  *)
(* never has more outstanding than the queues hold; with HonoursSqhd it    *)
(* also waits until a completion tells it that the SQ slot is free.        *)

HostToggleEnable ==
  /\ host.issued = 0
  /\ CcEn' = ~ CcEn
  /\ UNCHANGED <<host, ctrl, timer, abort, fdo, late, sq, cq, shm, queue, service, historyVars>>

HostSubmit ==
  /\ CcEn /\ ctrl.RDY
  /\ host.issued < MaxSubmits
  /\ host.issued - Len(host.reaped) < Depth - 1
  /\ HonoursSqhd => Next1(host.tail) # host.sqHead
  /\ sq' = [sq EXCEPT ![host.tail] = host.issued + 1]
  /\ host' = [host EXCEPT !.issued = @ + 1, !.tail = Next1(@)]
  /\ UNCHANGED <<CcEn, driverVars, late, cq, shm, queue, service, historyVars>>

(* A CQE is new when its phase bit is the one the host expects. *)
HostReap ==
  /\ cq[host.cqHead].phase = host.phase
  /\ host' = [host EXCEPT !.sqHead = cq[host.cqHead].sqhd,
                          !.cqHead = Next1(@),
                          !.phase  = Flip(@, Next1(host.cqHead)),
                          !.reaped = Append(@, cq[host.cqHead].cid)]
  /\ UNCHANGED <<CcEn, driverVars, late, sq, cq, shm, queue, service, historyVars>>

-----------------------------------------------------------------------------
(* Power and time *)

(* VnvmePdoEvtDeviceD0Entry: VnvmeStartPollingTimer *)
D0Entry ==
  /\ timer = "stopped"
  /\ timer' = "armed"
  /\ UNCHANGED <<host, CcEn, ctrl, abort, fdo, late, sq, cq, shm, queue, service, historyVars>>

(* VnvmePdoEvtDeviceD0Exit: VnvmeStopPollingTimer waits for a running callback *)
D0Exit ==
  /\ timer \in {"armed", "idle"}
  /\ timer' = "stopped"
  /\ UNCHANGED <<host, CcEn, ctrl, abort, fdo, late, sq, cq, shm, queue, service, historyVars>>

(* The heartbeat timeout passes with no heartbeat.  A service that is up   *)
(* sends one every second between its polls, unless a poll takes too long. *)
HeartbeatTimeout ==
  /\ fdo.UserReady /\ ~ late
  /\ service.pc = "down" \/ Stalls
  /\ late' = TRUE
  /\ UNCHANGED <<host, CcEn, driverVars, sq, cq, shm, queue, service, historyVars>>

-----------------------------------------------------------------------------
(* The polling timer's callback *)

(* pdoContext->PollingEnabled: the flag is tested and nowhere assigned, so *)
(* it keeps the value the zeroed context has.                              *)
PollingEnabled == FALSE

(* Mutant: the mode is switched with no abort of what is pending. *)
TimerDetectsCrashAbortsNothing ==
  /\ timer = "armed"
  /\ fdo.Mode = "USER" /\ fdo.UserReady /\ ~ fdo.UserCrashed /\ late
  /\ fdo' = [UserCrashed |-> TRUE, UserReady |-> FALSE, Mode |-> "KERNEL"]
  /\ timer' = "doorbells"
  /\ UNCHANGED <<host, CcEn, ctrl, abort, late, sq, cq, shm, queue, service, historyVars>>

(* CheckUserModeHeartbeat: the service counts as crashed; the pending      *)
(* commands to abort are those between AdminSQ.Head and AdminSQ.Tail now.  *)
TimerDetectsCrash ==
  /\ timer = "armed"
  /\ fdo.Mode = "USER" /\ fdo.UserReady /\ ~ fdo.UserCrashed /\ late
  /\ fdo' = [fdo EXCEPT !.UserCrashed = TRUE, !.UserReady = FALSE]
  /\ abort' = [head |-> shm.SqHead, tail |-> shm.SqTail, cqTail |-> shm.CqTail,
               phase |-> shm.CqPhase, any |-> shm.SqHead # shm.SqTail]
  /\ misjudged' = (service.pc # "down")
  /\ timer' = "abort"
  /\ UNCHANGED <<host, CcEn, ctrl, late, sq, cq, shm, queue, service, crashes, forwarded, posted,
                 refused>>

TimerFindsServiceAlive ==
  /\ timer = "armed"
  /\ ~ (fdo.Mode = "USER" /\ fdo.UserReady /\ ~ fdo.UserCrashed /\ late)
  /\ timer' = "doorbells"
  /\ UNCHANGED <<host, CcEn, ctrl, abort, fdo, late, sq, cq, shm, queue, service, historyVars>>

(* One round of the loop of VnvmeAbortPendingUserCommands: an internal-    *)
(* error completion for the command at head.                               *)
AbortOne ==
  /\ timer = "abort"
  /\ abort.head # abort.tail
  /\ cq' = [cq EXCEPT ![abort.cqTail] = [cid |-> sq[abort.head], sqhd |-> abort.head,
                                           phase |-> abort.phase]]
  /\ posted' = posted \cup {sq[abort.head]}
  /\ abort' = [abort EXCEPT !.head = Next1(@), !.cqTail = Next1(@),
                            !.phase = Flip(@, Next1(abort.cqTail))]
  /\ UNCHANGED <<host, CcEn, ctrl, timer, fdo, late, sq, shm, queue, service,
                 crashes, forwarded, misjudged, refused>>

(* The end of the abort: the descriptors are stored back if anything was   *)
(* pending, then the driver switches to kernel-mode command processing.    *)
AbortEnd ==
  /\ timer = "abort"
  /\ abort.head = abort.tail
  /\ shm' = IF abort.any
            THEN [shm EXCEPT !.SqHead = abort.head, !.CqTail = abort.cqTail,
                             !.CqPhase = abort.phase]
            ELSE shm
  /\ fdo' = [fdo EXCEPT !.Mode = "KERNEL"]
  /\ abort' = NoAbort
  /\ timer' = "doorbells"
  /\ UNCHANGED <<host, CcEn, ctrl, late, sq, cq, queue, service, historyVars>>

(* Mutant: the new tail is forwarded but not remembered in LastAdminSqTail, *)
(* so that every tick forwards it again.                                   *)
TimerDoorbellsForgetsTail ==
  /\ timer = "doorbells"
  /\ LET enabling == CcEn /\ ~ ctrl.CachedEN
         ready    == CcEn /\ (enabling \/ ctrl.RDY)
         last     == IF enabling THEN 0 ELSE ctrl.LastSqTail
         forward  == ready /\ host.tail # last /\ fdo.Mode = "USER" /\ fdo.UserReady
         room     == Len(queue) < RingCapacity
     IN  /\ ctrl' = [RDY |-> ready, CachedEN |-> CcEn, LastSqTail |-> last]
         /\ shm' = IF forward THEN [shm EXCEPT !.SqTail = host.tail] ELSE shm
         /\ queue' = IF forward /\ room THEN Append(queue, host.tail) ELSE queue
         /\ forwarded' = IF forward THEN host.issued ELSE forwarded
         /\ refused' = (refused \/ (forward /\ ~ room))
  /\ timer' = IF PollingEnabled THEN "armed" ELSE "idle"
  /\ UNCHANGED <<host, CcEn, abort, fdo, late, sq, cq, service, crashes, posted, misjudged>>

(* VnvmeProcessDoorbells and the end of the callback.  A CC.EN change is   *)
(* taken over first (VnvmeInitializeAdminQueues zeroes LastAdminSqTail).   *)
(* A new tail is forwarded in user mode if the service is ready: AdminSQ.  *)
(* Tail is stored and a notification pushed, or dropped when the ring is   *)
(* full.  In kernel mode VnvmeProcessAdminCommands gives up at its first   *)
(* VnvmeFetchCommand: AdminSQ.Valid is never set.  In every case           *)
(* LastAdminSqTail takes the new tail.                                     *)
TimerDoorbells ==
  /\ timer = "doorbells"
  /\ LET enabling == CcEn /\ ~ ctrl.CachedEN
         ready    == CcEn /\ (enabling \/ ctrl.RDY)
         last     == IF enabling THEN 0 ELSE ctrl.LastSqTail
         forward  == ready /\ host.tail # last /\ fdo.Mode = "USER" /\ fdo.UserReady
         room     == Len(queue) < RingCapacity
     IN  /\ ctrl' = [RDY |-> ready, CachedEN |-> CcEn,
                     LastSqTail |-> IF ready THEN host.tail ELSE last]
         /\ shm' = IF forward THEN [shm EXCEPT !.SqTail = host.tail] ELSE shm
         /\ queue' = IF forward /\ room THEN Append(queue, host.tail) ELSE queue
         /\ forwarded' = IF forward THEN host.issued ELSE forwarded
         /\ refused' = (refused \/ (forward /\ ~ room))
  /\ timer' = IF PollingEnabled THEN "armed" ELSE "idle"
  /\ UNCHANGED <<host, CcEn, abort, fdo, late, sq, cq, service, crashes, posted, misjudged>>

-----------------------------------------------------------------------------
(* vnvme-server *)

(* main: connect, map the shared memory, CmdEngineInit (adminCqPhase = 1) *)
ServiceStart ==
  /\ service.pc = "down"
  /\ crashes = 0 \/ Restarts
  /\ service' = [ServiceDown EXCEPT !.pc = "hello"]
  /\ UNCHANGED <<host, CcEn, driverVars, late, sq, cq, shm, queue, historyVars>>

(* DriverSendUserReady and VnvmeHandleUserReady: without the input buffer  *)
(* the handler fails and main leaves; with it the driver notes the service *)
(* as ready and its heartbeat as current.                                  *)
ServiceUserReady ==
  /\ service.pc = "hello"
  /\ service' = IF SendsBuffers THEN [service EXCEPT !.pc = "loop"] ELSE ServiceDown
  /\ fdo' = IF SendsBuffers THEN [fdo EXCEPT !.UserReady = TRUE] ELSE fdo
  /\ late' = (late /\ ~ SendsBuffers)
  /\ UNCHANGED <<host, CcEn, ctrl, timer, abort, sq, cq, shm, queue, historyVars>>

(* DriverSendHeartbeat and VnvmeHandleHeartbeat *)
ServiceHeartbeat ==
  /\ service.pc = "loop"
  /\ SendsBuffers /\ fdo.UserReady
  /\ late
  /\ late' = FALSE
  /\ UNCHANGED <<host, CcEn, driverVars, sq, cq, shm, queue, service, historyVars>>

(* CmdEnginePoll: head and tail of the ring are read once *)
PollBegin ==
  /\ service.pc = "loop"
  /\ queue # << >>
  /\ service' = [service EXCEPT !.pc = "take", !.limit = Len(queue), !.taken = 0]
  /\ UNCHANGED <<host, CcEn, driverVars, late, sq, cq, shm, queue, historyVars>>

(* the next notification: sqHead = AdminSQ.Head, sqTail = entry->Index *)
TakeNotification ==
  /\ service.pc = "take"
  /\ service.taken < service.limit
  /\ service' = [service EXCEPT !.pc = "walk", !.taken = @ + 1,
                                !.sqHead = shm.SqHead, !.target = queue[service.taken + 1]]
  /\ UNCHANGED <<host, CcEn, driverVars, late, sq, cq, shm, queue, historyVars>>

(* CmdEngineProcessAdminCommand and CmdEnginePostAdminCompletion: the      *)
(* command at sqHead is executed and its CQE written at AdminCQ.Tail       *)
ExecuteCommand ==
  /\ service.pc = "walk"
  /\ service.sqHead # service.target
  /\ cq' = [cq EXCEPT ![shm.CqTail] = [cid |-> sq[service.sqHead], sqhd |-> shm.SqHead,
                                        phase |-> service.phase]]
  /\ posted' = posted \cup {sq[service.sqHead]}
  /\ service' = [service EXCEPT !.pc = "post", !.cqTail = Next1(shm.CqTail)]
  /\ UNCHANGED <<host, CcEn, driverVars, late, sq, shm, queue, crashes, forwarded,
                 misjudged, refused>>

(* Mutant: the phase is not flipped when the completion queue wraps. *)
PostAdvanceKeepsPhase ==
  /\ service.pc = "post"
  /\ shm' = [shm EXCEPT !.CqTail = service.cqTail]
  /\ service' = [service EXCEPT !.pc = "walk", !.sqHead = Next1(@)]
  /\ UNCHANGED <<host, CcEn, driverVars, late, sq, cq, queue, historyVars>>

(* ... and AdminCQ.Tail stored, the engine's own phase flipped on a wrap *)
PostAdvance ==
  /\ service.pc = "post"
  /\ shm' = [shm EXCEPT !.CqTail = service.cqTail]
  /\ service' = [service EXCEPT !.pc = "walk", !.sqHead = Next1(@),
                                !.phase = Flip(@, service.cqTail)]
  /\ UNCHANGED <<host, CcEn, driverVars, late, sq, cq, queue, historyVars>>

(* Mutant: AdminSQ.Head is not stored when the notification is done. *)
StoreHeadForgets ==
  /\ service.pc = "walk"
  /\ service.sqHead = service.target
  /\ service' = [service EXCEPT !.pc = "take"]
  /\ UNCHANGED <<host, CcEn, driverVars, late, sq, cq, shm, queue, historyVars>>

(* the notification is done: AdminSQ.Head = sqHead *)
StoreHead ==
  /\ service.pc = "walk"
  /\ service.sqHead = service.target
  /\ shm' = [shm EXCEPT !.SqHead = service.sqHead]
  /\ service' = [service EXCEPT !.pc = "take"]
  /\ UNCHANGED <<host, CcEn, driverVars, late, sq, cq, queue, historyVars>>

(* all notifications of this poll are done: notifyRing->Head = head *)
PollEnd ==
  /\ service.pc = "take"
  /\ service.taken = service.limit
  /\ queue' = SubSeq(queue, service.limit + 1, Len(queue))
  /\ service' = [service EXCEPT !.pc = "loop", !.limit = 0, !.taken = 0]
  /\ UNCHANGED <<host, CcEn, driverVars, late, sq, cq, shm, historyVars>>

(* The process ends, by a crash or by leaving its main loop: the driver is *)
(* told nothing either way.                                                *)
ServiceDies ==
  /\ service.pc # "down"
  /\ crashes < MaxCrashes
  /\ crashes' = crashes + 1
  /\ service' = ServiceDown
  /\ UNCHANGED <<host, CcEn, driverVars, late, sq, cq, shm, queue, forwarded, posted, misjudged,
                 refused>>

-----------------------------------------------------------------------------
Host == HostToggleEnable \/ HostSubmit \/ HostReap
Timer == TimerDetectsCrash \/ TimerFindsServiceAlive \/ AbortOne \/ AbortEnd \/ TimerDoorbells
Engine == PollBegin \/ TakeNotification \/ ExecuteCommand \/ PostAdvance \/ StoreHead \/ PollEnd
Service == ServiceStart \/ ServiceUserReady \/ ServiceHeartbeat \/ Engine

Next == Host \/ D0Entry \/ D0Exit \/ HeartbeatTimeout \/ Timer \/ Service \/ ServiceDies

(* An armed timer fires and its callback runs to its end; a service that   *)
(* is started reports to the driver and keeps polling; the host reaps what *)
(* it can see.                                                             *)
Fairness ==
  WF_vars(Timer) /\ WF_vars(ServiceUserReady) /\ WF_vars(Engine) /\ WF_vars(HostReap)

Spec == Init /\ [][Next]_vars
FairSpec == Spec /\ Fairness

-----------------------------------------------------------------------------
(* Properties *)

TypeOK ==
  /\ host \in [issued : 0 .. MaxSubmits, tail : Slots, sqHead : Slots, cqHead : Slots, phase : Phases,
               reaped : Seq(Cids \cup {NoCommand})]
  /\ CcEn \in BOOLEAN
  /\ ctrl \in [RDY : BOOLEAN, CachedEN : BOOLEAN, LastSqTail : Slots]
  /\ timer \in {"stopped", "armed", "idle", "abort", "doorbells"}
  /\ abort \in [head : Slots, tail : Slots, cqTail : Slots, phase : Phases, any : BOOLEAN]
  /\ fdo \in [UserReady : BOOLEAN, UserCrashed : BOOLEAN, Mode : {"USER", "KERNEL"}]
  /\ late \in BOOLEAN
  /\ sq \in [Slots -> Cids \cup {NoCommand}]
  /\ cq \in [Slots -> [cid : Cids \cup {NoCommand}, sqhd : Slots, phase : Phases]]
  /\ shm \in [SqHead : Slots, SqTail : Slots, CqTail : Slots, CqPhase : Phases]
  /\ queue \in Seq(Slots) /\ Len(queue) <= RingCapacity
  /\ service \in [pc : {"down", "hello", "loop", "take", "walk", "post"}, phase : Phases,
                  limit : Nat, taken : Nat, sqHead : Slots, target : Slots, cqTail : Slots]
  /\ service.taken <= service.limit /\ service.limit <= Len(queue)
  /\ crashes \in 0 .. MaxCrashes
  /\ forwarded \in 0 .. MaxSubmits
  /\ posted \subseteq Cids \cup {NoCommand}
  /\ misjudged \in BOOLEAN
  /\ refused \in BOOLEAN

(* No crash has been detected, and no second service was started after one. *)
Undisturbed == ~ fdo.UserCrashed /\ (crashes = 0 \/ ~ Restarts)

(* Until a crash is detected the host sees exactly one completion for each *)
(* command, in the order of submission: notifications that cover several   *)
(* commands, wraps of both queues and the phase bit work together, also    *)
(* when the service stalls or dies between any two of its steps.           *)
CompletedOnceInOrder ==
  Undisturbed => /\ Len(host.reaped) <= host.issued
                 /\ \A k \in 1 .. Len(host.reaped) : host.reaped[k] = k

(* A ring that is as large as two full queues never refuses a notification *)
(* of one controller's admin queue (255 entries against 2 * 63).           *)
NeverRefused == 2 * (Depth - 1) <= RingCapacity => ~ refused

(* Every forwarded command is executed and reaped in the end, unless the   *)
(* service dies or is taken for dead.                                      *)
ForwardedIsReaped ==
  \A c \in Cids : (forwarded >= c) ~> (Len(host.reaped) >= c \/ crashes > 0 \/ misjudged)

(* When the driver has switched to kernel mode, each command it ever       *)
(* forwarded has a completion in the queue, by the service or by the abort *)
(* of VnvmeAbortPendingUserCommands, if the service was dead when it was   *)
(* taken for dead.  It needs a host that honours SQHD.                     *)
AbortCoversForwarded ==
  fdo.Mode = "KERNEL" /\ ~ misjudged => 1 .. forwarded \subseteq posted

(* The promise of VnvmeAbortPendingUserCommands, whatever the service did. *)
AbortCoversAll ==
  fdo.Mode = "KERNEL" => 1 .. forwarded \subseteq posted

(* No command is completed twice towards the host. *)
NoDoubleCompletion ==
  \A j, k \in 1 .. Len(host.reaped) : host.reaped[j] = host.reaped[k] => j = k

(* A service that is restarted after a crash is given commands again. *)
RestartRecovers ==
  (fdo.UserCrashed /\ service.pc = "loop") ~> (fdo.Mode = "USER" \/ service.pc = "down")
=============================================================================
