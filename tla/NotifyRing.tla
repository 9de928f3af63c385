------------------------------ MODULE NotifyRing ------------------------------
(***************************************************************************)
(* The notification ring in the memory shared by the kernel driver and     *)
(* vnvme-server (VNVME_NOTIFY_RING), one memory access per step.           *)
(*                                                                         *)
(* Producers are the polling timers of the virtual controllers: each of    *)
(* them pushes through NotifyRingPush, which takes no lock.  The consumer  *)
(* is the service's CmdEnginePoll, which reads Head and Tail once, walks   *)
(* the entries between them and stores Head only when it is done.  The     *)
(* service may die at any of its steps and be started again.               *)
(***************************************************************************)
EXTENDS Naturals, FiniteSets

CONSTANTS
  Producers,   \* the controllers whose timers push notifications
  Size,        \* ring->Size (VNVME_NOTIFY_RING_SIZE, 256 in the code)
  QueueIds,    \* the queue a notification is about (0 is the admin queue)
  Indexes,     \* the doorbell value it carries
  MaxCrashes   \* bound: how often the service dies

ASSUME ProducersAssumption == Producers # {} /\ IsFiniteSet(Producers)
ASSUME SizeAssumption == Size \in Nat /\ Size >= 2
ASSUME EntryAssumption == QueueIds # {} /\ Indexes # {} /\ 0 \in QueueIds /\ 0 \in Indexes
ASSUME MaxCrashesAssumption == MaxCrashes \in Nat

Slots == 0 .. Size - 1
Entry == [QueueId : QueueIds, Index : Indexes]
ZeroEntry == [QueueId |-> 0, Index |-> 0]   \* RtlZeroMemory of the region

VARIABLES
  RingHead, RingTail, Entries,  \* ring->Head, ring->Tail, ring->Entries
  pushing,              \* per producer: program counter and locals of NotifyRingPush
  polling,              \* the locals of CmdEnginePoll, and whether one is under way
  delivered,            \* the entry the engine was given last
  refused,              \* per producer: did its last push return FALSE
  crashes               \* how often the service has died

vars == <<RingHead, RingTail, Entries, pushing, polling, delivered, refused, crashes>>

(* Mutant: the index is not wrapped. *)
SuccNoWrap(i) == i + 1

(* nextTail = (tail + 1) % ring->Size, head = (head + 1) % notifyRing->Size *)
Succ(i) == (i + 1) % Size

IdlePush == [pc |-> "idle", tail |-> 0, entry |-> ZeroEntry]
IdlePoll == [pc |-> "idle", head |-> 0, tail |-> 0]

(* VnvmeAllocateShm zeroes the region and sets up an empty ring. *)
Init ==
  /\ RingHead = 0
  /\ RingTail = 0
  /\ Entries = [i \in Slots |-> ZeroEntry]
  /\ pushing = [p \in Producers |-> IdlePush]
  /\ polling = IdlePoll
  /\ delivered = ZeroEntry
  /\ refused = [p \in Producers |-> FALSE]
  /\ crashes = 0

-----------------------------------------------------------------------------
(* NotifyRingPush *)

(* tail = ring->Tail *)
PushReadTail(p, e) ==
  /\ pushing[p].pc = "idle"
  /\ pushing' = [pushing EXCEPT ![p] = [pc |-> "check", tail |-> RingTail, entry |-> e]]
  /\ UNCHANGED <<RingHead, RingTail, Entries, polling, delivered, refused, crashes>>

(* Mutant: the ring counts as full one entry too early. *)
PushFullTooEarly(p) ==
  /\ pushing[p].pc = "check"
  /\ RingHead \in {Succ(pushing[p].tail), Succ(Succ(pushing[p].tail))}
  /\ pushing' = [pushing EXCEPT ![p] = IdlePush]
  /\ refused' = [refused EXCEPT ![p] = TRUE]
  /\ UNCHANGED <<RingHead, RingTail, Entries, polling, delivered, crashes>>

(* nextTail == ring->Head: the notification is dropped and FALSE returned *)
PushFull(p) ==
  /\ pushing[p].pc = "check"
  /\ Succ(pushing[p].tail) = RingHead
  /\ pushing' = [pushing EXCEPT ![p] = IdlePush]
  /\ refused' = [refused EXCEPT ![p] = TRUE]
  /\ UNCHANGED <<RingHead, RingTail, Entries, polling, delivered, crashes>>

(* Mutant: an entry is written without the check for a full ring. *)
PushWriteQueueIdUnchecked(p) ==
  /\ pushing[p].pc = "check"
  /\ Entries' = [Entries EXCEPT ![pushing[p].tail].QueueId = pushing[p].entry.QueueId]
  /\ pushing' = [pushing EXCEPT ![p].pc = "index"]
  /\ UNCHANGED <<RingHead, RingTail, polling, delivered, refused, crashes>>

(* There is room: ring->Entries[tail].QueueId is written (Type, which is   *)
(* always 0, with it)                                                      *)
PushWriteQueueId(p) ==
  /\ pushing[p].pc = "check"
  /\ Succ(pushing[p].tail) # RingHead
  /\ Entries' = [Entries EXCEPT ![pushing[p].tail].QueueId = pushing[p].entry.QueueId]
  /\ pushing' = [pushing EXCEPT ![p].pc = "index"]
  /\ UNCHANGED <<RingHead, RingTail, polling, delivered, refused, crashes>>

(* Mutant: no write barrier, the store of Tail is visible before the entry is whole. *)
PushWriteIndexAfterTail(p) ==
  /\ pushing[p].pc = "index"
  /\ RingTail' = Succ(pushing[p].tail)
  /\ pushing' = [pushing EXCEPT ![p].pc = "publish"]
  /\ UNCHANGED <<RingHead, Entries, polling, delivered, refused, crashes>>

(* ring->Entries[tail].Index is written *)
PushWriteIndex(p) ==
  /\ pushing[p].pc = "index"
  /\ Entries' = [Entries EXCEPT ![pushing[p].tail].Index = pushing[p].entry.Index]
  /\ pushing' = [pushing EXCEPT ![p].pc = "publish"]
  /\ UNCHANGED <<RingHead, RingTail, polling, delivered, refused, crashes>>

(* after the write barrier: ring->Tail = nextTail, return TRUE *)
PushPublish(p) ==
  /\ pushing[p].pc = "publish"
  /\ RingTail' = Succ(pushing[p].tail)
  /\ pushing' = [pushing EXCEPT ![p] = IdlePush]
  /\ refused' = [refused EXCEPT ![p] = FALSE]
  /\ UNCHANGED <<RingHead, Entries, polling, delivered, crashes>>

Push(p) ==
  \/ \E q \in QueueIds, i \in Indexes : PushReadTail(p, [QueueId |-> q, Index |-> i])
  \/ PushFull(p)
  \/ PushWriteQueueId(p)
  \/ PushWriteIndex(p)
  \/ PushPublish(p)

-----------------------------------------------------------------------------
(* CmdEnginePoll *)

(* head = notifyRing->Head; tail = notifyRing->Tail *)
PollBegin ==
  /\ polling.pc = "idle"
  /\ polling' = [pc |-> "walk", head |-> RingHead, tail |-> RingTail]
  /\ UNCHANGED <<RingHead, RingTail, Entries, pushing, delivered, refused, crashes>>

(* the loop body: the entry at head is handled, head moves on *)
PollTake ==
  /\ polling.pc = "walk"
  /\ polling.head # polling.tail
  /\ delivered' = Entries[polling.head]
  /\ polling' = [polling EXCEPT !.head = Succ(@)]
  /\ UNCHANGED <<RingHead, RingTail, Entries, pushing, refused, crashes>>

(* Mutant: the consumer keeps its progress to itself. *)
PollEndKeepsHead ==
  /\ polling.pc = "walk"
  /\ polling.head = polling.tail
  /\ polling' = IdlePoll
  /\ UNCHANGED <<RingHead, RingTail, Entries, pushing, delivered, refused, crashes>>

(* notifyRing->Head = head *)
PollEnd ==
  /\ polling.pc = "walk"
  /\ polling.head = polling.tail
  /\ RingHead' = polling.head
  /\ polling' = IdlePoll
  /\ UNCHANGED <<RingTail, Entries, pushing, delivered, refused, crashes>>

(* The service dies and is started again; the ring stays in the kernel's memory. *)
ServiceRestart ==
  /\ crashes < MaxCrashes
  /\ polling.pc # "idle"
  /\ polling' = IdlePoll
  /\ crashes' = crashes + 1
  /\ UNCHANGED <<RingHead, RingTail, Entries, pushing, delivered, refused>>

-----------------------------------------------------------------------------
Next ==
  \/ \E p \in Producers : Push(p)
  \/ PollBegin
  \/ PollTake
  \/ PollEnd
  \/ ServiceRestart

(* The main loop of the service calls CmdEnginePoll at least every 100 ms. *)
Fairness == WF_vars(PollBegin) /\ WF_vars(PollTake) /\ WF_vars(PollEnd)

Spec == Init /\ [][Next]_vars
FairSpec == Spec /\ Fairness

-----------------------------------------------------------------------------
(* Properties *)

PushState == [pc : {"idle", "check", "index", "publish"}, tail : Slots, entry : Entry]
PollState == [pc : {"idle", "walk"}, head : Slots, tail : Slots]

(* Every index of the ring and of its users stays inside the ring; the     *)
(* entries keep the shape NotifyRingPush writes.                           *)
TypeOK ==
  /\ RingHead \in Slots
  /\ RingTail \in Slots
  /\ Entries \in [Slots -> Entry]
  /\ pushing \in [Producers -> PushState]
  /\ polling \in PollState
  /\ delivered \in Entry
  /\ refused \in [Producers -> BOOLEAN]
  /\ crashes \in 0 .. MaxCrashes

(* How many steps of Succ lead from slot a to slot b. *)
Distance(a, b) == IF a <= b THEN b - a ELSE b - a + Size

(* Slot i lies in the part of the ring that starts at a and ends before b. *)
InWindow(i, a, b) == Distance(a, i) < Distance(a, b)

(* The slot NotifyRingPush is filling is never one that CmdEnginePoll may  *)
(* read before it stores Head: the engine sees whole entries only.         *)
NoTornRead ==
  \A p \in Producers :
     pushing[p].pc \in {"index", "publish"} =>
        ~ InWindow(pushing[p].tail, RingHead, RingTail)

(* The abstract queue: the entries between Head and Tail. *)
Accepted == [k \in 1 .. Distance(RingHead, RingTail) |-> Entries[(RingHead + k - 1) % Size]]
Taken == IF polling.pc = "walk" THEN Distance(RingHead, polling.head) ELSE 0

Abstract == INSTANCE NotifyQueue WITH
  Notification <- Entry, Capacity <- Size - 1, NoNotification <- ZeroEntry,
  queue <- Accepted, taken <- Taken, delivered <- delivered

(* The ring is a bounded FIFO: what NotifyRingPush accepts is delivered in *)
(* order, with no gap and no invention.                                    *)
IsNotifyQueue == Abstract!Spec

(* NotifyRingPush refuses a notification only when every usable slot holds *)
(* one that the engine has not released.                                   *)
RefusesOnlyWhenFull ==
  [][\A p \in Producers : (~ refused[p] /\ refused'[p]) => Distance(RingHead, RingTail) = Size - 1]_vars

(* Every accepted notification is consumed in the end: no slot stays at    *)
(* the head of the ring for ever, with the service polling and dying only  *)
(* finitely often.                                                         *)
EveryAcceptedIsConsumed ==
  \A i \in Slots : (RingHead = i /\ RingTail # i) ~> (RingHead # i)

=============================================================================
