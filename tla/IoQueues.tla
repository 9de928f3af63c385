------------------------------- MODULE IoQueues -------------------------------
(***************************************************************************)
(* The queue manager (queue.c) and the I/O half of the command path: the   *)
(* doorbell scan of one controller, the forwarding of I/O commands to the  *)
(* service, the processing in kernel mode and the abort of what a crashed  *)
(* service leaves.                                                         *)
(*                                                                         *)
(* The driver keeps every index twice, in its own tables (IoSq, IoCq) and  *)
(* in the descriptors in shared memory (sqDesc, cqDesc), and each function *)
(* updates them in its own way.  The service does not touch I/O queues, so *)
(* only the driver writes the descriptors.  Everything runs in one timer   *)
(* callback: an action is one call.                                        *)
(*                                                                         *)
(* What a command does is the business of DriverIo: each is answered once. *)
(***************************************************************************)
EXTENDS Naturals, Sequences

CONSTANTS
  MaxIoQueues,      \* VNVME_MAX_IO_QUEUES (16)
  ConfigMaxQueues,  \* CONFIG_MAX_IO_QUEUES
  Sizes,            \* queue sizes that are asked for
  Paired,           \* a submission queue posts to the completion queue of its number
  Rewound,          \* what the caller owes: a submission queue is created where the doorbell is 0
  MaxSubmits        \* bound: commands per queue, from one creation of its CQ to the next

ASSUME QueuesAssumption ==
  MaxIoQueues \in Nat \ {0} /\ ConfigMaxQueues \in 1 .. MaxIoQueues
ASSUME SizesAssumption ==
  Sizes \subseteq Nat \ {0, 1} /\ (\E n \in Sizes : \A m \in Sizes : m <= n) /\ MaxSubmits \in Nat
ASSUME HostAssumption == {Paired, Rewound} \subseteq BOOLEAN

Qids == 1 .. MaxIoQueues
AnyQid == 0 .. MaxIoQueues + 1
Configured == 1 .. ConfigMaxQueues
Places == 0 .. (CHOOSE n \in Sizes : \A m \in Sizes : m <= n) - 1
Cids == 1 .. MaxSubmits
NoCommand == 0

VARIABLES
  IoSq, IoCq,      \* the driver's tables
  IoQueueCount,
  sqDesc, cqDesc,  \* the queue descriptors in shared memory
  sq, cq,          \* the entries of the queues
  Doorbells,       \* the SQ tail doorbells, as the host last wrote them
  fdo,             \* UserReady, UserCrashed, CommandMode
  host,            \* per queue, stornvme: its SQ tail, CQ head, phase, issued and reaped commands
  owed             \* history: per queue, completions due for what was forwarded

vars == <<IoSq, IoCq, IoQueueCount, sqDesc, cqDesc, sq, cq, Doorbells, fdo, host, owed>>

ZeroSq == [Created |-> FALSE, Size |-> 0, Head |-> 0, Tail |-> 0]
ZeroCq == [Created |-> FALSE, Size |-> 0, Tail |-> 0, Phase |-> 0]
NewHost == [tail |-> 0, cqHead |-> 0, phase |-> 1, issued |-> 0, reaped |-> << >>]
ClearSq == [i \in Places |-> NoCommand]
ClearCq == [i \in Places |-> [cid |-> NoCommand, phase |-> 0]]

Init ==
  /\ IoSq = [q \in Qids |-> ZeroSq] /\ IoCq = [q \in Qids |-> ZeroCq]
  /\ IoQueueCount = 0
  /\ sqDesc = [q \in Qids |-> [Valid |-> FALSE, Capacity |-> 0, Head |-> 0, Tail |-> 0]]
  /\ cqDesc = [q \in Qids |-> [Valid |-> FALSE, Capacity |-> 0, Tail |-> 0, Phase |-> 0]]
  /\ sq = [q \in Qids |-> ClearSq] /\ cq = [q \in Qids |-> ClearCq]
  /\ Doorbells = [q \in Qids |-> 0]
  /\ fdo = [UserReady |-> FALSE, UserCrashed |-> FALSE, Mode |-> "USER"]
  /\ host = [q \in Qids |-> NewHost]
  /\ owed = [q \in Qids |-> 0]

Distance(from, to, size) == (to + size - from) % size
Pending(q) == Distance(sqDesc[q].Head, sqDesc[q].Tail, sqDesc[q].Capacity)

-----------------------------------------------------------------------------
(* Creation and deletion.  Nothing in the driver calls these functions     *)
(* yet: the caller is external.  A call that is refused changes nothing.   *)

(* Mutant: the queue's memory is not cleared. *)
VnvmeCreateIoCompletionQueueDirty(q, size) ==
  /\ q \in Configured /\ ~ IoCq[q].Created
  /\ IoCq' = [IoCq EXCEPT ![q] = [Created |-> TRUE, Size |-> size, Tail |-> 0, Phase |-> 1]]
  /\ cqDesc' = [cqDesc EXCEPT ![q] = [Valid |-> TRUE, Capacity |-> size, Tail |-> 0, Phase |-> 1]]
  /\ UNCHANGED <<IoSq, IoQueueCount, sqDesc, sq, cq, Doorbells, fdo, host, owed>>

VnvmeCreateIoCompletionQueue(q, size) ==
  /\ q \in Configured /\ ~ IoCq[q].Created
  /\ IoCq' = [IoCq EXCEPT ![q] = [Created |-> TRUE, Size |-> size, Tail |-> 0, Phase |-> 1]]
  /\ cqDesc' = [cqDesc EXCEPT ![q] = [Valid |-> TRUE, Capacity |-> size, Tail |-> 0, Phase |-> 1]]
  /\ cq' = [cq EXCEPT ![q] = [i \in Places |-> IF i < size THEN [cid |-> NoCommand, phase |-> 0] ELSE @[i]]]
  /\ UNCHANGED <<IoSq, IoQueueCount, sqDesc, sq, Doorbells, fdo, host, owed>>

(* IoQueueCount counts submission queues.  The doorbell keeps its value.   *)
VnvmeCreateIoSubmissionQueue(q, size, c) ==
  /\ Paired => c = q
  /\ q \in Configured /\ c \in Configured
  /\ IoCq[c].Created /\ ~ IoSq[q].Created
  /\ Rewound => Doorbells[q] = 0
  /\ IoSq' = [IoSq EXCEPT ![q] = [Created |-> TRUE, Size |-> size, Head |-> 0, Tail |-> 0]]
  /\ sqDesc' = [sqDesc EXCEPT ![q] = [Valid |-> TRUE, Capacity |-> size, Head |-> 0, Tail |-> 0]]
  /\ sq' = [sq EXCEPT ![q] = [i \in Places |-> IF i < size THEN NoCommand ELSE @[i]]]
  /\ IoQueueCount' = IoQueueCount + 1
  /\ host' = [host EXCEPT ![q].tail = 0]
  /\ UNCHANGED <<IoCq, cqDesc, cq, Doorbells, fdo, owed>>

(* Mutant: the queue is still counted. *)
VnvmeDeleteIoSubmissionQueueCounted(q) ==
  /\ q \in Configured /\ IoSq[q].Created
  /\ owed' = [owed EXCEPT ![q] = @ - Pending(q)]
  /\ IoSq' = [IoSq EXCEPT ![q] = ZeroSq]
  /\ sqDesc' = [sqDesc EXCEPT ![q] = [@ EXCEPT !.Valid = FALSE, !.Head = 0, !.Tail = 0]]
  /\ UNCHANGED <<IoCq, IoQueueCount, cqDesc, sq, cq, Doorbells, fdo, host>>

(* What is still in the queue is abandoned. *)
VnvmeDeleteIoSubmissionQueue(q) ==
  /\ q \in Configured /\ IoSq[q].Created
  /\ owed' = [owed EXCEPT ![q] = @ - Pending(q)]
  /\ IoSq' = [IoSq EXCEPT ![q] = ZeroSq]
  /\ sqDesc' = [sqDesc EXCEPT ![q] = [@ EXCEPT !.Valid = FALSE, !.Head = 0, !.Tail = 0]]
  /\ IoQueueCount' = IF IoQueueCount > 0 THEN IoQueueCount - 1 ELSE 0
  /\ UNCHANGED <<IoCq, cqDesc, sq, cq, Doorbells, fdo, host>>

(* Refused while the submission queue of the same number exists.  The host *)
(* forgets what it knew of the queue.                                      *)
VnvmeDeleteIoCompletionQueue(q) ==
  /\ q \in Configured /\ IoCq[q].Created /\ ~ IoSq[q].Created
  /\ IoCq' = [IoCq EXCEPT ![q] = ZeroCq]
  /\ cqDesc' = [cqDesc EXCEPT ![q] = [@ EXCEPT !.Valid = FALSE, !.Tail = 0, !.Phase = 1]]
  /\ host' = [host EXCEPT ![q] = NewHost] /\ owed' = [owed EXCEPT ![q] = 0]
  /\ UNCHANGED <<IoSq, IoQueueCount, sqDesc, sq, cq, Doorbells, fdo>>

-----------------------------------------------------------------------------
(* Commands and completions *)

(* n commands of queue q from the head of its descriptor on *)
VnvmeFetchCommand(q, n) == [i \in 1 .. n |-> sq[q][(sqDesc[q].Head + i - 1) % sqDesc[q].Capacity]]
MayFetch(q) == q \in Configured /\ IoSq[q].Created /\ sqDesc[q].Valid

(* A completion queue as entries, tail and phase, and what it becomes when *)
(* one completion after the other is written to it.                        *)
PostOne(c, cid, size) ==
  LET tail == (c.tail + 1) % size
  IN  [entries |-> [c.entries EXCEPT ![c.tail] = [cid |-> cid, phase |-> c.phase]],
       tail    |-> tail,
       phase   |-> IF tail = 0 THEN 1 - c.phase ELSE c.phase]

PostAll(c, cids, size) ==
  LET after[i \in 0 .. Len(cids)] == IF i = 0 THEN c ELSE PostOne(after[i - 1], cids[i], size)
  IN  after[Len(cids)]

MayPost(q) == q \in Configured /\ IoCq[q].Created /\ cqDesc[q].Valid

(* VnvmePostCompletion starts from the driver's phase, *)
VnvmePostCompletion(q, cids) ==
  PostAll([entries |-> cq[q], tail |-> cqDesc[q].Tail, phase |-> IoCq[q].Phase], cids, cqDesc[q].Capacity)

(* the abort from the descriptor's. *)
AbortPosts(q) ==
  PostAll([entries |-> cq[q], tail |-> cqDesc[q].Tail, phase |-> cqDesc[q].Phase],
          VnvmeFetchCommand(q, Pending(q)), cqDesc[q].Capacity)

(* Mutant: the driver's copies of tail and phase are not updated. *)
PostToShared(queues, result) ==
  /\ cq' = [q \in Qids |-> IF q \in queues THEN result[q].entries ELSE cq[q]]
  /\ cqDesc' = [q \in Qids |-> IF q \in queues
                               THEN [cqDesc[q] EXCEPT !.Tail = result[q].tail, !.Phase = result[q].phase]
                               ELSE cqDesc[q]]
  /\ UNCHANGED IoCq

(* The completion queues after result[q] was posted to each q of a set. *)
PostTo(queues, result) ==
  /\ cq' = [q \in Qids |-> IF q \in queues THEN result[q].entries ELSE cq[q]]
  /\ cqDesc' = [q \in Qids |-> IF q \in queues
                               THEN [cqDesc[q] EXCEPT !.Tail = result[q].tail, !.Phase = result[q].phase]
                               ELSE cqDesc[q]]
  /\ IoCq' = [q \in Qids |-> IF q \in queues
                             THEN [IoCq[q] EXCEPT !.Tail = result[q].tail, !.Phase = result[q].phase]
                             ELSE IoCq[q]]

-----------------------------------------------------------------------------
(* The doorbell scan, over the queues 1 .. IoQueueCount *)

Rung == {q \in Qids : q <= IoQueueCount /\ IoSq[q].Created /\ Doorbells[q] # IoSq[q].Tail}

(* VnvmeForwardIoCommandsToUser for each of them.  The tail is remembered  *)
(* also when nothing was forwarded.                                        *)
ForwardIo ==
  /\ fdo.Mode = "USER" /\ Rung # {}
  /\ sqDesc' = [q \in Qids |-> IF q \in Rung /\ fdo.UserReady
                               THEN [sqDesc[q] EXCEPT !.Tail = Doorbells[q]] ELSE sqDesc[q]]
  /\ owed' = [q \in Qids |-> IF q \in Rung /\ fdo.UserReady
                             THEN owed[q] + Distance(sqDesc[q].Tail, Doorbells[q], sqDesc[q].Capacity)
                             ELSE owed[q]]
  /\ IoSq' = [q \in Qids |-> IF q \in Rung THEN [IoSq[q] EXCEPT !.Tail = Doorbells[q]] ELSE IoSq[q]]
  /\ UNCHANGED <<IoCq, IoQueueCount, cqDesc, sq, cq, Doorbells, fdo, host>>

(* Mutant: the descriptor's tail is not looked at. *)
TakenToDoorbell(q) == IF ~ MayFetch(q) THEN 0 ELSE Distance(IoSq[q].Head, Doorbells[q], IoSq[q].Size)

(* How many commands VnvmeProcessIoCommands takes from a queue: from the   *)
(* driver's head to the doorbell, as far as the descriptor has any.        *)
Taken(q) ==
  LET asked == IF Doorbells[q] < IoSq[q].Size THEN Distance(IoSq[q].Head, Doorbells[q], IoSq[q].Size)
               ELSE Pending(q)
  IN  IF ~ MayFetch(q) THEN 0 ELSE IF asked < Pending(q) THEN asked ELSE Pending(q)

(* The answers go to the completion queue with the number of the SQ. *)
VnvmeProcessIoCommands ==
  /\ fdo.Mode = "KERNEL" /\ Rung # {}
  /\ sqDesc' = [q \in Qids |-> IF q \in Rung /\ Taken(q) > 0
                               THEN [sqDesc[q] EXCEPT !.Head = (@ + Taken(q)) % sqDesc[q].Capacity]
                               ELSE sqDesc[q]]
  /\ IoSq' = [q \in Qids |-> IF q \in Rung
                             THEN [IoSq[q] EXCEPT !.Head = (@ + Taken(q)) % IoSq[q].Size, !.Tail = Doorbells[q]]
                             ELSE IoSq[q]]
  /\ LET answered == {q \in Rung : Taken(q) > 0 /\ MayPost(q)}
     IN  PostTo(answered, [q \in answered |-> VnvmePostCompletion(q, VnvmeFetchCommand(q, Taken(q)))])
  /\ UNCHANGED <<IoQueueCount, sq, Doorbells, fdo, host, owed>>

(* A caller (external) uses the two functions directly, as the manual of   *)
(* the queues describes it: fetch a command, execute it, post the answer.  *)
FetchAndPost(q) ==
  /\ MayFetch(q) /\ Pending(q) > 0
  /\ LET head == (sqDesc[q].Head + 1) % sqDesc[q].Capacity
     IN  sqDesc' = [sqDesc EXCEPT ![q].Head = head] /\ IoSq' = [IoSq EXCEPT ![q].Head = head]
  /\ LET answered == {r \in {q} : MayPost(r)}
     IN  PostTo(answered, [r \in answered |-> VnvmePostCompletion(r, VnvmeFetchCommand(r, 1))])
  /\ UNCHANGED <<IoQueueCount, sq, Doorbells, fdo, host, owed>>

-----------------------------------------------------------------------------
(* The service *)

(* VnvmeHandleUserReady *)
ServiceReady ==
  /\ ~ fdo.UserReady /\ fdo' = [fdo EXCEPT !.UserReady = TRUE]
  /\ UNCHANGED <<IoSq, IoCq, IoQueueCount, sqDesc, cqDesc, sq, cq, Doorbells, host, owed>>

Aborted == {q \in Qids : q <= IoQueueCount /\ IoSq[q].Created /\ sqDesc[q].Valid
                         /\ sqDesc[q].Head # sqDesc[q].Tail /\ sqDesc[q].Capacity > 0}

(* CheckUserModeHeartbeat finds the service gone: VnvmeAbortPendingUser-   *)
(* Commands answers what was forwarded, then the mode is switched for good.*)
(* The driver's SQ heads stay where they are.                              *)
ServiceCrashes ==
  /\ fdo.Mode = "USER" /\ fdo.UserReady /\ ~ fdo.UserCrashed
  /\ PostTo(Aborted, [q \in Aborted |-> AbortPosts(q)])
  /\ sqDesc' = [q \in Qids |-> IF q \in Aborted THEN [sqDesc[q] EXCEPT !.Head = sqDesc[q].Tail] ELSE sqDesc[q]]
  /\ fdo' = [UserReady |-> FALSE, UserCrashed |-> TRUE, Mode |-> "KERNEL"]
  /\ UNCHANGED <<IoSq, IoQueueCount, sq, Doorbells, host, owed>>

-----------------------------------------------------------------------------
(* The host (external) never has more commands outstanding than either     *)
(* queue holds: nothing in the driver looks whether a queue is full.       *)

Room(q) == IF IoSq[q].Size < IoCq[q].Size THEN IoSq[q].Size - 1 ELSE IoCq[q].Size - 1

HostSubmit(q) ==
  /\ IoSq[q].Created /\ IoCq[q].Created
  /\ host[q].issued < MaxSubmits /\ host[q].issued - Len(host[q].reaped) < Room(q)
  /\ LET tail == (host[q].tail + 1) % IoSq[q].Size
     IN  /\ sq' = [sq EXCEPT ![q][host[q].tail] = host[q].issued + 1]
         /\ host' = [host EXCEPT ![q].tail = tail, ![q].issued = @ + 1]
         /\ Doorbells' = [Doorbells EXCEPT ![q] = tail]
  /\ UNCHANGED <<IoSq, IoCq, IoQueueCount, sqDesc, cqDesc, cq, fdo, owed>>

HostReap(q) ==
  /\ IoCq[q].Created /\ cq[q][host[q].cqHead].phase = host[q].phase
  /\ LET head == (host[q].cqHead + 1) % IoCq[q].Size
     IN  host' = [host EXCEPT ![q].reaped = Append(@, cq[q][host[q].cqHead].cid), ![q].cqHead = head,
                              ![q].phase = IF head = 0 THEN 1 - @ ELSE @]
  /\ UNCHANGED <<IoSq, IoCq, IoQueueCount, sqDesc, cqDesc, sq, cq, Doorbells, fdo, owed>>

Next ==
  \/ \E q \in AnyQid, size \in Sizes : VnvmeCreateIoCompletionQueue(q, size)
  \/ \E q, c \in AnyQid, size \in Sizes : VnvmeCreateIoSubmissionQueue(q, size, c)
  \/ \E q \in AnyQid : VnvmeDeleteIoSubmissionQueue(q)
  \/ \E q \in AnyQid : VnvmeDeleteIoCompletionQueue(q)
  \/ ForwardIo
  \/ VnvmeProcessIoCommands
  \/ \E q \in Qids : FetchAndPost(q)
  \/ ServiceReady \/ ServiceCrashes
  \/ \E q \in Qids : HostSubmit(q) \/ HostReap(q)

Spec == Init /\ [][Next]_vars
-----------------------------------------------------------------------------
(* Properties *)

Numbers == {0} \cup Sizes
Phases == {0, 1}

TypeOK ==
  /\ IoSq \in [Qids -> [Created : BOOLEAN, Size : Numbers, Head : Places, Tail : Places]]
  /\ IoCq \in [Qids -> [Created : BOOLEAN, Size : Numbers, Tail : Places, Phase : Phases]]
  /\ IoQueueCount \in 0 .. MaxIoQueues
  /\ sqDesc \in [Qids -> [Valid : BOOLEAN, Capacity : Numbers, Head : Places, Tail : Places]]
  /\ cqDesc \in [Qids -> [Valid : BOOLEAN, Capacity : Numbers, Tail : Places, Phase : Phases]]
  /\ sq \in [Qids -> [Places -> Cids \cup {NoCommand}]]
  /\ cq \in [Qids -> [Places -> [cid : Cids \cup {NoCommand}, phase : Phases]]]
  /\ Doorbells \in [Qids -> Places]
  /\ fdo \in [UserReady : BOOLEAN, UserCrashed : BOOLEAN, Mode : {"USER", "KERNEL"}]
  /\ host \in [Qids -> [tail : Places, cqHead : Places, phase : Phases, issued : 0 .. MaxSubmits,
                        reaped : Seq(Cids \cup {NoCommand})]]
  /\ owed \in [Qids -> 0 .. MaxSubmits]

(* The driver's tables and the descriptors in shared memory are two copies *)
(* of: which queues exist, their sizes, the tail and the phase of a        *)
(* completion queue (VnvmePostCompletion starts from IoCq.Phase, the abort *)
(* from cqDesc.Phase) and, until the abort of a crashed service, the head  *)
(* of a submission queue.  Not afterwards: the abort moves sqDesc.Head     *)
(* alone, and VnvmeProcessIoCommands then counts from IoSq.Head what it    *)
(* fetches at sqDesc.Head.  The tails of a submission queue are no copies: *)
(* IoSq.Tail is the doorbell last seen, sqDesc.Tail the one last forwarded. *)
TablesAgree ==
  \A q \in Qids :
    /\ IoSq[q].Created = sqDesc[q].Valid
    /\ IoCq[q].Created = cqDesc[q].Valid
    /\ IoSq[q].Created => /\ IoSq[q].Size = sqDesc[q].Capacity
                          /\ fdo.Mode = "USER" => IoSq[q].Head = sqDesc[q].Head
    /\ IoCq[q].Created => /\ IoCq[q].Size = cqDesc[q].Capacity
                          /\ IoCq[q].Tail = cqDesc[q].Tail
                          /\ IoCq[q].Phase = cqDesc[q].Phase

(* The host reaps completions of its own commands only, each once and in   *)
(* the order it issued them, over wraps, phase changes, queues of          *)
(* different sizes, a crash of the service with its abort, and the         *)
(* deletion of a queue under its commands.                                 *)
ReapedOnceInOrder ==
  \A q \in Qids : LET reaped == host[q].reaped IN
    /\ \A k \in 1 .. Len(reaped) : reaped[k] \in 1 .. host[q].issued
    /\ \A j, k \in 1 .. Len(reaped) : j < k => reaped[j] < reaped[k]

(* Every forwarded command that was not deleted with its queue is in the   *)
(* submission queue, in the completion queue, or has been reaped: none is  *)
(* lost, and no completion overwrites one the host has not seen.           *)
ForwardedIsAccountedFor ==
  \A q \in Qids : IoSq[q].Created /\ IoCq[q].Created =>
    owed[q] = Pending(q) + Distance(host[q].cqHead, cqDesc[q].Tail, cqDesc[q].Capacity) + Len(host[q].reaped)
=============================================================================
