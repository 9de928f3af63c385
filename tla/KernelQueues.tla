----------------------------- MODULE KernelQueues -----------------------------
(***************************************************************************)
(* The driver's own admin command handlers (kernel-mode processing) and    *)
(* the I/O half of the doorbell scan: the tables IoSq and IoCq of one      *)
(* controller, IoQueueCount, the queue count negotiated by Set Features    *)
(* and the parked Asynchronous Event Requests.                             *)
(*                                                                         *)
(* A handler answers its command by building a completion and passing it   *)
(* to VnvmePostCompletion; answer is that completion's status.  (As long   *)
(* as AdminCQ.Valid is 0, which it always is, VnvmePostCompletion returns  *)
(* STATUS_INVALID_DEVICE_STATE and changes nothing.)                       *)
(***************************************************************************)
EXTENDS Naturals, Sequences, FiniteSets

CONSTANTS
  MaxIoQueues,     \* VNVME_MAX_IO_QUEUES (16)
  ConfigMaxQueues, \* g_Config.MaxIOQueues, 1 .. VNVME_MAX_IO_QUEUES
  MaxAer,          \* VNVME_MAX_AER_COMMANDS (4)
  Width,           \* how many values a 16-bit field has (65536)
  RawSizes,        \* values of the 0-based queue size field of a Create command
  RawCounts,       \* values of a 0-based queue count field of Set Features
  Cids             \* command identifiers the host uses for event requests

ASSUME QueuesAssumption ==
  MaxIoQueues \in Nat \ {0} /\ ConfigMaxQueues \in 1 .. MaxIoQueues
ASSUME AerAssumption == MaxAer \in Nat \ {0}
ASSUME WidthAssumption == Width \in Nat /\ Width > MaxIoQueues + 1
ASSUME FieldAssumption == RawSizes \subseteq 0 .. Width - 1 /\ RawCounts \subseteq 0 .. Width - 1

Qids == 1 .. MaxIoQueues             \* VNVME_IO_QUEUE_ID_VALID
AnyQid == 0 .. MaxIoQueues + 1       \* what a command may carry in its QID field
QSize(raw) == (raw + 1) % Width      \* a USHORT: the largest field value wraps to 0

VARIABLES
  IoSq,          \* per queue: Created, CqId, Size, Tail
  IoCq,          \* per queue: Created, Size
  IoQueueCount,
  negotiated,    \* PdoContext->MaxIoQueues
  AerCids,       \* AerCids[0 .. AerCount - 1]
  Doorbells,     \* the SQ tail doorbells, as the host last wrote them
  answer,        \* the status the last admin command was to be answered with
  waiting,       \* history: event requests the host has issued and seen no completion of
  lost           \* history: those of them whose completion could not be posted

vars == <<IoSq, IoCq, IoQueueCount, negotiated, AerCids, Doorbells, answer, waiting, lost>>

ZeroSq == [Created |-> FALSE, CqId |-> 0, Size |-> 0, Tail |-> 0]
ZeroCq == [Created |-> FALSE, Size |-> 0]

(* VnvmeCreateController: a zeroed context with the largest queue count *)
Init ==
  /\ IoSq = [q \in Qids |-> ZeroSq]
  /\ IoCq = [q \in Qids |-> ZeroCq]
  /\ IoQueueCount = 0
  /\ negotiated = MaxIoQueues
  /\ AerCids = << >>
  /\ Doorbells = [q \in Qids |-> 0]
  /\ answer = "NONE"
  /\ waiting = {}
  /\ lost = {}

-----------------------------------------------------------------------------
(* Queue management *)

CreateIoCqStatus(qid, qsize) ==
  IF qid \notin Qids THEN "INVALID_QUEUE_ID"
  ELSE IF qsize < 2 THEN "INVALID_QUEUE_SIZE"
  ELSE IF IoCq[qid].Created THEN "INVALID_QUEUE_ID"
  ELSE "SUCCESS"

HandleCreateIoCq(qid, qsize) ==
  /\ answer' = CreateIoCqStatus(qid, qsize)
  /\ IoCq' = IF CreateIoCqStatus(qid, qsize) = "SUCCESS"
             THEN [IoCq EXCEPT ![qid] = [Created |-> TRUE, Size |-> qsize]]
             ELSE IoCq
  /\ UNCHANGED <<IoSq, IoQueueCount, negotiated, AerCids, Doorbells, waiting, lost>>

(* Mutant: an existing SQ is created anew. *)
CreateIoSqStatusAgain(qid, qsize, cqid) ==
  IF qid \notin Qids THEN "INVALID_QUEUE_ID"
  ELSE IF qsize < 2 THEN "INVALID_QUEUE_SIZE"
  ELSE IF cqid \notin Qids \/ ~ IoCq[cqid].Created THEN "CQ_INVALID"
  ELSE "SUCCESS"

CreateIoSqStatus(qid, qsize, cqid) ==
  IF qid \notin Qids THEN "INVALID_QUEUE_ID"
  ELSE IF qsize < 2 THEN "INVALID_QUEUE_SIZE"
  ELSE IF cqid \notin Qids \/ ~ IoCq[cqid].Created THEN "CQ_INVALID"
  ELSE IF IoSq[qid].Created THEN "INVALID_QUEUE_ID"
  ELSE "SUCCESS"

(* Mutant: IoQueueCount counts the submission queues (as queue.c does). *)
HandleCreateIoSqCounts(qid, qsize, cqid) ==
  LET status == CreateIoSqStatus(qid, qsize, cqid)
  IN  /\ answer' = status
      /\ IoSq' = IF status = "SUCCESS"
                 THEN [IoSq EXCEPT ![qid] = [Created |-> TRUE, CqId |-> cqid,
                                             Size |-> qsize, Tail |-> 0]]
                 ELSE IoSq
      /\ IoQueueCount' = IF status = "SUCCESS" /\ IoQueueCount < MaxIoQueues
                         THEN IoQueueCount + 1 ELSE IoQueueCount
      /\ UNCHANGED <<IoCq, negotiated, AerCids, Doorbells, waiting, lost>>

(* Mutant: the queue size is taken as it is in the command, 0-based. *)
HandleCreateIoSqRawSize(qid, qsize, cqid) ==
  LET status == CreateIoSqStatus(qid, qsize, cqid)
  IN  /\ answer' = status
      /\ IoSq' = IF status = "SUCCESS"
                 THEN [IoSq EXCEPT ![qid] = [Created |-> TRUE, CqId |-> cqid,
                                             Size |-> qsize - 1, Tail |-> 0]]
                 ELSE IoSq
      /\ IoQueueCount' = IF status = "SUCCESS" /\ IoQueueCount < qid
                         THEN qid ELSE IoQueueCount
      /\ UNCHANGED <<IoCq, negotiated, AerCids, Doorbells, waiting, lost>>

(* IoQueueCount becomes the largest identifier of a created SQ. *)
HandleCreateIoSq(qid, qsize, cqid) ==
  LET status == CreateIoSqStatus(qid, qsize, cqid)
  IN  /\ answer' = status
      /\ IoSq' = IF status = "SUCCESS"
                 THEN [IoSq EXCEPT ![qid] = [Created |-> TRUE, CqId |-> cqid,
                                             Size |-> qsize, Tail |-> 0]]
                 ELSE IoSq
      /\ IoQueueCount' = IF status = "SUCCESS" /\ IoQueueCount < qid
                         THEN qid ELSE IoQueueCount
      /\ UNCHANGED <<IoCq, negotiated, AerCids, Doorbells, waiting, lost>>

(* Mutant: only the SQ of the same number counts as attached (the          *)
(* simplified check of VnvmeDeleteIoCompletionQueue in queue.c).           *)
DeleteIoCqStatusSameId(qid) ==
  IF qid \notin Qids THEN "INVALID_QUEUE_ID"
  ELSE IF ~ IoCq[qid].Created THEN "INVALID_QUEUE_ID"
  ELSE IF IoSq[qid].Created THEN "INVALID_QUEUE_DELETION"
  ELSE "SUCCESS"

DeleteIoCqStatus(qid) ==
  IF qid \notin Qids THEN "INVALID_QUEUE_ID"
  ELSE IF ~ IoCq[qid].Created THEN "INVALID_QUEUE_ID"
  ELSE IF \E s \in Qids : IoSq[s].Created /\ IoSq[s].CqId = qid THEN "INVALID_QUEUE_DELETION"
  ELSE "SUCCESS"

HandleDeleteIoCq(qid) ==
  /\ answer' = DeleteIoCqStatus(qid)
  /\ IoCq' = IF DeleteIoCqStatus(qid) = "SUCCESS" THEN [IoCq EXCEPT ![qid] = ZeroCq] ELSE IoCq
  /\ UNCHANGED <<IoSq, IoQueueCount, negotiated, AerCids, Doorbells, waiting, lost>>

DeleteIoSqStatus(qid) ==
  IF qid \notin Qids THEN "INVALID_QUEUE_ID"
  ELSE IF ~ IoSq[qid].Created THEN "INVALID_QUEUE_ID"
  ELSE "SUCCESS"

(* IoQueueCount is not lowered. *)
HandleDeleteIoSq(qid) ==
  /\ answer' = DeleteIoSqStatus(qid)
  /\ IoSq' = IF DeleteIoSqStatus(qid) = "SUCCESS" THEN [IoSq EXCEPT ![qid] = ZeroSq] ELSE IoSq
  /\ UNCHANGED <<IoCq, IoQueueCount, negotiated, AerCids, Doorbells, waiting, lost>>

-----------------------------------------------------------------------------
(* Features, event requests and the commands that change nothing *)

Least(a, b) == IF a < b THEN a ELSE b

(* Set Features, Number of Queues *)
SetNumberOfQueues(ncqr, nsqr) ==
  /\ negotiated' = Least(Least(ncqr, ConfigMaxQueues), Least(nsqr, ConfigMaxQueues))
  /\ answer' = "SUCCESS"
  /\ UNCHANGED <<IoSq, IoCq, IoQueueCount, AerCids, Doorbells, waiting, lost>>

(* The other features are accepted and ignored, Get Features, Abort, Keep  *)
(* Alive, Identify and Get Log Page read only; an unknown opcode, feature  *)
(* or page is answered with an error.                                      *)
HandleReadOnly ==
  /\ answer' \in {"SUCCESS", "ERROR"}
  /\ UNCHANGED <<IoSq, IoCq, IoQueueCount, negotiated, AerCids, Doorbells, waiting, lost>>

(* PostSuccessCompletion and PostErrorCompletion of an event request: the  *)
(* completion is in the admin queue, or VnvmePostCompletion has refused it *)
(* (no shared memory, AdminCQ not valid) and nobody tries again.           *)
Post(cid, status) ==
  \/ answer' = status /\ waiting' = waiting \ {cid} /\ UNCHANGED lost
  \/ answer' = "NONE" /\ waiting' = waiting \cup {cid} /\ lost' = lost \cup {cid}

(* The request is parked without an answer, or refused at the limit. *)
HandleAsyncEventRequest(cid) ==
  /\ IF Len(AerCids) >= MaxAer
     THEN Post(cid, "ASYNC_EVENT_LIMIT_EXCEEDED") /\ UNCHANGED AerCids
     ELSE /\ answer' = "NONE"
          /\ AerCids' = Append(AerCids, cid)
          /\ waiting' = waiting \cup {cid}
          /\ UNCHANGED lost
  /\ UNCHANGED <<IoSq, IoCq, IoQueueCount, negotiated, Doorbells>>

(* Mutant: the requests are moved down one place too few. *)
VnvmeCompleteAerNoShift ==
  /\ AerCids # << >>
  /\ AerCids' = SubSeq(AerCids, 1, Len(AerCids) - 1)
  /\ Post(Head(AerCids), "SUCCESS")
  /\ UNCHANGED <<IoSq, IoCq, IoQueueCount, negotiated, Doorbells>>

(* An event completes the request that has been parked longest, the others *)
(* move down, before the completion is posted; without a parked request    *)
(* the event is dropped.                                                   *)
VnvmeCompleteAer ==
  /\ AerCids # << >>
  /\ AerCids' = Tail(AerCids)
  /\ Post(Head(AerCids), "SUCCESS")
  /\ UNCHANGED <<IoSq, IoCq, IoQueueCount, negotiated, Doorbells>>

VnvmeProcessAdminCommand ==
  \/ \E qid \in AnyQid, raw \in RawSizes : HandleCreateIoCq(qid, QSize(raw))
  \/ \E qid, cqid \in AnyQid, raw \in RawSizes : HandleCreateIoSq(qid, QSize(raw), cqid)
  \/ \E qid \in AnyQid : HandleDeleteIoCq(qid)
  \/ \E qid \in AnyQid : HandleDeleteIoSq(qid)
  \/ \E ncqr, nsqr \in RawCounts : SetNumberOfQueues(ncqr, nsqr)
  \/ HandleReadOnly
  \/ \E cid \in Cids \ waiting : HandleAsyncEventRequest(cid)

-----------------------------------------------------------------------------
(* Doorbells *)

(* The host (external) rings the doorbell of a queue it has created. *)
HostRings(qid, tail) ==
  /\ IoSq[qid].Created
  /\ tail < IoSq[qid].Size
  /\ Doorbells' = [Doorbells EXCEPT ![qid] = tail]
  /\ UNCHANGED <<IoSq, IoCq, IoQueueCount, negotiated, AerCids, answer, waiting, lost>>

(* The loop of VnvmeProcessDoorbells over qid = 1 .. IoQueueCount: a queue *)
(* whose doorbell has moved is handed on and its tail remembered.          *)
ScanIoDoorbells ==
  /\ IoSq' = [q \in Qids |-> IF q <= IoQueueCount /\ IoSq[q].Created
                             THEN [IoSq[q] EXCEPT !.Tail = Doorbells[q]]
                             ELSE IoSq[q]]
  /\ UNCHANGED <<IoCq, IoQueueCount, negotiated, AerCids, Doorbells, answer, waiting, lost>>

Next ==
  \/ VnvmeProcessAdminCommand
  \/ VnvmeCompleteAer
  \/ \E qid \in Qids, raw \in RawSizes : HostRings(qid, raw)
  \/ ScanIoDoorbells

Spec == Init /\ [][Next]_vars

-----------------------------------------------------------------------------
(* Properties *)

Statuses == {"NONE", "SUCCESS", "ERROR", "INVALID_QUEUE_ID", "INVALID_QUEUE_SIZE", "CQ_INVALID",
             "INVALID_QUEUE_DELETION", "ASYNC_EVENT_LIMIT_EXCEEDED"}

SqEntry == [Created : BOOLEAN, CqId : 0 .. MaxIoQueues, Size : 0 .. Width - 1, Tail : 0 .. Width - 1]
CqEntry == [Created : BOOLEAN, Size : 0 .. Width - 1]

(* The tables keep the shape the handlers give them; a queue that exists   *)
(* has at least two entries, whatever size field the host sent (the field  *)
(* is 16 bits wide and 0-based).                                           *)
TypeOK ==
  /\ IoSq \in [Qids -> SqEntry]
  /\ IoCq \in [Qids -> CqEntry]
  /\ \A q \in Qids : IoSq[q].Created => IoSq[q].Size >= 2
  /\ \A q \in Qids : IoCq[q].Created => IoCq[q].Size >= 2
  /\ IoQueueCount \in 0 .. MaxIoQueues
  /\ negotiated \in 0 .. MaxIoQueues
  /\ AerCids \in Seq(Cids)
  /\ Doorbells \in [Qids -> 0 .. Width - 1]
  /\ answer \in Statuses
  /\ waiting \subseteq Cids /\ lost \subseteq Cids

(* A submission queue that exists posts to a completion queue that exists, *)
(* in whatever order queues are created and deleted: completions of its    *)
(* commands always have a place to go.                                     *)
BoundCqExists ==
  \A q \in Qids : IoSq[q].Created => (IoSq[q].CqId \in Qids /\ IoCq[IoSq[q].CqId].Created)

(* The doorbell scan, the abort of pending commands and the heartbeat's    *)
(* count of pending ones all stop at IoQueueCount, and still reach every   *)
(* queue, with gaps in the numbering and after deletions.                  *)
ScanReachesEveryQueue == \A q \in Qids : IoSq[q].Created => q <= IoQueueCount

(* An event request is answered at most once: those parked are requests    *)
(* the host still waits for, each parked once.  One that waits and is not  *)
(* parked is one whose completion could not be posted: the code takes a    *)
(* request out of AerCids before it posts, and shifting and counting the   *)
(* array loses no other.  The array of VNVME_MAX_AER_COMMANDS entries is   *)
(* never overrun.                                                          *)
AersAreWaitedFor ==
  LET parked == {AerCids[i] : i \in 1 .. Len(AerCids)}
  IN  /\ Len(AerCids) <= MaxAer
      /\ parked = waiting \ lost
      /\ lost \subseteq waiting
      /\ \A i, j \in 1 .. Len(AerCids) : AerCids[i] = AerCids[j] => i = j

Table == INSTANCE QueueTable WITH
  NoCq <- 0,
  cqs  <- {q \in Qids : IoCq[q].Created},
  cqOf <- [q \in Qids |-> IF IoSq[q].Created THEN IoSq[q].CqId ELSE 0]

(* The handlers implement the queue table the NVMe rules ask for. *)
IsQueueTable == Table!Spec
=============================================================================
