---------------------------- MODULE ServerCommands ----------------------------
(***************************************************************************)
(* The service's command handlers (admin_commands.c, io_commands.c) over   *)
(* its backends, from the start of the process (main_v2.c,                 *)
(* command_engine.c) to its end, which may come in the middle of a write.  *)
(* Data moves between the backend and the one data buffer of the shared    *)
(* memory; a Write stores whatever the buffer holds.  The engine runs the  *)
(* commands of a batch one after the other and waits for nobody: a command *)
(* overwrites the data, and mostly the completion, of the one before it.   *)
(*                                                                         *)
(* belief, view and newest are histories: what the answers entitle their   *)
(* reader to expect of the stored bytes, which queues and settings the     *)
(* host has been told exist, and what was executed last for each           *)
(* completion queue.                                                       *)
(***************************************************************************)
EXTENDS Backend

CONSTANTS
  MaxIoQueues,   \* ADMIN_MAX_IO_QUEUES (16)
  BufferSize,    \* DataBufferSize of the shared memory (60 MB)
  PageBytes,     \* the 4096 bytes an Identify fills
  Configs,       \* storage sections the service may be started with
  CqNumbers,     \* numbers of completion queues a command may carry, of no queue too
  SqNumbers,     \* numbers of submission queues a command may carry
  RawSizes,      \* what a command may carry in its queue size field
  FeatureValues, \* what a Set Features may carry
  Long,          \* how many values a UINT32 has
  Dword,         \* 4 bytes
  RawLogs,       \* 0-based counts of dwords a Get Log Page may ask for
  SmartEnd,      \* the last byte (5) the SMART log sets
  Slbas, RawNlbs,
  Orderly,       \* the host creates and deletes queues in the order NVMe prescribes
  MaxChanges     \* bound: commands that change the medium

ASSUME ServerAssumption ==
  /\ MaxIoQueues \in Nat \ {0} /\ BufferSize \in Nat /\ PageBytes \in Nat
  /\ Orderly \in BOOLEAN /\ MaxChanges \in Nat
  /\ RawSizes \subseteq Nat /\ FeatureValues \subseteq Nat /\ RawLogs \subseteq Nat
  /\ Long \in Nat \ {0} /\ Dword \in Nat /\ SmartEnd \in Nat
  /\ Slbas \subseteq 0 .. Wide - 1 /\ RawNlbs \subseteq 0 .. Half - 1
  /\ \A cfg \in Configs : /\ cfg.kind \in {"memory", "file"} /\ cfg.size \in 0 .. Wide - 1
                          /\ cfg.readOnly \in BOOLEAN /\ cfg.preallocate \in BOOLEAN
  /\ \E largest \in Configs : \A cfg \in Configs : cfg.size <= largest.size

(* The SMART log sets its bytes without a look at the buffer's size. *)
ASSUME SmartAssumption == SmartEnd < BufferSize

Qids == 1 .. MaxIoQueues
Kinds == {"memory", "file"}
MaxBytes == CHOOSE n \in {cfg.size : cfg \in Configs} : \A cfg \in Configs : cfg.size <= n
Stored == 0 .. MaxBytes - 1
Tag == 1                                \* a byte of Identify data or of the SMART log

VARIABLES
  backend,     \* what BackendCreate returned; closed when the service does not run
  kind,        \* the backend type of the configuration file, which stays the same
  medium,      \* the memory block, or the file
  nsSize,      \* blocks of namespace 1
  ioCq, ioSq,  \* per queue: created, capacity, cqId
  features,    \* arbitration and volatile write cache
  dataBuffer,  \* the data buffer in the shared memory
  slot,        \* per completion queue: its entry 0, the only one that is ever written
  delivered,   \* what the command executed last delivered: start and count of a Read
  changes,     \* for the bound
  belief,      \* history: per byte, the values to be expected
  view,        \* history: the queues and settings the host was told of
  newest       \* history: per completion queue, the queue of the last command to be answered there

vars == <<kind, backend, medium, nsSize, ioCq, ioSq, features, dataBuffer, slot, delivered, changes,
          belief, view, newest>>
tables == <<ioCq, ioSq, features, view>>
completions == <<slot, newest>>

None == << >>
NoQueue == [created |-> FALSE, capacity |-> 0, cqId |-> 0]
Defaults == [arbitration |-> 0, volatileWriteCache |-> 1]
Nothing == [cqs |-> {}, sqs |-> {}, features |-> Defaults]
NoEntry == 0                            \* an entry is told by the SQID in it

Init ==
  /\ backend = NoBackend /\ nsSize = 0
  /\ kind \in Kinds /\ medium = NoFile
  /\ ioCq = [q \in Qids |-> NoQueue] /\ ioSq = [q \in Qids |-> NoQueue]
  /\ features = Defaults
  /\ dataBuffer = Zeroes(BufferSize)
  /\ slot = [q \in Qids |-> NoEntry] /\ newest = [q \in Qids |-> NoEntry]
  /\ delivered = None /\ changes = 0
  /\ belief = [b \in Stored |-> {0, Junk}]
  /\ view = Nothing

-----------------------------------------------------------------------------
(* Process *)

NoTables ==
  /\ ioCq' = [q \in Qids |-> NoQueue] /\ ioSq' = [q \in Qids |-> NoQueue]
  /\ features' = Defaults /\ view' = Nothing

(* CmdEngineInitSimple and AdminCmdInit: one namespace of whole blocks,    *)
(* empty queue tables.  The shared memory keeps its data.  The host meets  *)
(* a new service with a controller that it has reset (external).           *)
CmdEngineInitSimple(be) == nsSize' = be.size \div BlockSize /\ NoTables

Start(cfg) ==
  /\ ~ backend.open /\ cfg.kind = kind
  /\ \E r \in BackendCreate(cfg, medium) :
       /\ backend' = r[1] /\ medium' = r[2]
       /\ IF r[1].open THEN CmdEngineInitSimple(r[1]) ELSE UNCHANGED <<nsSize, tables>>
  /\ belief' = IF kind = "memory" THEN [b \in Stored |-> {0}] ELSE belief
  /\ delivered' = None
  /\ UNCHANGED <<kind, dataBuffer, completions, changes>>

(* The process is gone, and what it kept in memory with it. *)
Gone(m) ==
  /\ backend' = NoBackend /\ nsSize' = 0 /\ NoTables
  /\ medium' = IF kind = "memory" THEN NoFile ELSE m
  /\ delivered' = None
  /\ UNCHANGED <<kind, dataBuffer, completions>>

(* The process ends between two commands, in order or not. *)
End == backend.open /\ Gone(medium) /\ UNCHANGED <<changes, belief>>

Content == <<kind, backend, medium, nsSize, changes, belief>>

-----------------------------------------------------------------------------
(* Admin commands, answered at once: queues *)

QueueSize(raw) == (raw + 1) % Half

(* The host's discipline (external), and what it takes from an answer. *)
MayCreateSq(c) == Orderly => c \in view.cqs
MayDeleteCq(q) == Orderly => \A s \in view.sqs : s[2] # q
Told(status, told) == view' = IF status = "SUCCESS" THEN told ELSE view

AdminCmdCreateIoCq(q, raw) ==
  LET status == IF q \notin Qids THEN "INVALID" ELSE IF ioCq[q].created THEN "INVALID" ELSE "SUCCESS"
  IN  /\ ioCq' = IF status # "SUCCESS" THEN ioCq
                 ELSE [ioCq EXCEPT ![q] = [created |-> TRUE, capacity |-> QueueSize(raw), cqId |-> 0]]
      /\ Told(status, [view EXCEPT !.cqs = @ \cup {q}])
      /\ UNCHANGED <<ioSq, features, dataBuffer, Content>>

(* Mutant: the completion queue is taken to be the one of the same number. *)
AdminCmdCreateIoSqPaired(q, raw, c) ==
  /\ MayCreateSq(c)
  /\ q \in Qids /\ c \in Qids /\ ioCq[c].created /\ ~ ioSq[q].created
  /\ ioSq' = [ioSq EXCEPT ![q] = [created |-> TRUE, capacity |-> QueueSize(raw), cqId |-> q]]
  /\ Told("SUCCESS", [view EXCEPT !.sqs = @ \cup {<<q, c>>}])
  /\ UNCHANGED <<ioCq, features, dataBuffer, Content>>

(* An unknown completion queue is answered with status 0. *)
AdminCmdCreateIoSq(q, raw, c) ==
  LET missing == ~ (c \in Qids /\ ioCq[c].created)
      status  == IF q \notin Qids THEN "INVALID" ELSE IF missing THEN "SUCCESS"
                 ELSE IF ioSq[q].created THEN "INVALID" ELSE "SUCCESS"
  IN  /\ MayCreateSq(c)
      /\ ioSq' = IF status # "SUCCESS" \/ missing THEN ioSq
                 ELSE [ioSq EXCEPT ![q] = [created |-> TRUE, capacity |-> QueueSize(raw), cqId |-> c]]
      /\ Told(status, [view EXCEPT !.sqs = @ \cup {<<q, c>>}])
      /\ UNCHANGED <<ioCq, features, dataBuffer, Content>>

(* Submission queues that post to the queue are not looked for. *)
AdminCmdDeleteIoCq(q) ==
  LET status == IF q \in Qids /\ ioCq[q].created THEN "SUCCESS" ELSE "INVALID"
  IN  /\ MayDeleteCq(q)
      /\ ioCq' = IF status = "SUCCESS" THEN [ioCq EXCEPT ![q] = NoQueue] ELSE ioCq
      /\ Told(status, [view EXCEPT !.cqs = @ \ {q}])
      /\ UNCHANGED <<ioSq, features, dataBuffer, Content>>

AdminCmdDeleteIoSq(q) ==
  LET status == IF q \in Qids /\ ioSq[q].created THEN "SUCCESS" ELSE "INVALID"
  IN  /\ ioSq' = IF status = "SUCCESS" THEN [ioSq EXCEPT ![q] = NoQueue] ELSE ioSq
      /\ Told(status, [view EXCEPT !.sqs = {s \in @ : s[1] # q}])
      /\ UNCHANGED <<ioCq, features, dataBuffer, Content>>

-----------------------------------------------------------------------------
(* Admin commands: features and data *)

(* Arbitration (and Power Management alike) is kept as given, of the write *)
(* cache one bit; every other feature is answered with success and kept    *)
(* nowhere.                                                                *)
AdminCmdSetFeatures(fid, value) ==
  /\ features' = CASE fid = "arbitration" -> [features EXCEPT !.arbitration = value]
                   [] fid = "volatile_write_cache" -> [features EXCEPT !.volatileWriteCache = value % 2]
                   [] OTHER -> features
  /\ view' = CASE fid = "arbitration" -> [view EXCEPT !.features.arbitration = value]
               [] fid = "volatile_write_cache" -> [view EXCEPT !.features.volatileWriteCache = value % 2]
               [] OTHER -> view
  /\ UNCHANGED <<ioCq, ioSq, dataBuffer, Content>>

AdminCmdGetFeatures(fid) ==
  /\ view' = CASE fid = "arbitration" -> [view EXCEPT !.features.arbitration = features.arbitration]
               [] fid = "volatile_write_cache" ->
                    [view EXCEPT !.features.volatileWriteCache = features.volatileWriteCache]
               [] OTHER -> view
  /\ UNCHANGED <<ioCq, ioSq, features, dataBuffer, Content>>

Overwrite(buffer, places, v) ==
  [k \in DOMAIN buffer \cup places |-> IF k \in places THEN v ELSE buffer[k]]

(* An Identify fills its page, if the buffer has room for it. *)
FillBuffer(size) ==
  dataBuffer' = IF size > BufferSize THEN dataBuffer ELSE Overwrite(dataBuffer, 0 .. size - 1, Tag)

AdminCmdIdentifyNamespace(nsid) == IF nsid = 1 THEN FillBuffer(PageBytes) ELSE UNCHANGED dataBuffer
AdminCmdIdentifyController == FillBuffer(PageBytes)
AdminCmdIdentifyNamespaceList == FillBuffer(PageBytes)

AdminCmdIdentify(cns, nsid) ==
  /\ \/ cns = 0 /\ AdminCmdIdentifyNamespace(nsid)
     \/ cns = 1 /\ AdminCmdIdentifyController
     \/ cns = 2 /\ AdminCmdIdentifyNamespaceList
     \/ cns > 2 /\ UNCHANGED dataBuffer
  /\ UNCHANGED <<tables, Content>>

LogLength(numd) == (numd * Dword + Dword) % Long     \* a UINT32: the largest counts wrap

(* What a Get Log Page leaves in the buffer: zeroes in the length asked    *)
(* for, and of the SMART log (2) its bytes, whatever that length is.       *)
LogPage(lid, bytes) ==
  LET cleared == Overwrite(dataBuffer, 0 .. bytes - 1, 0)
  IN  IF lid = 2 THEN Overwrite(cleared, 1 .. SmartEnd, Tag) ELSE cleared

(* Mutant: the buffer's size is not looked at. *)
AdminCmdGetLogPageAnyway(lid, numd) ==
  dataBuffer' = LogPage(lid, LogLength(numd)) /\ UNCHANGED <<tables, Content>>

(* Logs 1 and 3 are empty; an unknown one is refused after its part of the *)
(* buffer has been cleared.                                                *)
AdminCmdGetLogPage(lid, numd) ==
  /\ dataBuffer' = IF LogLength(numd) > BufferSize THEN dataBuffer ELSE LogPage(lid, LogLength(numd))
  /\ UNCHANGED <<tables, Content>>

(* Answered without a look at anything. *)
NoEffect == UNCHANGED <<tables, dataBuffer, Content>>
AdminCmdAbort == NoEffect
AdminCmdKeepAlive == NoEffect

(* The answer goes to the admin completion queue (AdminPath). *)
CmdEngineProcessAdminCommand ==
  /\ \/ \E q \in CqNumbers, raw \in RawSizes : AdminCmdCreateIoCq(q, raw)
     \/ \E q \in SqNumbers, c \in CqNumbers, raw \in RawSizes : AdminCmdCreateIoSq(q, raw, c)
     \/ \E q \in CqNumbers : AdminCmdDeleteIoCq(q)
     \/ \E q \in SqNumbers : AdminCmdDeleteIoSq(q)
     \/ \E fid \in {"arbitration", "volatile_write_cache", "number_of_queues"}, value \in FeatureValues :
          AdminCmdSetFeatures(fid, value)
     \/ \E fid \in {"arbitration", "volatile_write_cache", "number_of_queues", "other"} :
          AdminCmdGetFeatures(fid)
     \/ \E cns \in 0 .. 3 : AdminCmdIdentify(cns, 1)
     \/ AdminCmdIdentify(0, 2)
     \/ \E lid \in 2 .. 4, numd \in RawLogs : AdminCmdGetLogPage(lid, numd)
     \/ AdminCmdAbort
     \/ AdminCmdKeepAlive
  /\ delivered' = None
  /\ UNCHANGED completions

-----------------------------------------------------------------------------
(* I/O commands, on a created submission queue *)

(* Mutant: the 0-based count is used as it is. *)
NlbRaw(raw) == raw

Nlb(raw) == (raw + 1) % Half
IoCmdIsNamespaceValid(nsid) == nsid = 1
IoCmdValidateLbaRange(slba, nlb) == (slba + nlb) % Wide >= slba /\ (slba + nlb) % Wide <= nsSize

(* Mutant: the queue of the submission queue's number is written to. *)
IoCmdPostCompletionPaired(q, answer) ==
  /\ slot' = IF ioSq[q].created /\ ioCq[q].created THEN [slot EXCEPT ![q] = q] ELSE slot
  /\ newest' = [c \in Qids |-> IF <<q, c>> \in view.sqs THEN q ELSE newest[c]]
  /\ delivered' = answer.read

(* The completion is written to entry 0 of the completion queue, over the  *)
(* one that is there: the tail stays 0, the phase that of the queue's      *)
(* creation.  It is dropped when the completion queue is gone.             *)
IoCmdPostCompletion(q, answer) ==
  LET cq == ioSq[q].cqId
  IN  /\ slot' = IF ioSq[q].created /\ cq \in Qids /\ ioCq[cq].created
                 THEN [slot EXCEPT ![cq] = q] ELSE slot
      /\ newest' = [c \in Qids |-> IF <<q, c>> \in view.sqs THEN q ELSE newest[c]]
      /\ delivered' = answer.read

Refusal(nsid, slba, nlb) ==
  IF ~ IoCmdIsNamespaceValid(nsid) THEN "INVALID_NAMESPACE"
  ELSE IF ~ IoCmdValidateLbaRange(slba, nlb) THEN "LBA_OUT_OF_RANGE" ELSE "NONE"

Reply(status) == [status |-> status, read |-> None]
Delivered(slba, raw) == [status |-> "SUCCESS", read |-> <<slba, raw>>]
Bytes == medium.bytes

IoCmdRead(q, nsid, slba, raw) ==
  LET nlb    == Nlb(raw)
      length == nlb * BlockSize
  IN  IF Refusal(nsid, slba, nlb) # "NONE"
      THEN IoCmdPostCompletion(q, Reply(Refusal(nsid, slba, nlb))) /\ NoEffect
      ELSE IF length > BufferSize THEN IoCmdPostCompletion(q, Delivered(slba, raw)) /\ NoEffect
      ELSE \E r \in BackendRead(backend, Bytes, (slba * BlockSize) % Wide, length) :
             /\ IoCmdPostCompletion(q, IF r.ok THEN Delivered(slba, raw) ELSE Reply("UNRECOVERED_READ_ERROR"))
             /\ dataBuffer' = [k \in DOMAIN dataBuffer |-> IF k \in DOMAIN r.bytes THEN r.bytes[k] ELSE dataBuffer[k]]
             /\ UNCHANGED <<tables, Content>>

(* What may be concluded of the bytes a command named. *)
Conclude(slba, asked, status) ==
  belief' = [b \in Stored |-> LET k == b - slba * BlockSize IN
    IF b < slba * BlockSize \/ k \notin DOMAIN asked THEN belief[b]
    ELSE IF status = "SUCCESS" THEN {asked[k]} ELSE belief[b] \cup {asked[k]}]

(* A command that changes the medium, or tries to: it succeeds, or fails,  *)
(* or the process ends in the middle of it.                                *)
Change(q, outcomes, slba, asked) ==
  /\ changes < MaxChanges /\ changes' = changes + 1
  /\ \E r \in outcomes :
       LET written == Medium(r.bytes)
           status  == IF r.ok THEN "SUCCESS" ELSE "WRITE_FAULT"
       IN  \/ /\ IoCmdPostCompletion(q, Reply(status))
              /\ medium' = written
              /\ Conclude(slba, asked, status)
              /\ UNCHANGED <<kind, backend, nsSize, tables, dataBuffer>>
           \/ ~ r.ok /\ Gone(written) /\ Conclude(slba, asked, "DIED")

IoCmdWrite(q, nsid, slba, raw) ==
  LET nlb    == Nlb(raw)
      length == nlb * BlockSize
  IN  IF Refusal(nsid, slba, nlb) # "NONE"
      THEN IoCmdPostCompletion(q, Reply(Refusal(nsid, slba, nlb))) /\ NoEffect
      ELSE IF length > BufferSize THEN IoCmdPostCompletion(q, Reply("SUCCESS")) /\ NoEffect
      ELSE Change(q, BackendWrite(backend, Bytes, (slba * BlockSize) % Wide, Prefix(dataBuffer, length)),
                  slba, Prefix(dataBuffer, (raw + 1) * BlockSize))

IoCmdWriteZeroes(q, nsid, slba, raw) ==
  LET nlb == Nlb(raw)
  IN  IF Refusal(nsid, slba, nlb) # "NONE"
      THEN IoCmdPostCompletion(q, Reply(Refusal(nsid, slba, nlb))) /\ NoEffect
      ELSE Change(q, BackendWriteZeroes(backend, Bytes, (slba * BlockSize) % Wide, nlb * BlockSize),
                  slba, Zeroes((raw + 1) * BlockSize))

IoCmdFlush(q) ==
  /\ \E ok \in BackendFlush(backend) :
       IoCmdPostCompletion(q, Reply(IF ok THEN "SUCCESS" ELSE "WRITE_FAULT"))
  /\ NoEffect

(* Nothing is deallocated. *)
IoCmdDatasetManagement(q) == IoCmdPostCompletion(q, Reply("SUCCESS")) /\ NoEffect

IoCmdProcess(q) ==
  \/ \E nsid \in 1 .. 2, slba \in Slbas, raw \in RawNlbs :
       \/ IoCmdRead(q, nsid, slba, raw)
       \/ IoCmdWrite(q, nsid, slba, raw)
       \/ IoCmdWriteZeroes(q, nsid, slba, raw)
  \/ IoCmdFlush(q)
  \/ IoCmdDatasetManagement(q)
  \/ IoCmdPostCompletion(q, Reply("INVALID")) /\ NoEffect

Next ==
  \/ \E cfg \in Configs : Start(cfg)
  \/ End
  \/ backend.open /\ CmdEngineProcessAdminCommand
  \/ backend.open /\ \E q \in Qids : ioSq[q].created /\ IoCmdProcess(q)

Spec == Init /\ [][Next]_vars
-----------------------------------------------------------------------------
(* Properties *)

Values == {0, Junk, Tag}

TypeOK ==
  /\ backend \in [open : BOOLEAN, kind : Kinds, size : 0 .. MaxBytes, readOnly : BOOLEAN]
  /\ kind \in Kinds
  /\ medium.exists => \E n \in 0 .. MaxBytes : medium.bytes \in [0 .. n - 1 -> Values]
  /\ nsSize \in Nat
  /\ ioCq \in [Qids -> [created : BOOLEAN, capacity : 0 .. Half - 1, cqId : {0}]]
  /\ ioSq \in [Qids -> [created : BOOLEAN, capacity : 0 .. Half - 1, cqId : 0 .. MaxIoQueues]]
  /\ dataBuffer \in [0 .. BufferSize - 1 -> Values]
  /\ changes \in 0 .. MaxChanges
  /\ slot \in [Qids -> Qids \cup {NoEntry}]

(* The queues and settings a host knows from the answers it got are those  *)
(* the service has: no queue was reported created that does not exist, and *)
(* none deleted that is still there.                                       *)
HostViewAgrees ==
  backend.open =>
    /\ view.cqs = {q \in Qids : ioCq[q].created}
    /\ view.sqs = {<<q, ioSq[q].cqId>> : q \in {q \in Qids : ioSq[q].created}}
    /\ view.features = features

(* Entry 0 of a completion queue is the answer to the command executed     *)
(* last of those on the submission queues the host bound to it, and of no  *)
(* other: a completion never goes to another queue, and none is dropped    *)
(* because its queue is gone.  More cannot be asked of IoCmdPostCompletion *)
(* as it is: earlier answers of a batch are overwritten, seen or not.      *)
NewestAnswerStands == \A c \in Qids : slot[c] = newest[c]

(* The medium holds what the answers said, over failures in the middle of  *)
(* a write, deaths of the process and restarts with another configuration: *)
(* a byte has the value of the last successful command that named it, or   *)
(* of a later one that failed or was never answered.                       *)
MediumIsAsTold ==
  medium.exists => \A b \in DOMAIN medium.bytes : medium.bytes[b] \in belief[b]

(* A successful Read leaves in the data buffer what was stored before,     *)
(* never the remains of an earlier command.  The next command may put its  *)
(* own data there: the buffer is one for the whole batch.                  *)
ReadFillsBuffer ==
  delivered # None =>
    \A k \in 0 .. (delivered[2] + 1) * BlockSize - 1 :
      LET b == delivered[1] * BlockSize + k IN b \in Stored /\ dataBuffer[k] \in belief[b]

(* Nothing a host sends changes the file of a service that was started     *)
(* read-only, although its namespace is not marked so.                     *)
ReadOnlyIsKept ==
  [][backend.open /\ backend.readOnly /\ kind = "file" => medium' = medium]_vars
=============================================================================
