------------------------ MODULE ServerCommands_proofs ------------------------
(***************************************************************************)
(* Proofs about the service's commands: the queue tables against what the  *)
(* host was told, the file of a read-only service, and the stored bytes    *)
(* against the answers, for any number of queues, configurations, contents *)
(* and lengths.                                                            *)
(***************************************************************************)
EXTENDS ServerCommands, Counters

QueueType == [created : BOOLEAN, capacity : Nat, cqId : Nat]
FeaturesType == [arbitration : Nat, volatileWriteCache : Nat]

TableTypes ==
  /\ ioCq \in [Qids -> QueueType] /\ ioSq \in [Qids -> QueueType]
  /\ features \in FeaturesType
  /\ view \in [cqs : SUBSET Qids, sqs : SUBSET (Qids \X Qids), features : FeaturesType]

(* Which queues the host knows, queue by queue. *)
CqsKnown == \A q \in Qids : q \in view.cqs <=> ioCq[q].created
SqsKnown == \A p, d \in Qids : <<p, d>> \in view.sqs <=> ioSq[p].created /\ ioSq[p].cqId = d

(* Every submission queue has its completion queue. *)
Attached ==
  \A q \in Qids : ioSq[q].created => ioSq[q].cqId \in Qids /\ ioCq[ioSq[q].cqId].created

TableInv ==
  /\ TableTypes /\ CqsKnown /\ SqsKnown /\ Attached
  /\ view.features = features

-----------------------------------------------------------------------------
(* The tables *)

(* A capacity computed from a size field is a number. *)
LEMMA QueueSizeType == \A raw \in RawSizes : QueueSize(raw) \in Nat
  BY ServerAssumption, WidthAssumption DEF QueueSize

(* The tables of a service that starts or is gone are empty, and so is     *)
(* what the host then knows.                                               *)
LEMMA EmptyTables == NoTables => TableInv'
  BY DEF NoTables, TableInv, TableTypes, CqsKnown, SqsKnown, Attached, NoQueue, QueueType,
         FeaturesType, Defaults, Nothing

(* A step that leaves the tables alone keeps the invariant. *)
LEMMA SameTables == TableInv /\ UNCHANGED tables => TableInv'
  BY DEF TableInv, TableTypes, CqsKnown, SqsKnown, Attached, tables

LEMMA CreateCqKeepsTables ==
  ASSUME TableInv, NEW q, NEW raw \in RawSizes, AdminCmdCreateIoCq(q, raw)
  PROVE  TableInv'
<1> DEFINE rec == [created |-> TRUE, capacity |-> QueueSize(raw), cqId |-> 0]
<1>1. CASE q \in Qids /\ ~ ioCq[q].created
  <2>1. /\ ioCq' = [ioCq EXCEPT ![q] = rec]
        /\ view' = [view EXCEPT !.cqs = @ \cup {q}]
        /\ UNCHANGED <<ioSq, features>>
    BY <1>1 DEF AdminCmdCreateIoCq, Told
  <2>2. rec \in QueueType
    BY QueueSizeType DEF QueueType
  <2> QED BY <1>1, <2>1, <2>2 DEF TableInv, TableTypes, CqsKnown, SqsKnown, Attached
<1>2. CASE ~ (q \in Qids /\ ~ ioCq[q].created)
  <2>1. UNCHANGED tables
    BY <1>2 DEF AdminCmdCreateIoCq, Told, tables
  <2> QED BY <2>1, SameTables
<1> QED BY <1>1, <1>2

(* Here the order of the host's commands is needed: on a completion queue  *)
(* that does not exist the handler would report a queue it did not create. *)
LEMMA CreateSqKeepsTables ==
  ASSUME Orderly, TableInv, NEW q, NEW c, NEW raw \in RawSizes, AdminCmdCreateIoSq(q, raw, c)
  PROVE  TableInv'
<1> DEFINE rec == [created |-> TRUE, capacity |-> QueueSize(raw), cqId |-> c]
<1>0. c \in Qids /\ ioCq[c].created
  BY DEF AdminCmdCreateIoSq, MayCreateSq, TableInv, TableTypes, CqsKnown
<1>1. CASE q \in Qids /\ ~ ioSq[q].created
  <2>1. /\ ioSq' = [ioSq EXCEPT ![q] = rec]
        /\ view' = [view EXCEPT !.sqs = @ \cup {<<q, c>>}]
        /\ UNCHANGED <<ioCq, features>>
    BY <1>0, <1>1 DEF AdminCmdCreateIoSq, Told
  <2>2. rec \in QueueType
    BY <1>0, QueueSizeType DEF QueueType, Qids
  <2>3. TableTypes'
    BY <1>0, <1>1, <2>1, <2>2 DEF TableInv, TableTypes
  <2>4. CqsKnown' /\ (view.features = features)'
    BY <2>1 DEF TableInv, TableTypes, CqsKnown
  <2>5. SqsKnown'
    <3>1. view'.sqs = view.sqs \cup {<<q, c>>}
      BY <2>1 DEF TableInv, TableTypes
    <3>2. ASSUME NEW p \in Qids, NEW d \in Qids
          PROVE  <<p, d>> \in view'.sqs <=> ioSq'[p].created /\ ioSq'[p].cqId = d
      <4>1. <<p, d>> \in view.sqs <=> ioSq[p].created /\ ioSq[p].cqId = d
        BY DEF TableInv, SqsKnown
      <4>2. CASE p = q
        BY <1>1, <2>1, <3>1, <4>1, <4>2 DEF TableInv, TableTypes
      <4>3. CASE p # q
        BY <2>1, <3>1, <4>1, <4>3 DEF TableInv, TableTypes
      <4> QED BY <4>2, <4>3
    <3> QED BY <3>2, Zenon DEF SqsKnown
  <2>6. Attached'
    BY <1>0, <1>1, <2>1 DEF TableInv, TableTypes, Attached
  <2> QED BY <2>3, <2>4, <2>5, <2>6 DEF TableInv
<1>2. CASE ~ (q \in Qids /\ ~ ioSq[q].created)
  <2>1. UNCHANGED tables
    BY <1>0, <1>2 DEF AdminCmdCreateIoSq, Told, tables
  <2> QED BY <2>1, SameTables
<1> QED BY <1>1, <1>2

(* The handler does not look for attached queues, so the host must. *)
LEMMA DeleteCqKeepsTables ==
  ASSUME Orderly, TableInv, NEW q, AdminCmdDeleteIoCq(q)
  PROVE  TableInv'
<1>1. CASE q \in Qids /\ ioCq[q].created
  <2>1. /\ ioCq' = [ioCq EXCEPT ![q] = NoQueue]
        /\ view' = [view EXCEPT !.cqs = @ \ {q}]
        /\ UNCHANGED <<ioSq, features>>
    BY <1>1 DEF AdminCmdDeleteIoCq, Told
  <2>2. \A s \in Qids : ioSq[s].created => ioSq[s].cqId # q
    <3> SUFFICES ASSUME NEW s \in Qids, ioSq[s].created, ioSq[s].cqId = q PROVE FALSE
      OBVIOUS
    <3>1. <<s, q>> \in view.sqs
      BY <1>1 DEF TableInv, SqsKnown
    <3>2. \A t \in view.sqs : t[2] # q
      BY DEF AdminCmdDeleteIoCq, MayDeleteCq
    <3> QED BY <3>1, <3>2
  <2>3. NoQueue \in QueueType
    BY DEF NoQueue, QueueType
  <2>4. TableTypes'
    BY <1>1, <2>1, <2>3 DEF TableInv, TableTypes
  <2>5. CqsKnown' /\ SqsKnown' /\ (view.features = features)'
    BY <1>1, <2>1 DEF TableInv, TableTypes, CqsKnown, SqsKnown, NoQueue
  <2>6. Attached'
    BY <1>1, <2>1, <2>2 DEF TableInv, TableTypes, Attached
  <2> QED BY <2>4, <2>5, <2>6 DEF TableInv
<1>2. CASE ~ (q \in Qids /\ ioCq[q].created)
  <2>1. UNCHANGED tables
    BY <1>2 DEF AdminCmdDeleteIoCq, Told, tables
  <2> QED BY <2>1, SameTables
<1> QED BY <1>1, <1>2

LEMMA DeleteSqKeepsTables ==
  ASSUME TableInv, NEW q, AdminCmdDeleteIoSq(q)
  PROVE  TableInv'
<1>1. CASE q \in Qids /\ ioSq[q].created
  <2>1. /\ ioSq' = [ioSq EXCEPT ![q] = NoQueue]
        /\ view' = [view EXCEPT !.sqs = {s \in @ : s[1] # q}]
        /\ UNCHANGED <<ioCq, features>>
    BY <1>1 DEF AdminCmdDeleteIoSq, Told
  <2>2. TableTypes'
    BY <1>1, <2>1 DEF TableInv, TableTypes, NoQueue, QueueType
  <2>3. CqsKnown' /\ Attached' /\ (view.features = features)'
    BY <1>1, <2>1 DEF TableInv, TableTypes, CqsKnown, Attached, NoQueue
  <2>4. SqsKnown'
    <3>1. view'.sqs = {s \in view.sqs : s[1] # q}
      BY <2>1 DEF TableInv, TableTypes
    <3>2. ASSUME NEW p \in Qids, NEW d \in Qids
          PROVE  <<p, d>> \in view'.sqs <=> ioSq'[p].created /\ ioSq'[p].cqId = d
      <4>1. <<p, d>> \in view.sqs <=> ioSq[p].created /\ ioSq[p].cqId = d
        BY DEF TableInv, SqsKnown
      <4>2. <<p, d>> \in view'.sqs <=> <<p, d>> \in view.sqs /\ p # q
        BY <3>1
      <4>3. ioSq'[p] = IF p = q THEN NoQueue ELSE ioSq[p]
        BY <2>1 DEF TableInv, TableTypes
      <4> QED BY <4>1, <4>2, <4>3 DEF NoQueue
    <3> QED BY <3>2, Zenon DEF SqsKnown
  <2> QED BY <2>2, <2>3, <2>4 DEF TableInv
<1>2. CASE ~ (q \in Qids /\ ioSq[q].created)
  <2>1. UNCHANGED tables
    BY <1>2 DEF AdminCmdDeleteIoSq, Told, tables
  <2> QED BY <2>1, SameTables
<1> QED BY <1>1, <1>2

LEMMA FeaturesKeepTables ==
  ASSUME TableInv, NEW fid,
         (\E value \in FeatureValues : AdminCmdSetFeatures(fid, value)) \/ AdminCmdGetFeatures(fid)
  PROVE  TableInv'
<1>1. UNCHANGED <<ioCq, ioSq>>
  BY DEF AdminCmdSetFeatures, AdminCmdGetFeatures
<1>2. /\ features' \in FeaturesType
      /\ view' = [view EXCEPT !.features = features']
  <2>1. CASE \E value \in FeatureValues : AdminCmdSetFeatures(fid, value)
    <3>1. PICK value \in FeatureValues : AdminCmdSetFeatures(fid, value)
      BY <2>1
    <3>2. value \in Nat /\ value % 2 \in Nat
      BY ServerAssumption
    <3> QED BY <3>1, <3>2 DEF AdminCmdSetFeatures, TableInv, TableTypes, FeaturesType
  <2>2. CASE AdminCmdGetFeatures(fid)
    BY <2>2 DEF AdminCmdGetFeatures, TableInv, TableTypes, FeaturesType
  <2> QED BY <2>1, <2>2
<1> QED BY <1>1, <1>2 DEF TableInv, TableTypes, CqsKnown, SqsKnown, Attached

(* What a command other than those on the tables may do. *)
LEMMA TablesStep ==
  ASSUME Orderly, TableInv, [Next]_vars
  PROVE  TableInv'
<1>1. ASSUME NEW cfg \in Configs, Start(cfg) PROVE TableInv'
  <2>1. NoTables \/ UNCHANGED tables
    BY <1>1 DEF Start, CmdEngineInitSimple
  <2> QED BY <2>1, EmptyTables, SameTables
<1>2. ASSUME End PROVE TableInv'
  BY <1>2, EmptyTables DEF End, Gone
<1>4. ASSUME CmdEngineProcessAdminCommand PROVE TableInv'
  <2>1. ASSUME NEW q \in CqNumbers, NEW raw \in RawSizes, AdminCmdCreateIoCq(q, raw) PROVE TableInv'
    BY <2>1, CreateCqKeepsTables
  <2>2. ASSUME NEW q \in SqNumbers, NEW c \in CqNumbers, NEW raw \in RawSizes, AdminCmdCreateIoSq(q, raw, c)
        PROVE  TableInv'
    BY <2>2, CreateSqKeepsTables
  <2>3. ASSUME NEW q \in CqNumbers, AdminCmdDeleteIoCq(q) PROVE TableInv'
    BY <2>3, DeleteCqKeepsTables
  <2>4. ASSUME NEW q \in SqNumbers, AdminCmdDeleteIoSq(q) PROVE TableInv'
    BY <2>4, DeleteSqKeepsTables
  <2>5. ASSUME NEW fid, (\E value \in FeatureValues : AdminCmdSetFeatures(fid, value)) \/ AdminCmdGetFeatures(fid)
        PROVE  TableInv'
    BY <2>5, FeaturesKeepTables
  <2>6. ASSUME \/ \E cns, nsid : AdminCmdIdentify(cns, nsid)
               \/ \E lid, bytes : AdminCmdGetLogPage(lid, bytes)
               \/ AdminCmdAbort \/ AdminCmdKeepAlive
        PROVE  TableInv'
    BY <2>6, SameTables DEF AdminCmdIdentify, AdminCmdGetLogPage, AdminCmdAbort, AdminCmdKeepAlive, NoEffect, tables
  <2> QED BY <1>4, <2>1, <2>2, <2>3, <2>4, <2>5, <2>6 DEF CmdEngineProcessAdminCommand
<1>5. ASSUME NEW q \in Qids, IoCmdProcess(q) PROVE TableInv'
  <2>1. ASSUME NEW outcomes, NEW slba, NEW asked, Change(q, outcomes, slba, asked)
        PROVE  UNCHANGED tables \/ NoTables
    BY <2>1 DEF Change, Gone
  <2>2. UNCHANGED tables \/ NoTables
    BY <1>5, <2>1 DEF IoCmdProcess, IoCmdRead, IoCmdWrite, IoCmdWriteZeroes, IoCmdFlush,
                      IoCmdDatasetManagement, NoEffect
  <2> QED BY <2>2, EmptyTables, SameTables
<1>6. ASSUME UNCHANGED vars PROVE TableInv'
  BY <1>6, SameTables DEF vars, tables
<1> QED BY <1>1, <1>2, <1>4, <1>5, <1>6 DEF Next

LEMMA TablesInit == Init => TableInv
  BY DEF Init, TableInv, TableTypes, CqsKnown, SqsKnown, Attached, NoQueue, QueueType,
         FeaturesType, Defaults, Nothing

(* What the invariant says of the queues, as the sets the host knows. *)
LEMMA ViewFollows == TableInv => HostViewAgrees
<1> SUFFICES ASSUME TableInv PROVE HostViewAgrees
  OBVIOUS
<1>1. view.cqs = {q \in Qids : ioCq[q].created}
  BY DEF TableInv, TableTypes, CqsKnown
<1>2. view.sqs = {<<q, ioSq[q].cqId>> : q \in {q \in Qids : ioSq[q].created}}
  <2>1. ASSUME NEW s \in view.sqs
        PROVE  s \in {<<q, ioSq[q].cqId>> : q \in {q \in Qids : ioSq[q].created}}
    <3>1. PICK q \in Qids, c \in Qids : s = <<q, c>>
      BY <2>1 DEF TableInv, TableTypes
    <3>2. ioSq[q].created /\ ioSq[q].cqId = c
      BY <2>1, <3>1 DEF TableInv, SqsKnown
    <3> QED BY <3>1, <3>2
  <2>2. ASSUME NEW q \in Qids, ioSq[q].created PROVE <<q, ioSq[q].cqId>> \in view.sqs
    BY <2>2 DEF TableInv, SqsKnown, Attached
  <2> QED BY <2>1, <2>2
<1> QED BY <1>1, <1>2 DEF HostViewAgrees, TableInv

(* AdminCmdCreateIoCq .. AdminCmdSetFeatures: for any number of queues and *)
(* any restarts, a host that creates and deletes queues in the prescribed  *)
(* order knows exactly the queues and settings the service has.            *)
THEOREM HostViewAgreesCorrect ==
  ASSUME Orderly
  PROVE  Spec => []HostViewAgrees
<1>1. Init => TableInv
  BY TablesInit
<1>2. TableInv /\ [Next]_vars => TableInv'
  BY TablesStep
<1>3. TableInv => HostViewAgrees
  BY ViewFollows
<1> QED BY <1>1, <1>2, <1>3, PTL DEF Spec

-----------------------------------------------------------------------------
(* Completions *)

SlotTyped == slot \in [Qids -> Qids \cup {NoEntry}]

(* Only a command on a submission queue writes to an entry. *)
LEMMA CompletionsStep ==
  ASSUME [Next]_vars
  PROVE  \/ UNCHANGED completions
         \/ \E q \in Qids : ioSq[q].created /\ \E answer : IoCmdPostCompletion(q, answer)
<1>1. ASSUME NEW q \in Qids, ioSq[q].created, IoCmdProcess(q)
      PROVE  UNCHANGED completions \/ \E answer : IoCmdPostCompletion(q, answer)
  <2>1. ASSUME NEW outcomes, NEW slba, NEW asked, Change(q, outcomes, slba, asked)
        PROVE  UNCHANGED completions \/ \E answer : IoCmdPostCompletion(q, answer)
    BY <2>1 DEF Change, Gone
  <2> QED BY <1>1, <2>1 DEF IoCmdProcess, IoCmdRead, IoCmdWrite, IoCmdWriteZeroes, IoCmdFlush,
                            IoCmdDatasetManagement
<1>2. ASSUME CmdEngineProcessAdminCommand PROVE UNCHANGED completions
  BY <1>2 DEF CmdEngineProcessAdminCommand
<1> QED BY <1>1, <1>2 DEF Next, Start, End, Gone, vars, completions

LEMMA SlotStep ==
  ASSUME SlotTyped, [Next]_vars
  PROVE  SlotTyped'
<1>1. ASSUME NEW q \in Qids, NEW answer, IoCmdPostCompletion(q, answer) PROVE SlotTyped'
  BY <1>1 DEF IoCmdPostCompletion, SlotTyped
<1> QED BY <1>1, CompletionsStep DEF completions, SlotTyped

(* IoCmdPostCompletion: under the same order, over any batch of commands   *)
(* and any restarts, entry 0 of each completion queue is the answer to the *)
(* last command of a submission queue bound to it: none goes elsewhere and *)
(* none is dropped for want of its queue.  The answers before it are gone. *)
THEOREM NewestAnswerStandsCorrect ==
  ASSUME Orderly
  PROVE  Spec => []NewestAnswerStands
<1>1. Init => TableInv /\ SlotTyped /\ NewestAnswerStands
  BY TablesInit DEF Init, SlotTyped, NewestAnswerStands
<1>2. TableInv /\ SlotTyped /\ NewestAnswerStands /\ [Next]_vars => NewestAnswerStands'
  <2> SUFFICES ASSUME TableInv, SlotTyped, NewestAnswerStands, [Next]_vars PROVE NewestAnswerStands'
    OBVIOUS
  <2>1. ASSUME NEW q \in Qids, ioSq[q].created, NEW answer, IoCmdPostCompletion(q, answer)
        PROVE  NewestAnswerStands'
    <3>1. PICK cq \in Qids : cq = ioSq[q].cqId /\ ioCq[cq].created
      BY <2>1 DEF TableInv, Attached
    <3>2. \A c \in Qids : <<q, c>> \in view.sqs <=> c = cq
      BY <2>1, <3>1 DEF TableInv, SqsKnown
    <3>3. slot' = [slot EXCEPT ![cq] = q]
      BY <2>1, <3>1 DEF IoCmdPostCompletion
    <3>4. newest' = [c \in Qids |-> IF <<q, c>> \in view.sqs THEN q ELSE newest[c]]
      BY <2>1 DEF IoCmdPostCompletion
    <3> QED BY <3>1, <3>2, <3>3, <3>4 DEF NewestAnswerStands, SlotTyped
  <2> QED BY <2>1, CompletionsStep DEF completions, NewestAnswerStands
<1>3. TableInv /\ [Next]_vars => TableInv'
  BY TablesStep
<1>4. SlotTyped /\ [Next]_vars => SlotTyped'
  BY SlotStep
<1> QED BY <1>1, <1>2, <1>3, <1>4, PTL DEF Spec

-----------------------------------------------------------------------------
(* The read-only file *)

IsMedium(m) == m = NoFile \/ m = Medium(m.bytes)

(* An open backend has a medium, and is of the configured kind. *)
MediumInv ==
  /\ IsMedium(medium)
  /\ backend.open => backend.kind = kind /\ medium.exists

LEMMA MediumIsMedium == \A b : Medium(b).bytes = b /\ Medium(b).exists /\ IsMedium(Medium(b))
  BY DEF Medium, IsMedium

LEMMA CreateShape ==
  ASSUME NEW cfg \in Configs, NEW old, IsMedium(old), NEW r \in BackendCreate(cfg, old)
  PROVE  IsMedium(r[2]) /\ (r[1].open => r[1].kind = cfg.kind /\ r[2].exists)
<1>1. \A size : Opened(cfg, size).kind = cfg.kind
  BY DEF Opened
<1>2. ~ NoBackend.open
  BY DEF NoBackend
<1>3. CASE cfg.kind = "memory"
  <2>1. r \in BackendMemoryCreate(cfg, old)
    BY <1>3 DEF BackendCreate
  <2>2. r = <<NoBackend, old>> \/ \E size, bytes : r = <<Opened(cfg, size), Medium(bytes)>>
    BY <2>1 DEF BackendMemoryCreate
  <2> QED BY <1>1, <1>2, <2>2, MediumIsMedium
<1>4. CASE cfg.kind = "file"
  <2> DEFINE m == IF old.exists THEN old ELSE Medium(Zeroes(0))
  <2>1. r \in BackendFileCreate(cfg, old)
    BY <1>4 DEF BackendCreate
  <2>2. IsMedium(m) /\ m.exists
    BY MediumIsMedium
  <2>3. \/ r = <<NoBackend, old>> \/ r = <<NoBackend, m>>
        \/ \E size : r = <<Opened(cfg, size), m>>
        \/ \E size, bytes : r = <<Opened(cfg, size), Medium(bytes)>>
    BY <2>1 DEF BackendFileCreate
  <2> QED BY <1>1, <1>2, <2>2, <2>3, MediumIsMedium
<1> QED BY <1>3, <1>4, ServerAssumption

(* FileBackendWrite and FileBackendWriteZeroes refuse first of all. *)
LEMMA ReadOnlyRefuses ==
  ASSUME NEW be, be.readOnly, be.kind = "file", NEW bytes, NEW offset, NEW new, NEW size
  PROVE  /\ BackendWrite(be, bytes, offset, new) = {Error(bytes)}
         /\ BackendWriteZeroes(be, bytes, offset, size) = {Error(bytes)}
<1>1. FileBackendWrite(be, bytes, offset, new) = {Error(bytes)}
  BY DEF FileBackendWrite
<1>2. FileBackendWriteZeroes(be, bytes, offset, size) = {Error(bytes)}
  BY DEF FileBackendWriteZeroes
<1> QED BY <1>1, <1>2 DEF BackendWrite, BackendWriteZeroes

(* A command changes the medium through Change only. *)
LEMMA CommandChanges ==
  ASSUME NEW q, IoCmdProcess(q)
  PROVE  \/ UNCHANGED Content
         \/ \E offset, new, slba, asked : Change(q, BackendWrite(backend, Bytes, offset, new), slba, asked)
         \/ \E offset, size, slba, asked : Change(q, BackendWriteZeroes(backend, Bytes, offset, size), slba, asked)
  BY DEF IoCmdProcess, IoCmdRead, IoCmdWrite, IoCmdWriteZeroes, IoCmdFlush, IoCmdDatasetManagement, NoEffect

LEMMA AdminKeepsContent == CmdEngineProcessAdminCommand => UNCHANGED Content
  BY DEF CmdEngineProcessAdminCommand, AdminCmdCreateIoCq, AdminCmdCreateIoSq, AdminCmdDeleteIoCq,
         AdminCmdDeleteIoSq, AdminCmdSetFeatures, AdminCmdGetFeatures, AdminCmdIdentify,
         AdminCmdGetLogPage, AdminCmdAbort, AdminCmdKeepAlive, NoEffect, Content

LEMMA MediumStep ==
  ASSUME MediumInv, [Next]_vars
  PROVE  MediumInv'
<1>1. ASSUME UNCHANGED <<kind, backend, medium>> PROVE MediumInv'
  BY <1>1 DEF MediumInv, IsMedium
<1>2. ASSUME NEW m, IsMedium(m), Gone(m) PROVE MediumInv'
  BY <1>2 DEF MediumInv, Gone, NoBackend, IsMedium
<1>3. ASSUME NEW cfg \in Configs, Start(cfg) PROVE MediumInv'
  <2>1. PICK r \in BackendCreate(cfg, medium) : backend' = r[1] /\ medium' = r[2]
    BY <1>3 DEF Start
  <2>2. kind' = kind /\ cfg.kind = kind
    BY <1>3 DEF Start
  <2>3. IsMedium(r[2]) /\ (r[1].open => r[1].kind = cfg.kind /\ r[2].exists)
    BY CreateShape DEF MediumInv
  <2> QED BY <2>1, <2>2, <2>3 DEF MediumInv, IsMedium
<1>4. ASSUME NEW q, NEW outcomes, NEW slba, NEW asked, Change(q, outcomes, slba, asked) PROVE MediumInv'
  <2>1. PICK r \in outcomes : \/ medium' = Medium(r.bytes) /\ UNCHANGED <<kind, backend>>
                              \/ Gone(Medium(r.bytes))
    BY <1>4 DEF Change
  <2>2. CASE medium' = Medium(r.bytes) /\ UNCHANGED <<kind, backend>>
    BY <2>2, MediumIsMedium DEF MediumInv, IsMedium
  <2>3. CASE Gone(Medium(r.bytes))
    BY <1>2, <2>3, MediumIsMedium
  <2> QED BY <2>1, <2>2, <2>3
<1>5. ASSUME End PROVE MediumInv'
  BY <1>2, <1>5 DEF End, MediumInv
<1>6. ASSUME CmdEngineProcessAdminCommand \/ UNCHANGED vars PROVE MediumInv'
  BY <1>1, <1>6, AdminKeepsContent DEF vars, Content
<1>7. ASSUME NEW q \in Qids, IoCmdProcess(q) PROVE MediumInv'
  BY <1>1, <1>4, <1>7, CommandChanges DEF Content
<1> QED BY <1>3, <1>5, <1>6, <1>7 DEF Next

(* FileBackendWrite, FileBackendWriteZeroes: whatever commands, failures   *)
(* and deaths of the process come, a file opened read-only keeps every     *)
(* byte and its length.                                                    *)
THEOREM ReadOnlyIsKeptCorrect == Spec => ReadOnlyIsKept
<1>1. Init => MediumInv
  BY DEF Init, MediumInv, IsMedium, NoBackend
<1>2. MediumInv /\ [Next]_vars => MediumInv'
  BY MediumStep
<1>3. MediumInv /\ [Next]_vars =>
        [backend.open /\ backend.readOnly /\ kind = "file" => medium' = medium]_vars
  <2> SUFFICES ASSUME MediumInv, Next, backend.open, backend.readOnly, kind = "file"
               PROVE  medium' = medium
    OBVIOUS
  <2>1. backend.kind = "file" /\ medium = Medium(medium.bytes)
    BY DEF MediumInv, IsMedium, NoFile
  <2>2. ASSUME End PROVE medium' = medium
    BY <2>2 DEF End, Gone
  <2>3. ASSUME CmdEngineProcessAdminCommand PROVE medium' = medium
    BY <2>3, AdminKeepsContent DEF Content
  <2>4. ASSUME NEW q \in Qids, IoCmdProcess(q) PROVE medium' = medium
    <3>1. ASSUME NEW slba, NEW asked, Change(q, {Error(Bytes)}, slba, asked) PROVE medium' = medium
      <4>1. medium' = Medium(Error(Bytes).bytes)
        BY <3>1 DEF Change, Gone
      <4> QED BY <2>1, <4>1 DEF Error, Bytes
    <3> QED BY <2>1, <2>4, <3>1, CommandChanges, ReadOnlyRefuses DEF Content
  <2> QED BY <2>2, <2>3, <2>4 DEF Next, Start
<1> QED BY <1>1, <1>2, <1>3, PTL DEF Spec, ReadOnlyIsKept

-----------------------------------------------------------------------------
(* What a write may leave *)

(* result is bytes with a part of new at offset, and with all of it. *)
PartOf(result, bytes, offset, new) ==
  \A b \in DOMAIN bytes : \/ result[b] = bytes[b]
                          \/ b >= offset /\ b - offset \in DOMAIN new /\ result[b] = new[b - offset]
AllOf(result, bytes, offset, new) ==
  \A b \in DOMAIN bytes : b >= offset /\ b - offset \in DOMAIN new => result[b] = new[b - offset]

Outcome(r, bytes, offset, new) ==
  /\ r.ok \in BOOLEAN
  /\ r.bytes \in [DOMAIN bytes -> Values]
  /\ PartOf(r.bytes, bytes, offset, new)
  /\ r.ok => AllOf(r.bytes, bytes, offset, new)

LEMMA ZeroIsValue == 0 \in Values /\ Junk \in Values /\ Tag \in Values
  BY DEF Values

LEMMA ZeroesType ==
  ASSUME NEW size
  PROVE  Zeroes(size) \in [0 .. size - 1 -> Values] /\ \A k \in 0 .. size - 1 : Zeroes(size)[k] = 0
  BY ZeroIsValue DEF Zeroes

LEMMA ResultFields ==
  ASSUME NEW bytes
  PROVE  /\ Done(bytes).ok /\ Done(bytes).bytes = bytes /\ Done(bytes).ok \in BOOLEAN
         /\ ~ Error(bytes).ok /\ Error(bytes).bytes = bytes /\ Error(bytes).ok \in BOOLEAN
  BY DEF Done, Error

LEMMA OverlayIs ==
  ASSUME NEW D \in SUBSET Nat, NEW bytes \in [D -> Values], NEW offset \in Nat,
         NEW E \in SUBSET Nat, NEW new \in [E -> Values]
  PROVE  /\ Overlay(bytes, offset, new) \in [D -> Values]
         /\ PartOf(Overlay(bytes, offset, new), bytes, offset, new)
         /\ AllOf(Overlay(bytes, offset, new), bytes, offset, new)
<1>1. PICK f : f = Overlay(bytes, offset, new)
  OBVIOUS
<1>2. f = [b \in D |-> IF b >= offset /\ b - offset \in E THEN new[b - offset] ELSE bytes[b]]
  BY <1>1 DEF Overlay
<1>3. f \in [D -> Values]
  BY <1>2
<1>4. PartOf(f, bytes, offset, new)
  BY <1>2 DEF PartOf
<1>5. AllOf(f, bytes, offset, new)
  BY <1>2 DEF AllOf
<1> QED BY <1>1, <1>3, <1>4, <1>5

LEMMA PrefixIs ==
  ASSUME NEW E \in SUBSET Nat, NEW new \in [E -> Values], NEW n
  PROVE  /\ Prefix(new, n) \in [{k \in E : k < n} -> Values]
         /\ \A k \in E : k < n => Prefix(new, n)[k] = new[k]
  BY DEF Prefix

LEMMA PrefixValues ==
  ASSUME NEW E, NEW new \in [E -> Values], NEW n
  PROVE  \A k \in DOMAIN Prefix(new, n) : Prefix(new, n)[k] \in Values
  BY DEF Prefix

LEMMA WriteFileOutcome ==
  ASSUME NEW D \in SUBSET Nat, NEW bytes \in [D -> Values], NEW offset \in Nat,
         NEW E \in SUBSET Nat, NEW new \in [E -> Values], NEW r \in WriteFile(bytes, offset, new)
  PROVE  Outcome(r, bytes, offset, new)
<1>1. CASE r = Done(Overlay(bytes, offset, new))
  <2>1. PICK f : f = Overlay(bytes, offset, new)
    OBVIOUS
  <2>2. f \in [D -> Values] /\ PartOf(f, bytes, offset, new) /\ AllOf(f, bytes, offset, new)
    BY <2>1, OverlayIs
  <2>3. r.ok \in BOOLEAN /\ r.ok /\ r.bytes = f
    BY <1>1, <2>1, ResultFields
  <2> QED BY <2>2, <2>3 DEF Outcome
<1>2. ASSUME NEW n, r = Error(Overlay(bytes, offset, Prefix(new, n)))
      PROVE  Outcome(r, bytes, offset, new)
  <2>1. PICK part : part = Prefix(new, n)
    OBVIOUS
  <2>2. PICK F : F = {k \in E : k < n}
    OBVIOUS
  <2>3. F \in SUBSET Nat /\ part \in [F -> Values] /\ \A k \in F : k \in E /\ part[k] = new[k]
    <3>1. part \in [F -> Values] /\ \A k \in E : k < n => part[k] = new[k]
      BY <2>1, <2>2, PrefixIs, Zenon
    <3> QED BY <2>2, <3>1
  <2>4. PICK f : f = Overlay(bytes, offset, part)
    OBVIOUS
  <2>5. f \in [D -> Values] /\ PartOf(f, bytes, offset, part)
    BY <2>3, <2>4, OverlayIs
  <2>6. PartOf(f, bytes, offset, new)
    BY <2>3, <2>5 DEF PartOf
  <2>7. r.ok \in BOOLEAN /\ ~ r.ok /\ r.bytes = f
    BY <1>2, <2>1, <2>4, ResultFields
  <2> QED BY <2>5, <2>6, <2>7 DEF Outcome
<1> QED BY <1>1, <1>2 DEF WriteFile

LEMMA UnchangedOutcome ==
  ASSUME NEW D \in SUBSET Nat, NEW bytes \in [D -> Values], NEW offset, NEW new
  PROVE  Outcome(Error(bytes), bytes, offset, new) /\ ~ Error(bytes).ok
  BY ResultFields DEF Outcome, PartOf

(* MemoryBackendWrite, FileBackendWrite *)
LEMMA WriteOutcome ==
  ASSUME NEW be, be.kind \in Kinds, NEW D \in SUBSET Nat, NEW bytes \in [D -> Values], NEW offset \in Nat,
         NEW E \in SUBSET Nat, NEW new \in [E -> Values], NEW r \in BackendWrite(be, bytes, offset, new)
  PROVE  Outcome(r, bytes, offset, new) /\ (r.ok => ~ be.readOnly)
<1>1. CASE r = Error(bytes)
  BY <1>1, UnchangedOutcome
<1>2. CASE r \in WriteFile(bytes, offset, new) /\ ~ be.readOnly
  BY <1>2, WriteFileOutcome
<1>3. Done(Overlay(bytes, offset, new)) \in WriteFile(bytes, offset, new)
  BY DEF WriteFile
<1> QED BY <1>1, <1>2, <1>3 DEF BackendWrite, MemoryBackendWrite, FileBackendWrite, Kinds

-----------------------------------------------------------------------------
(* The chunks of FileBackendWriteZeroes *)

ZeroCount(size) == (size + ZeroChunk - 1) \div ZeroChunk
ZeroStep(x, offset, size, i) ==
  UNION {IF r.ok THEN WriteFile(r.bytes, offset + (i - 1) * ZeroChunk,
                                Zeroes(Smaller(ZeroChunk, size - (i - 1) * ZeroChunk)))
         ELSE {r} : r \in x}
Zeroing(g, bytes, offset, size) ==
  g = [i \in 0 .. ZeroCount(size) |-> IF i = 0 THEN {Done(bytes)} ELSE ZeroStep(g[i - 1], offset, size, i)]

Results(D) == [ok : BOOLEAN, bytes : [D -> Values]]

(* The number of chunks, and where the last one ends. *)
LEMMA ZeroCountIs ==
  ASSUME NEW size \in Nat
  PROVE  /\ ZeroCount(size) \in Nat
         /\ size <= Laps(ZeroCount(size), ZeroChunk)
         /\ \A i \in 1 .. ZeroCount(size) :
              /\ (i - 1) * ZeroChunk = Laps(i - 1, ZeroChunk)
              /\ Laps(i - 1, ZeroChunk) \in Nat /\ Laps(i - 1, ZeroChunk) < size
              /\ Laps(i, ZeroChunk) = Laps(i - 1, ZeroChunk) + ZeroChunk
<1>1. PICK z : z = size + ZeroChunk - 1
  OBVIOUS
<1>2. ZeroChunk \in Nat \ {0} /\ z \in Nat
  BY <1>1, BackendAssumption
<1>3. PICK n : n = z \div ZeroChunk
  OBVIOUS
<1>4. PICK p : p = Place(z, ZeroChunk)
  OBVIOUS
<1>5. n \in Nat /\ p \in 0 .. ZeroChunk - 1 /\ z = Laps(n, ZeroChunk) + p /\ Laps(n, ZeroChunk) \in Nat
  BY <1>2, <1>3, <1>4, Quotient, LapsAdd
<1>6. ZeroCount(size) = n
  BY <1>1, <1>3 DEF ZeroCount
<1>7. size <= Laps(n, ZeroChunk)
  BY <1>1, <1>2, <1>5
<1>8. ASSUME NEW i \in 1 .. n
      PROVE  /\ (i - 1) * ZeroChunk = Laps(i - 1, ZeroChunk)
             /\ Laps(i - 1, ZeroChunk) \in Nat /\ Laps(i - 1, ZeroChunk) < size
             /\ Laps(i, ZeroChunk) = Laps(i - 1, ZeroChunk) + ZeroChunk
  <2>1. PICK m : m = i - 1
    OBVIOUS
  <2>2. m \in Nat /\ m < n /\ i = m + 1
    BY <1>5, <2>1
  <2>3. m * ZeroChunk = Laps(m, ZeroChunk)
    BY <1>2, <2>2 DEF Laps
  <2>4. Laps(m, ZeroChunk) \in Nat /\ Laps(m, ZeroChunk) + ZeroChunk <= Laps(n, ZeroChunk)
    BY <1>2, <1>5, <2>2, LapsGrow
  <2>5. Laps(i, ZeroChunk) = Laps(m, ZeroChunk) + ZeroChunk
    BY <1>2, <2>2, LapsAdd, LapsFew
  <2>6. Laps(m, ZeroChunk) < size
    BY <1>1, <1>2, <1>5, <2>4
  <2> QED BY <2>1, <2>3, <2>4, <2>5, <2>6
<1> QED BY <1>5, <1>6, <1>7, <1>8

LEMMA WriteFileType ==
  ASSUME NEW D \in SUBSET Nat, NEW bytes \in [D -> Values], NEW offset \in Nat,
         NEW E \in SUBSET Nat, NEW new \in [E -> Values]
  PROVE  WriteFile(bytes, offset, new) \subseteq Results(D)
<1>1. ASSUME NEW r \in WriteFile(bytes, offset, new) PROVE r \in Results(D)
  <2>1. Outcome(r, bytes, offset, new)
    BY WriteFileOutcome
  <2>2. r = [ok |-> r.ok, bytes |-> r.bytes]
    BY DEF WriteFile, Done, Error
  <2> QED BY <2>1, <2>2 DEF Outcome, Results
<1> QED BY <1>1

(* r comes from s by writing m zeroes at a place, unless s has failed. *)
ChunkWritten(r, s, place, m) == IF s.ok THEN r \in WriteFile(s.bytes, place, Zeroes(m)) ELSE r = s

(* What the i-th chunk is given. *)
LEMMA ChunkIs ==
  ASSUME NEW offset \in Nat, NEW size \in Nat, NEW i \in 1 .. ZeroCount(size),
         NEW x, NEW r \in ZeroStep(x, offset, size, i)
  PROVE  \E at \in Nat, m \in Nat :
           /\ at = Laps(i - 1, ZeroChunk) /\ Laps(i, ZeroChunk) = at + ZeroChunk /\ at + m <= size
           /\ m = ZeroChunk \/ at + m = size
           /\ \E s \in x : ChunkWritten(r, s, offset + at, m)
<1>1. PICK at : at = Laps(i - 1, ZeroChunk)
  OBVIOUS
<1>2. at \in Nat /\ (i - 1) * ZeroChunk = at /\ at < size /\ Laps(i, ZeroChunk) = at + ZeroChunk
  BY <1>1, ZeroCountIs
<1>3. PICK m : m = Smaller(ZeroChunk, size - at)
  OBVIOUS
<1>4. m \in Nat /\ at + m <= size /\ (m = ZeroChunk \/ at + m = size)
  BY <1>2, <1>3, BackendAssumption DEF Smaller
<1>5. \E s \in x : ChunkWritten(r, s, offset + at, m)
  BY <1>2, <1>3 DEF ZeroStep, ChunkWritten
<1> QED BY <1>1, <1>2, <1>4, <1>5

LEMMA ZeroStepType ==
  ASSUME NEW D \in SUBSET Nat, NEW offset \in Nat, NEW size \in Nat, NEW i \in 1 .. ZeroCount(size),
         NEW x \in SUBSET Results(D), NEW r \in ZeroStep(x, offset, size, i)
  PROVE  r \in Results(D)
<1>1. PICK at \in Nat, m \in Nat :
        \E s \in x : ChunkWritten(r, s, offset + at, m)
  BY ChunkIs
<1>2. PICK s \in x : ChunkWritten(r, s, offset + at, m)
  BY <1>1
<1>3. s \in Results(D) /\ s.bytes \in [D -> Values]
  BY DEF Results
<1>4. 0 .. m - 1 \in SUBSET Nat /\ Zeroes(m) \in [0 .. m - 1 -> Values] /\ offset + at \in Nat
  BY ZeroesType
<1>5. WriteFile(s.bytes, offset + at, Zeroes(m)) \subseteq Results(D)
  BY <1>3, <1>4, WriteFileType
<1> QED BY <1>2, <1>3, <1>5 DEF ChunkWritten

LEMMA ZeroingIs ==
  ASSUME NEW D \in SUBSET Nat, NEW bytes \in [D -> Values], NEW offset \in Nat, NEW size \in Nat
  PROVE  \E g : /\ Zeroing(g, bytes, offset, size)
                /\ \A be : FileBackendWriteZeroes(be, bytes, offset, size) =
                             IF be.readOnly \/ BeyondEnd(be, offset, size) THEN {Error(bytes)}
                             ELSE {Error(bytes)} \cup g[ZeroCount(size)]
<1> DEFINE n == ZeroCount(size)
<1> DEFINE S == SUBSET Results(D)
<1> DEFINE c == {Done(bytes)}
<1>1. n \in Nat /\ c \in S
  BY ZeroCountIs DEF Results, Done
<1> DEFINE step == [x \in S \X (1 .. n) |-> ZeroStep(x[1], offset, size, x[2])]
<1>2. \A x \in S, i \in 1 .. n : step[<<x, i>>] = ZeroStep(x, offset, size, i)
  OBVIOUS
<1>3. ASSUME NEW x \in S, NEW i \in 1 .. n PROVE step[<<x, i>>] \in S
  <2>1. ZeroStep(x, offset, size, i) \subseteq Results(D)
    BY ZeroStepType
  <2> QED BY <1>2, <2>1
<1> HIDE DEF step, S, c
<1>4. PICK g : Iterates(g, c, step, n, S)
  BY <1>1, <1>3, IterationExists
<1>5. g = [i \in 0 .. n |-> IF i = 0 THEN c ELSE ZeroStep(g[i - 1], offset, size, i)]
  <2>1. g \in [0 .. n -> S] /\ g[0] = c
    BY <1>4 DEF Iterates
  <2>2. ASSUME NEW i \in 1 .. n PROVE g[i] = ZeroStep(g[i - 1], offset, size, i)
    <3>1. i - 1 \in 0 .. n
      BY <1>1
    <3>2. g[i - 1] \in S
      BY <2>1, <3>1
    <3> QED BY <1>2, <1>4, <3>2 DEF Iterates
  <2>3. \A i \in 0 .. n : i # 0 => i \in 1 .. n
    BY <1>1
  <2> QED BY <2>1, <2>2, <2>3
<1>6. Zeroing(g, bytes, offset, size)
  BY <1>5 DEF Zeroing, c
<1> DEFINE done == CHOOSE h : h = [i \in 0 .. (size + ZeroChunk - 1) \div ZeroChunk |->
                     IF i = 0 THEN {Done(bytes)}
                     ELSE UNION {IF r.ok THEN WriteFile(r.bytes, offset + (i - 1) * ZeroChunk,
                                                Zeroes(Smaller(ZeroChunk, size - (i - 1) * ZeroChunk)))
                                 ELSE {r} : r \in h[i - 1]}]
<1>7. Zeroing(done, bytes, offset, size)
  BY <1>6, Zenon DEF Zeroing, ZeroStep, ZeroCount
<1>8. \A be : FileBackendWriteZeroes(be, bytes, offset, size) =
                IF be.readOnly \/ BeyondEnd(be, offset, size) THEN {Error(bytes)}
                ELSE {Error(bytes)} \cup done[ZeroCount(size)]
  BY Zenon DEF FileBackendWriteZeroes, ZeroCount
<1> HIDE DEF done
<1> QED BY <1>7, <1>8

(* The bytes before `to' are zero. *)
ZeroedTo(result, D, offset, size, to) ==
  \A b \in D : b >= offset /\ b - offset \in 0 .. size - 1 /\ b - offset < to => result[b] = 0

(* After i chunks: a part of the zeroes is written, and as long as no      *)
(* chunk has failed all of the first i chunks.                             *)
AfterChunks(r, i, D, bytes, offset, size) ==
  /\ r.ok \in BOOLEAN
  /\ r.bytes \in [D -> Values]
  /\ PartOf(r.bytes, bytes, offset, Zeroes(size))
  /\ r.ok => ZeroedTo(r.bytes, D, offset, size, Laps(i, ZeroChunk))

LEMMA OneChunk ==
  ASSUME NEW D \in SUBSET Nat, NEW bytes \in [D -> Values], NEW offset \in Nat, NEW size \in Nat,
         NEW i \in 1 .. ZeroCount(size), NEW x,
         \A s \in x : AfterChunks(s, i - 1, D, bytes, offset, size),
         NEW r \in ZeroStep(x, offset, size, i)
  PROVE  AfterChunks(r, i, D, bytes, offset, size)
<1>1. PICK at \in Nat, m \in Nat :
        /\ at = Laps(i - 1, ZeroChunk) /\ Laps(i, ZeroChunk) = at + ZeroChunk /\ at + m <= size
        /\ m = ZeroChunk \/ at + m = size
        /\ \E s \in x : ChunkWritten(r, s, offset + at, m)
  BY ChunkIs
<1>2. PICK s \in x : ChunkWritten(r, s, offset + at, m)
  BY <1>1
<1>3. AfterChunks(s, i - 1, D, bytes, offset, size)
  OBVIOUS
<1>4. CASE ~ s.ok
  BY <1>2, <1>3, <1>4 DEF AfterChunks, ChunkWritten
<1>5. CASE s.ok
  <2>0. s.bytes \in [D -> Values] /\ DOMAIN s.bytes = D
    BY <1>3 DEF AfterChunks
  <2>1. 0 .. m - 1 \in SUBSET Nat /\ Zeroes(m) \in [0 .. m - 1 -> Values] /\ offset + at \in Nat
    BY ZeroesType
  <2>2. Outcome(r, s.bytes, offset + at, Zeroes(m))
    BY <1>2, <1>5, <2>0, <2>1, WriteFileOutcome DEF ChunkWritten
  <2>3. r.ok \in BOOLEAN /\ r.bytes \in [D -> Values]
    BY <2>0, <2>2 DEF Outcome
  <2>4. DOMAIN Zeroes(m) = 0 .. m - 1 /\ \A k \in 0 .. m - 1 : Zeroes(m)[k] = 0
    BY ZeroesType
  <2>5. DOMAIN Zeroes(size) = 0 .. size - 1 /\ \A k \in 0 .. size - 1 : Zeroes(size)[k] = 0
    BY ZeroesType
  <2>6. ASSUME NEW b \in D
        PROVE  \/ r.bytes[b] = s.bytes[b]
               \/ b >= offset + at /\ b - (offset + at) \in 0 .. m - 1 /\ r.bytes[b] = 0
    BY <2>0, <2>2, <2>4 DEF Outcome, PartOf
  <2>7. PartOf(r.bytes, bytes, offset, Zeroes(size))
    <3>1. ASSUME NEW b \in D
          PROVE  \/ r.bytes[b] = bytes[b]
                 \/ b >= offset /\ b - offset \in 0 .. size - 1 /\ r.bytes[b] = 0
      <4>1. \/ s.bytes[b] = bytes[b]
            \/ b >= offset /\ b - offset \in 0 .. size - 1 /\ s.bytes[b] = 0
        BY <1>3, <2>5 DEF AfterChunks, PartOf
      <4>2. CASE b >= offset + at /\ b - (offset + at) \in 0 .. m - 1 /\ r.bytes[b] = 0
        <5>0. b \in Nat /\ at + m <= size
          BY <1>1
        <5>1. b >= offset /\ b - offset \in 0 .. size - 1
          BY <4>2, <5>0
        <5> QED BY <4>2, <5>1
      <4> QED BY <2>6, <4>1, <4>2
    <3> QED BY <2>5, <3>1 DEF PartOf
  <2>8. ASSUME r.ok PROVE ZeroedTo(r.bytes, D, offset, size, Laps(i, ZeroChunk))
    <3>1. ASSUME NEW b \in D, b >= offset, b - offset \in 0 .. size - 1, b - offset < at + ZeroChunk
          PROVE  r.bytes[b] = 0
      <4>1. CASE b - offset < at
        <5>1. s.bytes[b] = 0
          BY <1>1, <1>3, <1>5, <3>1, <4>1 DEF AfterChunks, ZeroedTo
        <5> QED BY <2>6, <5>1
      <4>2. CASE ~ (b - offset < at)
        <5>1. b \in Nat /\ b >= offset + at /\ b - (offset + at) \in 0 .. m - 1
          BY <1>1, <3>1, <4>2, BackendAssumption
        <5>2. AllOf(r.bytes, s.bytes, offset + at, Zeroes(m))
          BY <2>2, <2>8 DEF Outcome
        <5> QED BY <2>0, <2>4, <5>1, <5>2 DEF AllOf
      <4> QED BY <4>1, <4>2
    <3> QED BY <1>1, <3>1 DEF ZeroedTo
  <2> QED BY <2>3, <2>7, <2>8 DEF AfterChunks
<1> QED BY <1>4, <1>5

LEMMA AllChunks ==
  ASSUME NEW D \in SUBSET Nat, NEW bytes \in [D -> Values], NEW offset \in Nat, NEW size \in Nat,
         NEW g, Zeroing(g, bytes, offset, size), NEW r \in g[ZeroCount(size)]
  PROVE  Outcome(r, bytes, offset, Zeroes(size))
<1> DEFINE n == ZeroCount(size)
<1> DEFINE T == {i \in Nat : i <= n => \A s \in g[i] : AfterChunks(s, i, D, bytes, offset, size)}
<1>0. n \in Nat /\ size <= Laps(n, ZeroChunk) /\ Laps(n, ZeroChunk) \in Nat
  BY ZeroCountIs, LapsAdd, BackendAssumption
<1>1. 0 \in T
  <2>1. g[0] = {Done(bytes)}
    BY <1>0 DEF Zeroing
  <2>2. Laps(0, ZeroChunk) = 0
    BY LapsFew, BackendAssumption
  <2>3. ZeroedTo(bytes, D, offset, size, 0)
    BY DEF ZeroedTo
  <2>4. AfterChunks(Done(bytes), 0, D, bytes, offset, size)
    BY <2>2, <2>3, ResultFields DEF AfterChunks, PartOf
  <2> QED BY <2>1, <2>4
<1>2. ASSUME NEW i \in Nat, i \in T PROVE i + 1 \in T
  <2>1. CASE i + 1 <= n
    <3>1. PICK j : j = i + 1
      OBVIOUS
    <3>2. j \in 1 .. n /\ j \in 0 .. n /\ j # 0 /\ j - 1 = i
      BY <1>0, <2>1, <3>1
    <3>3. g[j] = ZeroStep(g[i], offset, size, j)
      BY <3>2 DEF Zeroing
    <3>4. \A s \in g[i] : AfterChunks(s, j - 1, D, bytes, offset, size)
      BY <1>0, <1>2, <2>1, <3>2
    <3>5. \A s \in g[j] : AfterChunks(s, j, D, bytes, offset, size)
      BY <3>2, <3>3, <3>4, OneChunk
    <3> QED BY <3>1, <3>5
  <2> QED BY <2>1
<1>3. Nat \subseteq T
  <2> HIDE DEF T
  <2> QED BY <1>1, <1>2, NatSetInduction
<1>4. AfterChunks(r, n, D, bytes, offset, size)
  BY <1>0, <1>3
<1>5. ASSUME r.ok PROVE AllOf(r.bytes, bytes, offset, Zeroes(size))
  <2>1. ZeroedTo(r.bytes, D, offset, size, Laps(n, ZeroChunk))
    BY <1>4, <1>5 DEF AfterChunks
  <2>2. DOMAIN Zeroes(size) = 0 .. size - 1 /\ \A k \in 0 .. size - 1 : Zeroes(size)[k] = 0
    BY ZeroesType
  <2>3. ASSUME NEW b \in D, b >= offset, b - offset \in 0 .. size - 1 PROVE r.bytes[b] = 0
    <3>1. b - offset < Laps(n, ZeroChunk)
      BY <1>0, <2>3
    <3> QED BY <2>1, <2>3, <3>1 DEF ZeroedTo
  <2> QED BY <2>2, <2>3 DEF AllOf
<1> QED BY <1>4, <1>5 DEF AfterChunks, Outcome

(* MemoryBackendWriteZeroes, FileBackendWriteZeroes *)
LEMMA ZeroesOutcome ==
  ASSUME NEW be, be.kind \in Kinds, NEW D \in SUBSET Nat, NEW bytes \in [D -> Values], NEW offset \in Nat,
         NEW size \in Nat, NEW r \in BackendWriteZeroes(be, bytes, offset, size)
  PROVE  Outcome(r, bytes, offset, Zeroes(size)) /\ (r.ok => ~ be.readOnly)
<1>1. PICK new : new = Zeroes(size)
  OBVIOUS
<1>2. 0 .. size - 1 \in SUBSET Nat /\ new \in [0 .. size - 1 -> Values]
  BY <1>1, ZeroesType
<1>3. CASE r = Error(bytes)
  BY <1>3, UnchangedOutcome
<1>4. CASE be.kind = "memory" /\ r = Done(Overlay(bytes, offset, new)) /\ ~ be.readOnly
  <2>1. r \in WriteFile(bytes, offset, new)
    BY <1>4 DEF WriteFile
  <2> QED BY <1>1, <1>2, <1>4, <2>1, WriteFileOutcome
<1>5. CASE be.kind = "file" /\ r # Error(bytes)
  <2>1. PICK g : /\ Zeroing(g, bytes, offset, size)
                 /\ FileBackendWriteZeroes(be, bytes, offset, size) =
                      IF be.readOnly \/ BeyondEnd(be, offset, size) THEN {Error(bytes)}
                      ELSE {Error(bytes)} \cup g[ZeroCount(size)]
    BY ZeroingIs
  <2>2. r \in FileBackendWriteZeroes(be, bytes, offset, size)
    BY <1>5 DEF BackendWriteZeroes
  <2>3. r \in g[ZeroCount(size)] /\ ~ be.readOnly
    BY <1>5, <2>1, <2>2
  <2> QED BY <2>1, <2>3, AllChunks
<1> QED BY <1>1, <1>3, <1>4, <1>5 DEF BackendWriteZeroes, MemoryBackendWriteZeroes, Kinds

-----------------------------------------------------------------------------
(* The store: its types, and the backend against its medium *)

Contents(bytes) == \E n \in 0 .. MaxBytes : bytes \in [0 .. n - 1 -> Values]
BackendType == [open : BOOLEAN, kind : Kinds, size : 0 .. MaxBytes, readOnly : BOOLEAN]

GoodMedium(m) == IsMedium(m) /\ (m.exists => Contents(m.bytes))

(* Blocks that a command may name exist, but in a read-only file that is   *)
(* empty.                                                                  *)
Backed(be, m) == (be.kind = "file" /\ be.readOnly) \/ 0 .. be.size - 1 \subseteq DOMAIN m.bytes

BackendFits ==
  backend.open =>
    /\ backend.kind = kind /\ medium.exists
    /\ Laps(nsSize, BlockSize) <= backend.size
    /\ Backed(backend, medium)

StoreTypes ==
  /\ backend \in BackendType /\ kind \in Kinds
  /\ GoodMedium(medium)
  /\ nsSize \in Nat
  /\ dataBuffer \in [0 .. BufferSize - 1 -> Values]
  /\ changes \in 0 .. MaxChanges

StoreInv == StoreTypes /\ BackendFits

LEMMA LargestSize ==
  MaxBytes \in Nat /\ MaxBytes < Wide /\ \A cfg \in Configs : cfg.size \in 0 .. MaxBytes
<1> DEFINE S == {cfg.size : cfg \in Configs}
<1>1. \A cfg \in Configs : cfg.size \in S /\ cfg.size \in 0 .. Wide - 1
  BY ServerAssumption
<1>2. \A n \in S : \E cfg \in Configs : n = cfg.size
  OBVIOUS
<1>3. \E n \in S : \A cfg \in Configs : cfg.size <= n
  BY ServerAssumption
<1>4. MaxBytes = CHOOSE n \in S : \A cfg \in Configs : cfg.size <= n
  BY DEF MaxBytes
<1> HIDE DEF S
<1>5. MaxBytes \in S /\ \A cfg \in Configs : cfg.size <= MaxBytes
  BY <1>3, <1>4
<1> QED BY <1>1, <1>2, <1>5, WidthAssumption

LEMMA IntervalSize ==
  ASSUME NEW n \in Nat
  PROVE  IsFiniteSet(0 .. n - 1) /\ Cardinality(0 .. n - 1) = n
  BY FS_Interval

(* The length of a medium *)
LEMMA LengthIs ==
  ASSUME NEW m, m.exists, NEW n \in Nat, m.bytes \in [0 .. n - 1 -> Values]
  PROVE  Length(m) = n
  BY IntervalSize DEF Length

LEMMA ZeroesAreContents ==
  ASSUME NEW n \in 0 .. MaxBytes
  PROVE  Contents(Zeroes(n)) /\ DOMAIN Zeroes(n) = 0 .. n - 1
  BY ZeroesType DEF Contents

(* What a restart makes of a file: the bytes it had stay, the new ones are *)
(* zeroes or what the disk held.                                           *)
Grown(m, old) ==
  /\ old.exists =>
       /\ m.exists
       /\ \A b \in DOMAIN old.bytes : b \in DOMAIN m.bytes /\ m.bytes[b] = old.bytes[b]
  /\ m.exists =>
       \A b \in DOMAIN m.bytes : (old.exists /\ b \in DOMAIN old.bytes) \/ m.bytes[b] \in {0, Junk}

LEMMA OpenedIs ==
  ASSUME NEW cfg \in Configs, NEW size \in 0 .. MaxBytes
  PROVE  /\ Opened(cfg, size) \in BackendType /\ Opened(cfg, size).open
         /\ Opened(cfg, size).kind = cfg.kind /\ Opened(cfg, size).size = size
         /\ Opened(cfg, size).readOnly = cfg.readOnly
  BY ServerAssumption DEF Opened, BackendType, Kinds

LEMMA ClosedIs == MaxBytes \in Nat => NoBackend \in BackendType /\ ~ NoBackend.open
  BY DEF NoBackend, BackendType, Kinds

(* BackendMemoryCreate *)
LEMMA MemoryCreated ==
  ASSUME NEW cfg \in Configs, cfg.kind = "memory", NEW old, GoodMedium(old), NEW r \in BackendCreate(cfg, old)
  PROVE  /\ r[1] \in BackendType /\ GoodMedium(r[2])
         /\ r[1].open => r[1].kind = cfg.kind /\ r[2].exists /\ Backed(r[1], r[2])
         /\ \/ ~ r[1].open /\ r[2] = old
            \/ r[1].open /\ \A b \in DOMAIN r[2].bytes : r[2].bytes[b] = 0
<1>1. r \in BackendMemoryCreate(cfg, old)
  BY DEF BackendCreate
<1>2. PICK size : size = Smaller(cfg.size, MaxMemory)
  OBVIOUS
<1>3. size \in 0 .. MaxBytes
  BY <1>2, LargestSize, BackendAssumption DEF Smaller
<1>4. CASE r = <<NoBackend, old>>
  BY <1>4, LargestSize, ClosedIs
<1>5. CASE r = <<Opened(cfg, size), Medium(Zeroes(size))>>
  <2>1. r[1] = Opened(cfg, size) /\ r[2] = Medium(Zeroes(size))
    BY <1>5
  <2>2. r[2].bytes = Zeroes(size) /\ r[2].exists /\ IsMedium(r[2])
    BY <2>1, MediumIsMedium
  <2>3. Contents(Zeroes(size)) /\ DOMAIN Zeroes(size) = 0 .. size - 1
        /\ \A k \in 0 .. size - 1 : Zeroes(size)[k] = 0
    BY <1>3, ZeroesType, ZeroesAreContents
  <2>4. r[1] \in BackendType /\ r[1].open /\ r[1].kind = cfg.kind /\ r[1].size = size
    BY <1>3, <2>1, OpenedIs
  <2> QED BY <2>2, <2>3, <2>4 DEF GoodMedium, Backed
<1> QED BY <1>1, <1>2, <1>4, <1>5 DEF BackendMemoryCreate

(* BackendFileCreate *)
LEMMA FileCreated ==
  ASSUME NEW cfg \in Configs, cfg.kind = "file", NEW old, GoodMedium(old), NEW r \in BackendCreate(cfg, old)
  PROVE  /\ r[1] \in BackendType /\ GoodMedium(r[2])
         /\ r[1].open => r[1].kind = cfg.kind /\ r[2].exists /\ Backed(r[1], r[2])
         /\ Grown(r[2], old)
<1> DEFINE m == IF old.exists THEN old ELSE Medium(Zeroes(0))
<1> DEFINE length == Length(m)
<1>0. MaxBytes \in Nat /\ cfg.size \in 0 .. MaxBytes /\ cfg.readOnly \in BOOLEAN
  BY LargestSize, ServerAssumption
<1>1. /\ r = <<NoBackend, old>> \/ cfg.size # 0
      /\ \/ r = <<NoBackend, old>> \/ r = <<NoBackend, m>>
         \/ /\ length < cfg.size /\ ~ cfg.readOnly
            /\ \E v \in {0, Junk} : r = <<Opened(cfg, cfg.size), Medium(Extend(m.bytes, cfg.size, v))>>
         \/ /\ ~ (length < cfg.size /\ ~ cfg.readOnly)
            /\ r = <<Opened(cfg, IF length > 0 THEN Smaller(length, cfg.size) ELSE cfg.size), m>>
  <2>1. r \in BackendFileCreate(cfg, old)
    BY DEF BackendCreate
  <2> QED BY <2>1 DEF BackendFileCreate
<1>2. /\ m.exists /\ IsMedium(m)
      /\ \E n \in 0 .. MaxBytes : m.bytes \in [0 .. n - 1 -> Values] /\ length = n
  <2>1. CASE old.exists
    <3>1. PICK n \in 0 .. MaxBytes : old.bytes \in [0 .. n - 1 -> Values]
      BY <2>1 DEF GoodMedium, Contents
    <3>2. n \in Nat
      BY <1>0
    <3>3. Length(old) = n
      BY <2>1, <3>1, <3>2, LengthIs
    <3> QED BY <2>1, <3>1, <3>3 DEF GoodMedium
  <2>2. CASE ~ old.exists
    <3>1. m.bytes = Zeroes(0) /\ m.exists /\ IsMedium(m)
      BY <2>2, MediumIsMedium
    <3>2. m.bytes \in [0 .. 0 - 1 -> Values]
      BY <3>1, ZeroesType
    <3>3. Length(m) = 0
      BY <3>1, <3>2, LengthIs
    <3> QED BY <1>0, <3>1, <3>2, <3>3
  <2> QED BY <2>1, <2>2
<1>3. PICK n \in 0 .. MaxBytes : m.bytes \in [0 .. n - 1 -> Values] /\ length = n
  BY <1>2
<1>4. GoodMedium(m) /\ Grown(m, old)
  <2>1. GoodMedium(m)
    BY <1>2 DEF GoodMedium, Contents
  <2>2. CASE old.exists
    BY <2>1, <2>2 DEF Grown
  <2>3. CASE ~ old.exists
    <3>1. m.bytes = Zeroes(0) /\ DOMAIN Zeroes(0) = 0 .. 0 - 1
      BY <2>3, MediumIsMedium, ZeroesType
    <3> QED BY <2>1, <2>3, <3>1 DEF Grown
  <2> QED BY <2>2, <2>3, <2>1
<1>5. old.exists => m = old
  OBVIOUS
<1>6. CASE r = <<NoBackend, old>>
  BY <1>0, <1>6, ClosedIs DEF Grown
<1>7. CASE r = <<NoBackend, m>>
  <2> HIDE DEF m
  <2> QED BY <1>0, <1>4, <1>7, ClosedIs
<1>8. ASSUME NEW v \in {0, Junk}, length < cfg.size, ~ cfg.readOnly,
             r = <<Opened(cfg, cfg.size), Medium(Extend(m.bytes, cfg.size, v))>>
      PROVE  /\ r[1] \in BackendType /\ GoodMedium(r[2])
             /\ r[1].open => r[1].kind = cfg.kind /\ r[2].exists /\ Backed(r[1], r[2])
             /\ Grown(r[2], old)
  <2> HIDE DEF m, length
  <2>1. PICK f : f = Extend(m.bytes, cfg.size, v)
    OBVIOUS
  <2>2. f = [k \in 0 .. cfg.size - 1 |-> IF k \in 0 .. n - 1 THEN m.bytes[k] ELSE v]
    BY <1>3, <2>1 DEF Extend
  <2>3. v \in Values
    BY ZeroIsValue
  <2>4. f \in [0 .. cfg.size - 1 -> Values]
    BY <1>3, <2>2, <2>3
  <2>5. r[1] = Opened(cfg, cfg.size) /\ r[2] = Medium(f)
    BY <1>8, <2>1
  <2>6. r[2].bytes = f /\ r[2].exists /\ IsMedium(r[2])
    BY <2>5, MediumIsMedium
  <2>7. r[1] \in BackendType /\ r[1].kind = cfg.kind /\ r[1].size = cfg.size
    BY <1>0, <2>5, OpenedIs
  <2>8. GoodMedium(r[2])
    BY <1>0, <2>4, <2>6 DEF GoodMedium, Contents
  <2>9. Backed(r[1], r[2])
    BY <2>4, <2>6, <2>7 DEF Backed
  <2>10. \A k \in 0 .. n - 1 : k \in 0 .. cfg.size - 1
    BY <1>0, <1>3, <1>8
  <2>11. Grown(r[2], old)
    <3>1. ASSUME old.exists, NEW b \in DOMAIN old.bytes PROVE b \in DOMAIN f /\ f[b] = old.bytes[b]
      BY <1>3, <1>5, <2>2, <2>10, <3>1
    <3>2. ASSUME NEW b \in DOMAIN f, ~ (old.exists /\ b \in DOMAIN old.bytes) PROVE f[b] \in {0, Junk}
      <4>1. CASE b \in 0 .. n - 1
        <5>1. m.bytes[b] \in {0, Junk}
          BY <1>3, <1>4, <1>2, <3>2, <4>1 DEF Grown
        <5> QED BY <2>2, <4>1, <5>1
      <4>2. CASE b \notin 0 .. n - 1
        BY <2>2, <4>2
      <4> QED BY <4>1, <4>2
    <3> QED BY <2>6, <3>1, <3>2 DEF Grown
  <2> QED BY <2>6, <2>7, <2>8, <2>9, <2>11
<1>9. ASSUME ~ (length < cfg.size /\ ~ cfg.readOnly), cfg.size # 0,
             r = <<Opened(cfg, IF length > 0 THEN Smaller(length, cfg.size) ELSE cfg.size), m>>
      PROVE  /\ r[1] \in BackendType /\ GoodMedium(r[2])
             /\ r[1].open => r[1].kind = cfg.kind /\ r[2].exists /\ Backed(r[1], r[2])
             /\ Grown(r[2], old)
  <2> HIDE DEF m, length
  <2>1. PICK size : size = IF length > 0 THEN Smaller(length, cfg.size) ELSE cfg.size
    OBVIOUS
  <2>2. size \in 0 .. MaxBytes /\ (~ cfg.readOnly => size <= n)
    BY <1>0, <1>3, <1>9, <2>1 DEF Smaller
  <2>3. r[1] = Opened(cfg, size) /\ r[2] = m
    BY <1>9, <2>1
  <2>4. r[1] \in BackendType /\ r[1].kind = cfg.kind /\ r[1].size = size /\ r[1].readOnly = cfg.readOnly
    BY <2>2, <2>3, OpenedIs
  <2>5. Backed(r[1], r[2])
    <3>1. CASE cfg.readOnly
      BY <2>4, <3>1 DEF Backed
    <3>2. CASE ~ cfg.readOnly
      <4>1. 0 .. size - 1 \subseteq 0 .. n - 1
        BY <2>2, <3>2, <1>0, <1>3
      <4> QED BY <1>3, <2>3, <2>4, <4>1 DEF Backed
    <3> QED BY <3>1, <3>2
  <2> QED BY <1>2, <1>4, <2>3, <2>4, <2>5
<1> HIDE DEF m, length
<1> QED BY <1>1, <1>6, <1>7, <1>8, <1>9

-----------------------------------------------------------------------------
(* A command that is not refused names bytes of the backend *)

LEMMA NlbIs ==
  ASSUME NEW raw \in RawNlbs
  PROVE  Nlb(raw) \in 0 .. Half - 1 /\ (raw + 1 < Half => Nlb(raw) = raw + 1)
<1>1. raw \in Nat /\ Half \in Nat \ {0}
  BY ServerAssumption, WidthAssumption
<1> QED BY <1>1 DEF Nlb

(* The check for a wrapped sum holds off every sum of two fields that      *)
(* wraps.                                                                  *)
LEMMA SumInRange ==
  ASSUME NEW slba \in 0 .. Wide - 1, NEW nlb \in 0 .. Half - 1, IoCmdValidateLbaRange(slba, nlb), nsSize \in Nat
  PROVE  slba + nlb <= nsSize
<1>1. slba \in Nat /\ nlb \in Nat /\ nlb < Wide /\ Wide \in Nat \ {0}
  BY WidthAssumption
<1>2. (slba + nlb) % Wide >= slba /\ (slba + nlb) % Wide <= nsSize
  BY DEF IoCmdValidateLbaRange
<1>3. CASE slba + nlb < Wide
  <2>1. PICK s : s = slba + nlb
    OBVIOUS
  <2>2. s \in 0 .. Wide - 1
    BY <1>1, <1>3, <2>1
  <2>3. s % Wide = s
    BY <1>1, <2>2, PlaceInFirstLap DEF Place
  <2> QED BY <1>2, <2>1, <2>3
<1>4. CASE ~ (slba + nlb < Wide)
  <2>1. PICK s : s = slba + nlb - Wide
    OBVIOUS
  <2>2. s \in 0 .. Wide - 1 /\ s \in Nat /\ s < slba /\ slba + nlb = s + Wide
    BY <1>1, <1>4, <2>1
  <2>3. (s + Wide) % Wide = s
    BY <1>1, <2>2, PlaceInFirstLap, PlaceLap DEF Place
  <2> QED BY <1>1, <1>2, <2>2, <2>3
<1> QED BY <1>3, <1>4

LEMMA CommandInRange ==
  ASSUME StoreInv, backend.open, NEW nsid, NEW slba \in Slbas, NEW raw \in RawNlbs,
         Refusal(nsid, slba, Nlb(raw)) = "NONE"
  PROVE  /\ slba * BlockSize \in Nat /\ Nlb(raw) * BlockSize \in Nat
         /\ (slba * BlockSize) % Wide = slba * BlockSize
         /\ slba * BlockSize + Nlb(raw) * BlockSize <= backend.size
<1> DEFINE nlb == Nlb(raw)
<1>1. nlb \in 0 .. Half - 1 /\ slba \in 0 .. Wide - 1 /\ Wide \in Nat /\ Half \in Nat
  BY NlbIs, ServerAssumption, WidthAssumption
<1>2. IoCmdValidateLbaRange(slba, nlb)
  BY DEF Refusal
<1> HIDE DEF nlb
<1>3. nsSize \in Nat /\ slba + nlb <= nsSize /\ slba \in Nat /\ nlb \in Nat
  BY <1>1, <1>2, SumInRange DEF StoreInv, StoreTypes
<1>4. backend.size \in 0 .. MaxBytes /\ MaxBytes < Wide /\ MaxBytes \in Nat
      /\ Laps(nsSize, BlockSize) <= backend.size /\ BlockSize \in Nat
  BY LargestSize, BackendAssumption DEF StoreInv, StoreTypes, BackendFits, BackendType
<1>5. slba * BlockSize = Laps(slba, BlockSize) /\ nlb * BlockSize = Laps(nlb, BlockSize)
  BY <1>3, <1>4 DEF Laps
<1>6. Laps(slba + nlb, BlockSize) = Laps(slba, BlockSize) + Laps(nlb, BlockSize)
      /\ Laps(slba, BlockSize) \in Nat /\ Laps(nlb, BlockSize) \in Nat
  BY <1>3, <1>4, LapsAdd
<1>7. Laps(slba + nlb, BlockSize) <= Laps(nsSize, BlockSize) /\ Laps(nsSize, BlockSize) \in Nat
  <2>1. PICK s : s = slba + nlb
    OBVIOUS
  <2>2. s \in Nat /\ (s < nsSize \/ s = nsSize)
    BY <1>3, <2>1
  <2>3. Laps(s, BlockSize) \in Nat /\ Laps(nsSize, BlockSize) \in Nat
    BY <1>3, <1>4, <2>2, LapsAdd
  <2>4. s < nsSize => Laps(s, BlockSize) + BlockSize <= Laps(nsSize, BlockSize)
    BY <1>3, <1>4, <2>2, LapsGrow
  <2> QED BY <1>4, <2>1, <2>2, <2>3, <2>4
<1>8. Laps(slba, BlockSize) + Laps(nlb, BlockSize) <= backend.size
  BY <1>4, <1>6, <1>7
<1>9. Laps(slba, BlockSize) \in 0 .. Wide - 1
  BY <1>1, <1>4, <1>6, <1>8
<1>10. Laps(slba, BlockSize) % Wide = Laps(slba, BlockSize)
  BY <1>9, PlaceInFirstLap, WidthAssumption DEF Place
<1> QED BY <1>5, <1>6, <1>8, <1>10 DEF nlb

(* MemoryBackendRead, FileBackendRead: bytes of the medium, all of those   *)
(* asked for when it succeeds.                                             *)
LEMMA ReadOutcome ==
  ASSUME StoreInv, backend.open, NEW offset \in Nat, NEW size \in Nat, offset + size <= backend.size,
         NEW r \in BackendRead(backend, Bytes, offset, size)
  PROVE  /\ \A k \in DOMAIN r.bytes : r.bytes[k] \in Values
         /\ r.ok => /\ DOMAIN r.bytes = 0 .. size - 1
                    /\ \A k \in 0 .. size - 1 : offset + k \in DOMAIN Bytes /\ r.bytes[k] = Bytes[offset + k]
<1>0. PICK n \in 0 .. MaxBytes : Bytes \in [0 .. n - 1 -> Values]
  BY DEF StoreInv, StoreTypes, BackendFits, GoodMedium, Contents, Bytes
<1>1. n \in Nat /\ DOMAIN Bytes = 0 .. n - 1
  BY <1>0, LargestSize
<1>2. CASE r = Error(<< >>)
  BY <1>2, ResultFields
<1>3. CASE backend.kind = "memory" /\ r = Done(Part(Bytes, offset, size))
  <2>1. 0 .. backend.size - 1 \subseteq 0 .. n - 1 /\ backend.size \in Nat
    BY <1>1, <1>3, LargestSize DEF StoreInv, StoreTypes, BackendFits, Backed, Bytes, BackendType
  <2>2. \A k \in 0 .. size - 1 : offset + k \in 0 .. backend.size - 1
    BY <2>1
  <2>3. PICK f : f = Part(Bytes, offset, size)
    OBVIOUS
  <2>4. DOMAIN f = 0 .. size - 1 /\ \A k \in 0 .. size - 1 : f[k] = Bytes[offset + k]
    BY <2>3 DEF Part
  <2>5. r.ok /\ r.bytes = f
    BY <1>3, <2>3, ResultFields
  <2> QED BY <1>0, <1>1, <2>1, <2>2, <2>4, <2>5
<1>4. CASE backend.kind = "file" /\ r # Error(<< >>)
  <2> DEFINE there == {k \in 0 .. size - 1 : offset + k \in DOMAIN Bytes}
  <2> DEFINE got == [k \in there |-> Bytes[offset + k]]
  <2>1. r \in FileBackendRead(backend, Bytes, offset, size)
    BY <1>4 DEF BackendRead
  <2>2. (\E i : r = Error(Prefix(got, i))) \/ (r = Done(got) /\ Cardinality(there) = size)
    BY <1>4, <2>1 DEF FileBackendRead
  <2>3. there \in SUBSET Nat /\ got \in [there -> Values]
    BY <1>0, <1>1
  <2>4. CASE \E i : r = Error(Prefix(got, i))
    <3>1. PICK i : r = Error(Prefix(got, i))
      BY <2>4
    <3>2. r.bytes = Prefix(got, i) /\ ~ r.ok
      BY <3>1, ResultFields
    <3> HIDE DEF there, got
    <3>3. \A k \in DOMAIN r.bytes : r.bytes[k] \in Values
      BY <2>3, <3>2, PrefixValues
    <3> QED BY <3>2, <3>3
  <2>5. CASE r = Done(got) /\ Cardinality(there) = size
    <3>1. IsFiniteSet(0 .. size - 1) /\ Cardinality(0 .. size - 1) = size
      BY IntervalSize
    <3>2. there \in SUBSET (0 .. size - 1)
      OBVIOUS
    <3>3. there = 0 .. size - 1
      <4> HIDE DEF there
      <4> QED BY <2>5, <3>1, <3>2, FS_Subset
    <3>4. r.ok /\ r.bytes = got
      BY <2>5, ResultFields
    <3>5. \A k \in there : offset + k \in DOMAIN Bytes /\ got[k] = Bytes[offset + k]
      OBVIOUS
    <3> HIDE DEF there, got
    <3> QED BY <2>3, <3>3, <3>4, <3>5
  <2> QED BY <2>2, <2>4, <2>5
<1>5. backend.kind \in Kinds
  BY DEF StoreInv, StoreTypes, BackendType
<1> QED BY <1>2, <1>3, <1>4, <1>5 DEF BackendRead, MemoryBackendRead, Kinds

LEMMA BufferPrefix ==
  ASSUME NEW buf \in [0 .. BufferSize - 1 -> Values], NEW n
  PROVE  /\ {k \in 0 .. BufferSize - 1 : k < n} \in SUBSET Nat
         /\ Prefix(buf, n) \in [{k \in 0 .. BufferSize - 1 : k < n} -> Values]
<1>1. PICK E : E = 0 .. BufferSize - 1
  OBVIOUS
<1>2. E \in SUBSET Nat /\ buf \in [E -> Values]
  BY <1>1, ServerAssumption
<1>3. {k \in E : k < n} \in SUBSET Nat /\ Prefix(buf, n) \in [{k \in E : k < n} -> Values]
  BY <1>2, PrefixIs
<1> QED BY <1>1, <1>3, Zenon

(* What IoCmdWrite and IoCmdWriteZeroes may leave of the medium *)
LEMMA CommandWrites ==
  ASSUME StoreInv, backend.open, NEW q, NEW nsid, NEW slba \in Slbas, NEW raw \in RawNlbs,
         IoCmdWrite(q, nsid, slba, raw) \/ IoCmdWriteZeroes(q, nsid, slba, raw)
  PROVE  \/ NoEffect /\ \E status : IoCmdPostCompletion(q, Reply(status))
         \/ \E outcomes, new, length :
              /\ length = Nlb(raw) * BlockSize /\ Refusal(nsid, slba, Nlb(raw)) = "NONE"
              /\ \/ new = Prefix(dataBuffer, length)
                    /\ Change(q, outcomes, slba, Prefix(dataBuffer, (raw + 1) * BlockSize))
                 \/ new = Zeroes(length) /\ Change(q, outcomes, slba, Zeroes((raw + 1) * BlockSize))
              /\ \A r \in outcomes : Outcome(r, Bytes, slba * BlockSize, new) /\ (r.ok => ~ backend.readOnly)
<1> DEFINE offset == slba * BlockSize
<1> DEFINE length == Nlb(raw) * BlockSize
<1>1. CASE Refusal(nsid, slba, Nlb(raw)) # "NONE"
  BY <1>1 DEF IoCmdWrite, IoCmdWriteZeroes
<1>2. CASE Refusal(nsid, slba, Nlb(raw)) = "NONE"
  <2>1. offset \in Nat /\ length \in Nat /\ offset % Wide = offset
    BY <1>2, CommandInRange
  <2>2. PICK n \in 0 .. MaxBytes : Bytes \in [0 .. n - 1 -> Values]
    BY DEF StoreInv, StoreTypes, BackendFits, GoodMedium, Contents, Bytes
  <2>3. 0 .. n - 1 \in SUBSET Nat /\ backend.kind \in Kinds
    BY LargestSize DEF StoreInv, StoreTypes, BackendType
  <2>4. CASE IoCmdWrite(q, nsid, slba, raw)
    <3>1. \/ NoEffect /\ IoCmdPostCompletion(q, Reply("SUCCESS"))
          \/ Change(q, BackendWrite(backend, Bytes, offset, Prefix(dataBuffer, length)),
                    slba, Prefix(dataBuffer, (raw + 1) * BlockSize))
      BY <1>2, <2>1, <2>4 DEF IoCmdWrite
    <3>2. PICK new : new = Prefix(dataBuffer, length)
      OBVIOUS
    <3>3. PICK E : E = {k \in 0 .. BufferSize - 1 : k < length}
      OBVIOUS
    <3>4. 0 .. BufferSize - 1 \in SUBSET Nat /\ dataBuffer \in [0 .. BufferSize - 1 -> Values]
      BY ServerAssumption DEF StoreInv, StoreTypes
    <3>5. E \in SUBSET Nat /\ new \in [E -> Values]
      BY <3>2, <3>3, <3>4, BufferPrefix, Zenon
    <3>6. \A r \in BackendWrite(backend, Bytes, offset, new) :
            Outcome(r, Bytes, offset, new) /\ (r.ok => ~ backend.readOnly)
      <4> HIDE DEF offset
      <4> QED BY <2>1, <2>2, <2>3, <3>5, WriteOutcome
    <3> QED BY <1>2, <3>1, <3>2, <3>6
  <2>5. CASE IoCmdWriteZeroes(q, nsid, slba, raw)
    <3>1. Change(q, BackendWriteZeroes(backend, Bytes, offset, length), slba, Zeroes((raw + 1) * BlockSize))
      BY <1>2, <2>1, <2>5 DEF IoCmdWriteZeroes
    <3>2. \A r \in BackendWriteZeroes(backend, Bytes, offset, length) :
            Outcome(r, Bytes, offset, Zeroes(length)) /\ (r.ok => ~ backend.readOnly)
      <4> HIDE DEF offset, length
      <4> QED BY <2>1, <2>2, <2>3, ZeroesOutcome
    <3> QED BY <1>2, <3>1, <3>2
  <2> QED BY <2>4, <2>5
<1> QED BY <1>1, <1>2

-----------------------------------------------------------------------------
(* Types *)

CqType == [created : BOOLEAN, capacity : 0 .. Half - 1, cqId : {0}]
SqType == [created : BOOLEAN, capacity : 0 .. Half - 1, cqId : 0 .. MaxIoQueues]
QueuesTyped == ioCq \in [Qids -> CqType] /\ ioSq \in [Qids -> SqType]

LEMMA EmptyQueuesTyped == NoQueue \in CqType /\ NoQueue \in SqType
  BY ServerAssumption, WidthAssumption DEF NoQueue, CqType, SqType

LEMMA QueuesStep ==
  ASSUME QueuesTyped, [Next]_vars
  PROVE  QueuesTyped'
<1>1. ASSUME NoTables PROVE QueuesTyped'
  BY <1>1, EmptyQueuesTyped DEF NoTables, QueuesTyped
<1>2. ASSUME UNCHANGED <<ioCq, ioSq>> PROVE QueuesTyped'
  BY <1>2 DEF QueuesTyped
<1>3. ASSUME NEW raw \in RawSizes PROVE QueueSize(raw) \in 0 .. Half - 1
  <2>1. raw \in Nat /\ Half \in Nat \ {0}
    BY ServerAssumption, WidthAssumption
  <2> QED BY <2>1 DEF QueueSize
<1>4. ASSUME NEW q, NEW raw \in RawSizes, AdminCmdCreateIoCq(q, raw) PROVE QueuesTyped'
  <2>1. PICK rec : rec = [created |-> TRUE, capacity |-> QueueSize(raw), cqId |-> 0]
    OBVIOUS
  <2>2. rec \in CqType
    BY <1>3, <2>1 DEF CqType
  <2>3. ioSq' = ioSq /\ (ioCq' = ioCq \/ ioCq' = [ioCq EXCEPT ![q] = rec])
    BY <1>4, <2>1 DEF AdminCmdCreateIoCq
  <2> QED BY <2>2, <2>3 DEF QueuesTyped
<1>5. ASSUME NEW q, NEW raw \in RawSizes, NEW c, AdminCmdCreateIoSq(q, raw, c) PROVE QueuesTyped'
  <2>1. PICK rec : rec = [created |-> TRUE, capacity |-> QueueSize(raw), cqId |-> c]
    OBVIOUS
  <2>2. c \in Qids => rec \in SqType
    BY <1>3, <2>1 DEF SqType, Qids
  <2>3. ioCq' = ioCq /\ (ioSq' = ioSq \/ (c \in Qids /\ ioSq' = [ioSq EXCEPT ![q] = rec]))
    BY <1>5, <2>1 DEF AdminCmdCreateIoSq
  <2> QED BY <2>2, <2>3 DEF QueuesTyped
<1>6. ASSUME NEW q, AdminCmdDeleteIoCq(q) \/ AdminCmdDeleteIoSq(q) PROVE QueuesTyped'
  BY <1>6, EmptyQueuesTyped DEF AdminCmdDeleteIoCq, AdminCmdDeleteIoSq, QueuesTyped
<1>7. ASSUME CmdEngineProcessAdminCommand PROVE QueuesTyped'
  <2>1. ASSUME NEW fid, (\E value : AdminCmdSetFeatures(fid, value)) \/ AdminCmdGetFeatures(fid)
        PROVE  UNCHANGED <<ioCq, ioSq>>
    BY <2>1 DEF AdminCmdSetFeatures, AdminCmdGetFeatures
  <2>2. ASSUME \/ \E cns, nsid : AdminCmdIdentify(cns, nsid)
               \/ \E lid, bytes : AdminCmdGetLogPage(lid, bytes)
               \/ AdminCmdAbort \/ AdminCmdKeepAlive
        PROVE  UNCHANGED <<ioCq, ioSq>>
    BY <2>2 DEF AdminCmdIdentify, AdminCmdGetLogPage, AdminCmdAbort, AdminCmdKeepAlive, NoEffect, tables
  <2> QED BY <1>2, <1>4, <1>5, <1>6, <1>7, <2>1, <2>2 DEF CmdEngineProcessAdminCommand
<1>8. ASSUME NEW q, IoCmdProcess(q) PROVE NoTables \/ UNCHANGED <<ioCq, ioSq>>
  <2>1. ASSUME NEW outcomes, NEW slba, NEW asked, Change(q, outcomes, slba, asked)
        PROVE  NoTables \/ UNCHANGED <<ioCq, ioSq>>
    BY <2>1 DEF Change, Gone, tables
  <2> QED BY <1>8, <2>1 DEF IoCmdProcess, IoCmdRead, IoCmdWrite, IoCmdWriteZeroes, IoCmdFlush,
                            IoCmdDatasetManagement, NoEffect, tables
<1>9. ASSUME NEW cfg \in Configs, Start(cfg) PROVE NoTables \/ UNCHANGED <<ioCq, ioSq>>
  BY <1>9 DEF Start, CmdEngineInitSimple, tables
<1>10. ASSUME End \/ UNCHANGED vars PROVE NoTables \/ UNCHANGED <<ioCq, ioSq>>
  BY <1>10 DEF End, Gone, vars, tables
<1> QED BY <1>1, <1>2, <1>7, <1>8, <1>9, <1>10 DEF Next

LEMMA SameStore ==
  ASSUME StoreInv, UNCHANGED <<backend, kind, medium, nsSize, changes>>,
         dataBuffer' \in [0 .. BufferSize - 1 -> Values]
  PROVE  StoreInv'
  BY DEF StoreInv, StoreTypes, BackendFits

(* The process is gone. *)
LEMMA StoreGone ==
  ASSUME StoreInv, NEW m, GoodMedium(m), Gone(m), changes' \in 0 .. MaxChanges
  PROVE  StoreInv'
<1>1. backend' = NoBackend /\ nsSize' = 0 /\ UNCHANGED <<kind, dataBuffer>>
      /\ (medium' = NoFile \/ medium' = m)
  BY DEF Gone
<1>2. GoodMedium(NoFile)
  BY DEF GoodMedium, IsMedium, NoFile
<1>3. GoodMedium(medium')
  BY <1>1, <1>2
<1>4. NoBackend \in BackendType /\ ~ NoBackend.open
  BY ClosedIs, LargestSize
<1> QED BY <1>1, <1>3, <1>4 DEF StoreInv, StoreTypes, BackendFits

LEMMA StoreStarts ==
  ASSUME StoreInv, NEW cfg \in Configs, Start(cfg)
  PROVE  StoreInv'
<1>1. PICK r \in BackendCreate(cfg, medium) :
        /\ backend' = r[1] /\ medium' = r[2]
        /\ IF r[1].open THEN nsSize' = r[1].size \div BlockSize ELSE UNCHANGED nsSize
  BY DEF Start, CmdEngineInitSimple
<1>2. cfg.kind = kind /\ UNCHANGED <<kind, dataBuffer, changes>>
  BY DEF Start
<1>3. GoodMedium(medium) /\ cfg.kind \in Kinds
  BY <1>2 DEF StoreInv, StoreTypes
<1>4. /\ r[1] \in BackendType /\ GoodMedium(r[2])
      /\ r[1].open => r[1].kind = cfg.kind /\ r[2].exists /\ Backed(r[1], r[2])
  BY <1>3, MemoryCreated, FileCreated DEF Kinds
<1>5. nsSize' \in Nat /\ (r[1].open => Laps(nsSize', BlockSize) <= r[1].size)
  <2>1. CASE ~ r[1].open
    BY <1>1, <2>1 DEF StoreInv, StoreTypes
  <2>2. CASE r[1].open
    <3>1. PICK s : s = r[1].size
      OBVIOUS
    <3>2. s \in Nat /\ BlockSize \in Nat \ {0}
      BY <1>4, <3>1, LargestSize, BackendAssumption DEF BackendType
    <3>3. /\ s \div BlockSize \in Nat /\ Place(s, BlockSize) \in 0 .. BlockSize - 1
          /\ s = Laps(s \div BlockSize, BlockSize) + Place(s, BlockSize)
      BY <3>2, Quotient
    <3>4. PICK d : d = s \div BlockSize
      OBVIOUS
    <3>5. Laps(d, BlockSize) \in Nat
      BY <3>2, <3>3, <3>4, LapsAdd
    <3>6. Laps(d, BlockSize) <= s
      BY <3>2, <3>3, <3>4, <3>5
    <3> QED BY <1>1, <2>2, <3>1, <3>3, <3>4, <3>6
  <2> QED BY <2>1, <2>2
<1>6. StoreTypes'
  BY <1>1, <1>2, <1>4, <1>5 DEF StoreInv, StoreTypes
<1>7. BackendFits'
  BY <1>1, <1>2, <1>4, <1>5 DEF BackendFits
<1> QED BY <1>6, <1>7 DEF StoreInv

LEMMA StoreChanged ==
  ASSUME StoreInv, backend.open, NEW q, NEW outcomes, NEW slba, NEW asked, Change(q, outcomes, slba, asked),
         \A r \in outcomes : r.bytes \in [DOMAIN Bytes -> Values]
  PROVE  StoreInv'
<1>1. changes' \in 0 .. MaxChanges
  BY ServerAssumption DEF Change, StoreInv, StoreTypes
<1>2. PICK n \in 0 .. MaxBytes : Bytes \in [0 .. n - 1 -> Values]
  BY DEF StoreInv, StoreTypes, BackendFits, GoodMedium, Contents, Bytes
<1>3. PICK r \in outcomes : \/ medium' = Medium(r.bytes) /\ UNCHANGED <<kind, backend, nsSize, dataBuffer>>
                            \/ Gone(Medium(r.bytes))
  BY DEF Change
<1>4. r.bytes \in [0 .. n - 1 -> Values]
  BY <1>2
<1>5. PICK m : m = Medium(r.bytes)
  OBVIOUS
<1>6. m.bytes = r.bytes /\ m.exists /\ IsMedium(m)
  BY <1>5, MediumIsMedium
<1>7. GoodMedium(m) /\ DOMAIN m.bytes = DOMAIN medium.bytes
  BY <1>2, <1>4, <1>6 DEF GoodMedium, Contents, Bytes
<1>8. CASE medium' = m /\ UNCHANGED <<kind, backend, nsSize, dataBuffer>>
  BY <1>1, <1>6, <1>7, <1>8 DEF StoreInv, StoreTypes, BackendFits, Backed
<1>9. CASE Gone(m)
  BY <1>1, <1>7, <1>9, StoreGone
<1> QED BY <1>3, <1>5, <1>8, <1>9

(* Where the code may write without leaving the buffer *)
LEMMA Overwritten ==
  ASSUME NEW buffer \in [0 .. BufferSize - 1 -> Values], NEW v \in Values,
         NEW places \in SUBSET (0 .. BufferSize - 1)
  PROVE  Overwrite(buffer, places, v) \in [0 .. BufferSize - 1 -> Values]
<1>1. DOMAIN buffer \cup places = 0 .. BufferSize - 1
  OBVIOUS
<1> QED BY <1>1 DEF Overwrite

LEMMA BufferFilled ==
  ASSUME StoreInv, FillBuffer(PageBytes)
  PROVE  dataBuffer' \in [0 .. BufferSize - 1 -> Values]
<1>1. dataBuffer \in [0 .. BufferSize - 1 -> Values]
  BY DEF StoreInv, StoreTypes
<1>2. CASE PageBytes > BufferSize
  BY <1>1, <1>2 DEF FillBuffer
<1>3. CASE ~ (PageBytes > BufferSize)
  <2>1. 0 .. PageBytes - 1 \in SUBSET (0 .. BufferSize - 1)
    BY <1>3, ServerAssumption
  <2> QED BY <1>1, <1>3, <2>1, ZeroIsValue, Overwritten DEF FillBuffer
<1> QED BY <1>2, <1>3

LEMMA LogFilled ==
  ASSUME StoreInv, NEW lid, NEW numd \in RawLogs, AdminCmdGetLogPage(lid, numd)
  PROVE  dataBuffer' \in [0 .. BufferSize - 1 -> Values]
<1>1. dataBuffer \in [0 .. BufferSize - 1 -> Values]
  BY DEF StoreInv, StoreTypes
<1>2. PICK bytes : bytes = LogLength(numd)
  OBVIOUS
<1>3. bytes \in Nat
  <2>1. numd \in Nat /\ Dword \in Nat /\ Long \in Nat \ {0}
    BY ServerAssumption
  <2>2. PICK n \in Nat : n = numd * Dword + Dword
    BY <2>1
  <2> QED BY <1>2, <2>1, <2>2 DEF LogLength
<1>4. CASE bytes > BufferSize
  BY <1>1, <1>2, <1>4 DEF AdminCmdGetLogPage
<1>5. CASE ~ (bytes > BufferSize)
  <2>1. dataBuffer' = LogPage(lid, bytes)
    BY <1>2, <1>5 DEF AdminCmdGetLogPage
  <2>2. /\ 0 .. bytes - 1 \in SUBSET (0 .. BufferSize - 1)
        /\ 1 .. SmartEnd \in SUBSET (0 .. BufferSize - 1)
    BY <1>3, <1>5, ServerAssumption, SmartAssumption
  <2>3. PICK cleared : cleared = Overwrite(dataBuffer, 0 .. bytes - 1, 0)
    OBVIOUS
  <2>4. cleared \in [0 .. BufferSize - 1 -> Values]
    BY <1>1, <2>2, <2>3, ZeroIsValue, Overwritten
  <2>5. Overwrite(cleared, 1 .. SmartEnd, Tag) \in [0 .. BufferSize - 1 -> Values]
    BY <2>2, <2>4, ZeroIsValue, Overwritten
  <2> QED BY <2>1, <2>3, <2>4, <2>5 DEF LogPage
<1> QED BY <1>4, <1>5

LEMMA AdminTypes ==
  ASSUME StoreInv, CmdEngineProcessAdminCommand
  PROVE  StoreInv'
<1>1. UNCHANGED <<backend, kind, medium, nsSize, changes>>
  BY AdminKeepsContent DEF Content
<1>2. \/ UNCHANGED dataBuffer
      \/ FillBuffer(PageBytes)
      \/ \E lid \in 2 .. 4, numd \in RawLogs : AdminCmdGetLogPage(lid, numd)
  BY DEF CmdEngineProcessAdminCommand, AdminCmdCreateIoCq, AdminCmdCreateIoSq, AdminCmdDeleteIoCq,
         AdminCmdDeleteIoSq, AdminCmdSetFeatures, AdminCmdGetFeatures, AdminCmdIdentify,
         AdminCmdIdentifyNamespace, AdminCmdIdentifyController, AdminCmdIdentifyNamespaceList,
         AdminCmdAbort, AdminCmdKeepAlive, NoEffect
<1>3. dataBuffer' \in [0 .. BufferSize - 1 -> Values]
  BY <1>2, BufferFilled, LogFilled DEF StoreInv, StoreTypes
<1> QED BY <1>1, <1>3, SameStore

(* What IoCmdRead does *)
LEMMA ReadShape ==
  ASSUME StoreInv, backend.open, NEW q, NEW nsid, NEW slba \in Slbas, NEW raw \in RawNlbs,
         IoCmdRead(q, nsid, slba, raw)
  PROVE  \/ NoEffect /\ \E status : IoCmdPostCompletion(q, Reply(status))
         \/ Nlb(raw) * BlockSize > BufferSize /\ NoEffect /\ IoCmdPostCompletion(q, Delivered(slba, raw))
         \/ /\ Refusal(nsid, slba, Nlb(raw)) = "NONE"
            /\ \E r \in BackendRead(backend, Bytes, slba * BlockSize, Nlb(raw) * BlockSize) :
                 /\ IF r.ok THEN IoCmdPostCompletion(q, Delivered(slba, raw))
                    ELSE \E status : IoCmdPostCompletion(q, Reply(status))
                 /\ dataBuffer' = [k \in DOMAIN dataBuffer |->
                                     IF k \in DOMAIN r.bytes THEN r.bytes[k] ELSE dataBuffer[k]]
                 /\ UNCHANGED <<tables, Content>>
<1>1. CASE Refusal(nsid, slba, Nlb(raw)) # "NONE"
  BY <1>1 DEF IoCmdRead
<1>2. CASE Refusal(nsid, slba, Nlb(raw)) = "NONE"
  <2>1. (slba * BlockSize) % Wide = slba * BlockSize
    BY <1>2, CommandInRange
  <2> QED BY <1>2, <2>1 DEF IoCmdRead
<1> QED BY <1>1, <1>2

LEMMA CommandTypes ==
  ASSUME StoreInv, backend.open, NEW q, IoCmdProcess(q)
  PROVE  StoreInv'
<1>1. ASSUME NoEffect PROVE StoreInv'
  <2>1. UNCHANGED <<backend, kind, medium, nsSize, changes>> /\ dataBuffer' \in [0 .. BufferSize - 1 -> Values]
    BY <1>1 DEF NoEffect, Content, StoreInv, StoreTypes
  <2> QED BY <2>1, SameStore
<1>2. ASSUME NEW nsid \in 1 .. 2, NEW slba \in Slbas, NEW raw \in RawNlbs, IoCmdRead(q, nsid, slba, raw)
      PROVE  StoreInv'
  <2>1. ASSUME Refusal(nsid, slba, Nlb(raw)) = "NONE",
               NEW r \in BackendRead(backend, Bytes, slba * BlockSize, Nlb(raw) * BlockSize),
               dataBuffer' = [k \in DOMAIN dataBuffer |->
                                IF k \in DOMAIN r.bytes THEN r.bytes[k] ELSE dataBuffer[k]],
               UNCHANGED Content
        PROVE  StoreInv'
    <3>1. /\ slba * BlockSize \in Nat /\ Nlb(raw) * BlockSize \in Nat
          /\ slba * BlockSize + Nlb(raw) * BlockSize <= backend.size
      BY <2>1, CommandInRange
    <3>2. \A k \in DOMAIN r.bytes : r.bytes[k] \in Values
      BY <3>1, ReadOutcome
    <3>3. dataBuffer' \in [0 .. BufferSize - 1 -> Values]
      BY <2>1, <3>2 DEF StoreInv, StoreTypes
    <3>4. UNCHANGED <<backend, kind, medium, nsSize, changes>>
      BY <2>1 DEF Content
    <3> QED BY <3>3, <3>4, SameStore
  <2> QED BY <1>1, <1>2, <2>1, ReadShape
<1>3. ASSUME NEW nsid \in 1 .. 2, NEW slba \in Slbas, NEW raw \in RawNlbs,
             IoCmdWrite(q, nsid, slba, raw) \/ IoCmdWriteZeroes(q, nsid, slba, raw)
      PROVE  StoreInv'
  <2>1. \/ NoEffect
        \/ \E outcomes, new, asked :
              /\ Change(q, outcomes, slba, asked)
              /\ \A r \in outcomes : Outcome(r, Bytes, slba * BlockSize, new)
    BY <1>3, CommandWrites
  <2>2. ASSUME NEW outcomes, NEW new, NEW asked, Change(q, outcomes, slba, asked),
               \A r \in outcomes : Outcome(r, Bytes, slba * BlockSize, new)
        PROVE  StoreInv'
    <3>1. \A r \in outcomes : r.bytes \in [DOMAIN Bytes -> Values]
      BY <2>2 DEF Outcome
    <3> QED BY <2>2, <3>1, StoreChanged
  <2> QED BY <1>1, <2>1, <2>2
<1>4. ASSUME IoCmdFlush(q) \/ IoCmdDatasetManagement(q) PROVE StoreInv'
  BY <1>1, <1>4 DEF IoCmdFlush, IoCmdDatasetManagement
<1> QED BY <1>1, <1>2, <1>3, <1>4 DEF IoCmdProcess

LEMMA StoreStep ==
  ASSUME StoreInv, [Next]_vars
  PROVE  StoreInv'
<1>1. ASSUME End PROVE StoreInv'
  <2>1. Gone(medium) /\ UNCHANGED changes
    BY <1>1 DEF End
  <2>2. GoodMedium(medium) /\ changes' \in 0 .. MaxChanges
    BY <2>1 DEF StoreInv, StoreTypes
  <2> QED BY <2>1, <2>2, StoreGone
<1>2. ASSUME UNCHANGED vars PROVE StoreInv'
  <2>1. UNCHANGED <<backend, kind, medium, nsSize, changes>> /\ dataBuffer' \in [0 .. BufferSize - 1 -> Values]
    BY <1>2 DEF vars, StoreInv, StoreTypes
  <2> QED BY <2>1, SameStore
<1> QED BY <1>1, <1>2, StoreStarts, AdminTypes, CommandTypes DEF Next

LEMMA StoreInit == Init => StoreInv
<1> SUFFICES ASSUME Init PROVE StoreInv
  OBVIOUS
<1>1. backend \in BackendType /\ ~ backend.open
  BY ClosedIs, LargestSize DEF Init
<1>2. GoodMedium(medium)
  BY DEF Init, GoodMedium, IsMedium, NoFile
<1>3. dataBuffer \in [0 .. BufferSize - 1 -> Values]
  BY ZeroesType DEF Init
<1> QED BY <1>1, <1>2, <1>3, ServerAssumption DEF Init, StoreInv, StoreTypes, BackendFits

(* For any sizes and configurations every byte of the medium and of the    *)
(* data buffer is one that was written, the buffer is never written beyond *)
(* its end, and no file grows beyond the largest configured size.          *)
THEOREM TypeCorrect == Spec => []TypeOK
<1>1. Init => StoreInv /\ QueuesTyped /\ SlotTyped
  BY StoreInit, EmptyQueuesTyped DEF Init, QueuesTyped, SlotTyped
<1>2. StoreInv /\ [Next]_vars => StoreInv'
  BY StoreStep
<1>3. QueuesTyped /\ [Next]_vars => QueuesTyped'
  BY QueuesStep
<1>4. SlotTyped /\ [Next]_vars => SlotTyped'
  BY SlotStep
<1>5. StoreInv /\ QueuesTyped /\ SlotTyped => TypeOK
  BY DEF StoreInv, StoreTypes, QueuesTyped, SlotTyped, TypeOK, BackendType, GoodMedium, Contents, CqType, SqType
<1> QED BY <1>1, <1>2, <1>3, <1>4, <1>5, PTL DEF Spec

-----------------------------------------------------------------------------
(* The medium against the answers *)

(* Bytes a file does not have yet may turn out to be zeroes, or what the   *)
(* disk held before.                                                       *)
Unwritten ==
  kind = "file" => \A b \in Stored :
    ~ (medium.exists /\ b \in DOMAIN medium.bytes) => 0 \in belief[b] /\ Junk \in belief[b]

MemoryGone == kind = "memory" /\ ~ backend.open => ~ medium.exists

ToldInv == MediumIsAsTold /\ Unwritten /\ MemoryGone

(* No command carries the block count that becomes 0 in 16 bits; no        *)
(* transfer is longer than the data buffer.                                *)
Counted == \A raw \in RawNlbs : raw + 1 < Half
Buffered == \A raw \in RawNlbs : (raw + 1) * BlockSize <= BufferSize

LEMMA ContentsAreStored ==
  ASSUME NEW bytes, Contents(bytes), NEW b \in DOMAIN bytes
  PROVE  b \in Stored
<1>1. PICK n \in 0 .. MaxBytes : bytes \in [0 .. n - 1 -> Values]
  BY DEF Contents
<1>2. b \in 0 .. n - 1
  BY <1>1
<1> QED BY <1>1, <1>2, LargestSize DEF Stored

LEMMA ToldStarts ==
  ASSUME StoreInv, ToldInv, NEW cfg \in Configs, Start(cfg)
  PROVE  ToldInv'
<1>1. PICK r \in BackendCreate(cfg, medium) : backend' = r[1] /\ medium' = r[2]
  BY DEF Start
<1>2. /\ cfg.kind = kind /\ kind' = kind /\ ~ backend.open
      /\ belief' = IF kind = "memory" THEN [b \in Stored |-> {0}] ELSE belief
  BY DEF Start
<1>3. GoodMedium(medium) /\ kind \in Kinds
  BY DEF StoreInv, StoreTypes
<1>4. CASE kind = "memory"
  <2>1. /\ GoodMedium(r[2])
        /\ \/ ~ r[1].open /\ r[2] = medium
           \/ r[1].open /\ \A b \in DOMAIN r[2].bytes : r[2].bytes[b] = 0
    BY <1>2, <1>3, <1>4, MemoryCreated
  <2>2. ~ medium.exists
    BY <1>2, <1>4 DEF ToldInv, MemoryGone
  <2>3. MediumIsAsTold'
    <3>1. ASSUME r[2].exists, NEW b \in DOMAIN r[2].bytes PROVE r[2].bytes[b] \in belief'[b]
      <4>1. b \in Stored
        BY <2>1, <3>1, ContentsAreStored DEF GoodMedium
      <4> QED BY <1>2, <1>4, <2>1, <2>2, <3>1, <4>1
    <3> QED BY <1>1, <3>1 DEF MediumIsAsTold
  <2>4. Unwritten' /\ MemoryGone'
    BY <1>1, <1>2, <1>4, <2>1, <2>2 DEF Unwritten, MemoryGone
  <2> QED BY <2>3, <2>4 DEF ToldInv
<1>5. CASE kind = "file"
  <2>1. GoodMedium(r[2]) /\ Grown(r[2], medium)
    BY <1>2, <1>3, <1>5, FileCreated
  <2>2. belief' = belief
    BY <1>2, <1>5
  <2>3. MediumIsAsTold'
    <3>1. ASSUME r[2].exists, NEW b \in DOMAIN r[2].bytes PROVE r[2].bytes[b] \in belief[b]
      <4>1. b \in Stored
        BY <2>1, <3>1, ContentsAreStored DEF GoodMedium
      <4>2. CASE medium.exists /\ b \in DOMAIN medium.bytes
        BY <2>1, <4>2 DEF Grown, ToldInv, MediumIsAsTold
      <4>3. CASE ~ (medium.exists /\ b \in DOMAIN medium.bytes)
        <5>1. r[2].bytes[b] \in {0, Junk}
          BY <2>1, <3>1, <4>3 DEF Grown
        <5>2. 0 \in belief[b] /\ Junk \in belief[b]
          BY <1>5, <4>1, <4>3 DEF ToldInv, Unwritten
        <5> QED BY <5>1, <5>2
      <4> QED BY <4>2, <4>3
    <3> QED BY <1>1, <2>2, <3>1 DEF MediumIsAsTold
  <2>4. Unwritten'
    <3>1. ASSUME NEW b \in Stored, ~ (r[2].exists /\ b \in DOMAIN r[2].bytes)
          PROVE  ~ (medium.exists /\ b \in DOMAIN medium.bytes)
      BY <2>1, <3>1 DEF Grown
    <3>2. \A b \in Stored : ~ (r[2].exists /\ b \in DOMAIN r[2].bytes) => 0 \in belief[b] /\ Junk \in belief[b]
      BY <1>5, <3>1 DEF ToldInv, Unwritten
    <3> QED BY <1>1, <2>2, <3>2 DEF Unwritten
  <2>5. MemoryGone'
    BY <1>2, <1>5 DEF MemoryGone
  <2> QED BY <2>3, <2>4, <2>5 DEF ToldInv
<1> QED BY <1>3, <1>4, <1>5 DEF Kinds

(* A change of the medium that its outcome describes is told rightly.      *)
LEMMA ToldChanged ==
  ASSUME StoreInv, ToldInv, backend.open, NEW q, NEW outcomes, NEW slba, slba * BlockSize \in Nat,
         NEW size \in Nat, slba * BlockSize + size <= backend.size, NEW E \in SUBSET (0 .. size - 1),
         NEW asked \in [E -> Values],
         \A r \in outcomes : Outcome(r, Bytes, slba * BlockSize, asked) /\ (r.ok => ~ backend.readOnly),
         Change(q, outcomes, slba, asked)
  PROVE  ToldInv'
<1>1. PICK at : at = slba * BlockSize
  OBVIOUS
<1>2. at \in Nat /\ at + size <= backend.size /\ backend.size \in Nat
  BY <1>1, LargestSize DEF StoreInv, StoreTypes, BackendType
<1>3. PICK r, status :
        /\ r \in outcomes
        /\ status = "SUCCESS" <=> r.ok
        /\ Conclude(slba, asked, status)
        /\ kind' = kind
        /\ \/ medium' = Medium(r.bytes) /\ backend' = backend
           \/ medium' = IF kind = "memory" THEN NoFile ELSE Medium(r.bytes)
  BY DEF Change, Gone
<1>4. PICK n \in 0 .. MaxBytes : Bytes \in [0 .. n - 1 -> Values]
  BY DEF StoreInv, StoreTypes, BackendFits, GoodMedium, Contents, Bytes
<1>5. DOMAIN Bytes = 0 .. n - 1 /\ Bytes = medium.bytes /\ medium.exists /\ n \in Nat
  BY <1>4, LargestSize DEF Bytes, StoreInv, BackendFits
<1>6. /\ r.bytes \in [0 .. n - 1 -> Values]
      /\ PartOf(r.bytes, Bytes, at, asked)
      /\ r.ok => AllOf(r.bytes, Bytes, at, asked) /\ ~ backend.readOnly
  BY <1>1, <1>3, <1>5 DEF Outcome
<1>7. ASSUME NEW b \in Stored
      PROVE  belief'[b] = IF b < at \/ b - at \notin E THEN belief[b]
                          ELSE IF status = "SUCCESS" THEN {asked[b - at]} ELSE belief[b] \cup {asked[b - at]}
  BY <1>1, <1>3 DEF Conclude
<1>8. Stored \subseteq Nat /\ \A b \in 0 .. n - 1 : b \in Stored /\ b \in Nat
  BY <1>4, <1>5, LargestSize DEF Stored
<1>9. ASSUME NEW b \in 0 .. n - 1 PROVE r.bytes[b] \in belief'[b]
  <2>1. b \in Stored /\ b \in Nat /\ medium.bytes[b] \in belief[b]
    BY <1>5, <1>8 DEF ToldInv, MediumIsAsTold
  <2>2. r.bytes[b] = medium.bytes[b] \/ (b >= at /\ b - at \in E /\ r.bytes[b] = asked[b - at])
    BY <1>5, <1>6 DEF PartOf
  <2>3. r.ok /\ b >= at /\ b - at \in E => r.bytes[b] = asked[b - at]
    BY <1>5, <1>6 DEF AllOf
  <2>4. b >= at <=> ~ (b < at)
    BY <1>2, <2>1
  <2> QED BY <1>3, <1>7, <2>1, <2>2, <2>3, <2>4
<1>10. ASSUME kind = "file", NEW b \in Stored, b \notin 0 .. n - 1
       PROVE  0 \in belief'[b] /\ Junk \in belief'[b]
  <2>1. 0 \in belief[b] /\ Junk \in belief[b]
    BY <1>5, <1>10 DEF ToldInv, Unwritten
  <2>2. ~ (status = "SUCCESS" /\ ~ (b < at \/ b - at \notin E))
    <3> SUFFICES ASSUME r.ok, ~ (b < at), b - at \in E PROVE FALSE
      BY <1>3
    <3>1. b \in 0 .. backend.size - 1
      <4>1. b \in Nat /\ b - at \in 0 .. size - 1
        BY <1>8
      <4> QED BY <1>2, <4>1
    <3>2. 0 .. backend.size - 1 \subseteq 0 .. n - 1
      BY <1>5, <1>6 DEF StoreInv, BackendFits, Backed
    <3> QED BY <1>10, <3>1, <3>2
  <2> QED BY <1>7, <2>1, <2>2
<1>11. Medium(r.bytes).bytes = r.bytes /\ Medium(r.bytes).exists /\ DOMAIN r.bytes = 0 .. n - 1
  BY <1>6, MediumIsMedium
<1>12. MediumIsAsTold'
  BY <1>3, <1>9, <1>11 DEF MediumIsAsTold, NoFile
<1>13. Unwritten'
  <2> SUFFICES ASSUME kind = "file", NEW b \in Stored, ~ (medium'.exists /\ b \in DOMAIN medium'.bytes)
               PROVE  0 \in belief'[b] /\ Junk \in belief'[b]
    BY <1>3 DEF Unwritten
  <2>1. medium' = Medium(r.bytes)
    BY <1>3
  <2> QED BY <1>10, <1>11, <2>1
<1>14. MemoryGone'
  BY <1>3 DEF MemoryGone, NoFile
<1> QED BY <1>12, <1>13, <1>14 DEF ToldInv

LEMMA ToldWrites ==
  ASSUME Counted, StoreInv, ToldInv, backend.open, NEW q, NEW nsid, NEW slba \in Slbas, NEW raw \in RawNlbs,
         IoCmdWrite(q, nsid, slba, raw) \/ IoCmdWriteZeroes(q, nsid, slba, raw), ~ NoEffect
  PROVE  ToldInv'
<1>1. Nlb(raw) = raw + 1
  BY NlbIs DEF Counted
<1>2. PICK outcomes, new, length :
        /\ length = Nlb(raw) * BlockSize /\ Refusal(nsid, slba, Nlb(raw)) = "NONE"
        /\ new = Prefix(dataBuffer, length) \/ new = Zeroes(length)
        /\ Change(q, outcomes, slba, new)
        /\ \A r \in outcomes : Outcome(r, Bytes, slba * BlockSize, new) /\ (r.ok => ~ backend.readOnly)
  BY <1>1, CommandWrites
<1>3. slba * BlockSize \in Nat /\ length \in Nat /\ slba * BlockSize + length <= backend.size
  BY <1>2, CommandInRange
<1>4. \E E \in SUBSET (0 .. length - 1) : new \in [E -> Values]
  <2>1. CASE new = Zeroes(length)
    BY <2>1, ZeroesType
  <2>2. CASE new = Prefix(dataBuffer, length)
    <3>1. PICK E : E = {k \in 0 .. BufferSize - 1 : k < length}
      OBVIOUS
    <3>2. dataBuffer \in [0 .. BufferSize - 1 -> Values]
      BY DEF StoreInv, StoreTypes
    <3>3. new \in [E -> Values]
      BY <2>2, <3>1, <3>2, BufferPrefix, Zenon
    <3>4. E \in SUBSET (0 .. length - 1)
      BY <1>3, <3>1, ServerAssumption
    <3> QED BY <3>3, <3>4
  <2> QED BY <1>2, <2>1, <2>2
<1>5. PICK E \in SUBSET (0 .. length - 1) : new \in [E -> Values]
  BY <1>4
<1> QED BY <1>2, <1>3, <1>5, ToldChanged

LEMMA SameTold ==
  ASSUME ToldInv, UNCHANGED Content
  PROVE  ToldInv'
  BY DEF ToldInv, MediumIsAsTold, Unwritten, MemoryGone, Content

LEMMA ToldStep ==
  ASSUME Counted, StoreInv, ToldInv, [Next]_vars
  PROVE  ToldInv'
<1>1. ASSUME End PROVE ToldInv'
  <2>1. /\ medium' = IF kind = "memory" THEN NoFile ELSE medium
        /\ UNCHANGED <<kind, belief>>
    BY <1>1 DEF End, Gone
  <2> QED BY <2>1 DEF ToldInv, MediumIsAsTold, Unwritten, MemoryGone, NoFile
<1>2. ASSUME CmdEngineProcessAdminCommand \/ UNCHANGED vars \/ NoEffect PROVE ToldInv'
  BY <1>2, SameTold, AdminKeepsContent DEF NoEffect, Content, vars
<1>3. ASSUME NEW q, backend.open, IoCmdProcess(q) PROVE ToldInv'
  <2>1. ASSUME NEW nsid, NEW slba, NEW raw, IoCmdRead(q, nsid, slba, raw) PROVE UNCHANGED Content
    BY <2>1 DEF IoCmdRead, NoEffect
  <2>2. ASSUME IoCmdFlush(q) \/ IoCmdDatasetManagement(q) PROVE NoEffect
    BY <2>2 DEF IoCmdFlush, IoCmdDatasetManagement
  <2> QED BY <1>2, <1>3, <2>1, <2>2, SameTold, ToldWrites DEF IoCmdProcess
<1> QED BY <1>1, <1>2, <1>3, ToldStarts DEF Next

LEMMA ToldInit == Init => ToldInv
  BY DEF Init, ToldInv, MediumIsAsTold, Unwritten, MemoryGone, NoFile

(* IoCmdWrite, IoCmdWriteZeroes and the backends: for any medium and any   *)
(* sizes, over failures in the middle of a write, deaths of the process    *)
(* and restarts, every byte has the value of the last successful command   *)
(* that named it or of a later one that did not succeed, as long as no     *)
(* command asks for the 65536 blocks that become 0.                        *)
THEOREM MediumIsAsToldCorrect ==
  ASSUME Counted
  PROVE  Spec => []MediumIsAsTold
<1>1. Init => StoreInv /\ ToldInv
  BY StoreInit, ToldInit
<1>2. StoreInv /\ ToldInv /\ [Next]_vars => StoreInv' /\ ToldInv'
  BY StoreStep, ToldStep
<1>3. ToldInv => MediumIsAsTold
  BY DEF ToldInv
<1> QED BY <1>1, <1>2, <1>3, PTL DEF Spec

-----------------------------------------------------------------------------
(* What a Read delivers *)

LEMMA ReadDelivered ==
  ASSUME Counted, Buffered, StoreInv, ToldInv, backend.open, NEW q, NEW nsid, NEW slba \in Slbas,
         NEW raw \in RawNlbs, IoCmdRead(q, nsid, slba, raw)
  PROVE  ReadFillsBuffer'
<1> DEFINE length == Nlb(raw) * BlockSize
<1> DEFINE at == slba * BlockSize
<1>1. Nlb(raw) = raw + 1 /\ length <= BufferSize
  BY NlbIs DEF Counted, Buffered
<1>2. ASSUME NEW status, IoCmdPostCompletion(q, Reply(status)) PROVE ReadFillsBuffer'
  BY <1>2 DEF IoCmdPostCompletion, Reply, ReadFillsBuffer
<1>3. ASSUME Refusal(nsid, slba, Nlb(raw)) = "NONE",
             NEW r \in BackendRead(backend, Bytes, at, length), r.ok,
             IoCmdPostCompletion(q, Delivered(slba, raw)),
             dataBuffer' = [k \in DOMAIN dataBuffer |-> IF k \in DOMAIN r.bytes THEN r.bytes[k] ELSE dataBuffer[k]],
             UNCHANGED Content
      PROVE  ReadFillsBuffer'
  <2>1. at \in Nat /\ length \in Nat /\ at + length <= backend.size
    BY <1>3, CommandInRange
  <2>2. delivered' = <<slba, raw>>
    BY <1>3 DEF IoCmdPostCompletion, Delivered
  <2>3. belief' = belief /\ medium.exists /\ GoodMedium(medium)
    BY <1>3 DEF Content, StoreInv, StoreTypes, BackendFits
  <2>4. (raw + 1) * BlockSize = length
    BY <1>1
  <2>5. DOMAIN dataBuffer = 0 .. BufferSize - 1 /\ BufferSize \in Nat
    BY ServerAssumption DEF StoreInv, StoreTypes
  <2> HIDE DEF at, length
  <2>6. /\ DOMAIN r.bytes = 0 .. length - 1
        /\ \A k \in 0 .. length - 1 : at + k \in DOMAIN Bytes /\ r.bytes[k] = Bytes[at + k]
    BY <1>3, <2>1, ReadOutcome
  <2>7. ASSUME NEW k \in 0 .. length - 1
        PROVE  at + k \in Stored /\ dataBuffer'[k] \in belief'[at + k]
    <3>1. at + k \in DOMAIN medium.bytes /\ r.bytes[k] = medium.bytes[at + k]
      BY <2>6 DEF Bytes
    <3>2. medium.bytes[at + k] \in belief[at + k]
      BY <2>3, <3>1 DEF ToldInv, MediumIsAsTold
    <3>3. at + k \in Stored
      BY <2>3, <3>1, ContentsAreStored DEF GoodMedium
    <3>4. k \in 0 .. BufferSize - 1
      BY <1>1, <2>1, <2>5
    <3>5. dataBuffer'[k] = r.bytes[k]
      BY <1>3, <2>5, <2>6, <3>4
    <3> QED BY <2>3, <3>1, <3>2, <3>3, <3>5
  <2> QED BY <2>2, <2>4, <2>7 DEF ReadFillsBuffer, at
<1>4. ~ (length > BufferSize)
  <2>1. length \in Nat /\ BufferSize \in Nat
    <3>1. Nlb(raw) \in Nat /\ BlockSize \in Nat
      BY NlbIs, WidthAssumption, BackendAssumption
    <3> QED BY <3>1, ServerAssumption
  <2> QED BY <1>1, <2>1
<1> QED BY <1>2, <1>3, <1>4, ReadShape

LEMMA ReadStep ==
  ASSUME Counted, Buffered, StoreInv, ToldInv, ReadFillsBuffer, [Next]_vars
  PROVE  ReadFillsBuffer'
<1>1. ASSUME delivered' = None PROVE ReadFillsBuffer'
  BY <1>1 DEF ReadFillsBuffer
<1>2. ASSUME NEW q, NEW status, IoCmdPostCompletion(q, Reply(status)) PROVE ReadFillsBuffer'
  BY <1>2 DEF IoCmdPostCompletion, Reply, ReadFillsBuffer
<1>3. ASSUME UNCHANGED vars PROVE ReadFillsBuffer'
  BY <1>3 DEF vars, ReadFillsBuffer
<1>4. ASSUME \/ \E cfg \in Configs : Start(cfg)
             \/ End \/ CmdEngineProcessAdminCommand
      PROVE  delivered' = None
  BY <1>4 DEF Start, End, Gone, CmdEngineProcessAdminCommand
<1>5. ASSUME NEW q, backend.open, IoCmdProcess(q) PROVE ReadFillsBuffer'
  <2>1. ASSUME NEW outcomes, NEW slba, NEW asked, Change(q, outcomes, slba, asked)
        PROVE  delivered' = None \/ \E status : IoCmdPostCompletion(q, Reply(status))
    BY <1>5, <2>1 DEF Change, Gone
  <2>2. ASSUME NEW nsid, NEW slba, NEW raw,
               IoCmdWrite(q, nsid, slba, raw) \/ IoCmdWriteZeroes(q, nsid, slba, raw)
        PROVE  delivered' = None \/ \E status : IoCmdPostCompletion(q, Reply(status))
    BY <2>1, <2>2 DEF IoCmdWrite, IoCmdWriteZeroes
  <2>3. ASSUME IoCmdFlush(q) \/ IoCmdDatasetManagement(q)
        PROVE  \E status : IoCmdPostCompletion(q, Reply(status))
    BY <2>3 DEF IoCmdFlush, IoCmdDatasetManagement
  <2> QED BY <1>1, <1>2, <1>5, <2>2, <2>3, ReadDelivered DEF IoCmdProcess
<1> QED BY <1>1, <1>3, <1>4, <1>5 DEF Next

(* IoCmdRead: for any sizes, a successful Read leaves every byte it was    *)
(* asked for in the data buffer as it was stored, as long as no count      *)
(* becomes 0 and the buffer holds the longest transfer.                    *)
THEOREM ReadFillsBufferCorrect ==
  ASSUME Counted, Buffered
  PROVE  Spec => []ReadFillsBuffer
<1>1. Init => StoreInv /\ ToldInv /\ ReadFillsBuffer
  BY StoreInit, ToldInit DEF Init, ReadFillsBuffer
<1>2. StoreInv /\ ToldInv /\ ReadFillsBuffer /\ [Next]_vars => StoreInv' /\ ToldInv' /\ ReadFillsBuffer'
  BY StoreStep, ToldStep, ReadStep
<1> QED BY <1>1, <1>2, PTL DEF Spec
=============================================================================
