-------------------------- MODULE KernelQueues_proofs --------------------------
(***************************************************************************)
(* Proofs about the driver's queue tables, for any number of queues, any   *)
(* queue sizes and any number of event requests.                           *)
(***************************************************************************)
EXTENDS KernelQueues, TLAPS

USE QueuesAssumption, AerAssumption, WidthAssumption, FieldAssumption

(* The size field is 16 bits wide and so is the size computed from it. *)
LEMMA QSizeRange == \A raw \in RawSizes : QSize(raw) \in 0 .. Width - 1
  BY DEF QSize

(* The handlers, the host and the scan preserve the shape of the tables. *)
LEMMA TypeStep == TypeOK /\ [Next]_vars => TypeOK'
<1> SUFFICES ASSUME TypeOK, [Next]_vars PROVE TypeOK'
  OBVIOUS
<1> USE DEF TypeOK
<1>1. ASSUME NEW qid \in AnyQid, NEW raw \in RawSizes, HandleCreateIoCq(qid, QSize(raw))
      PROVE  TypeOK'
  <2>1. CreateIoCqStatus(qid, QSize(raw)) \in Statuses
    BY DEF CreateIoCqStatus, Statuses
  <2>2. CASE CreateIoCqStatus(qid, QSize(raw)) = "SUCCESS"
    <3>1. qid \in Qids /\ QSize(raw) >= 2 /\ QSize(raw) \in 0 .. Width - 1
      BY <2>2, QSizeRange DEF CreateIoCqStatus
    <3>2. IoCq' = [IoCq EXCEPT ![qid] = [Created |-> TRUE, Size |-> QSize(raw)]]
      BY <1>1, <2>2 DEF HandleCreateIoCq
    <3>3. [Created |-> TRUE, Size |-> QSize(raw)] \in CqEntry
      BY <3>1 DEF CqEntry
    <3>4. IoCq' \in [Qids -> CqEntry] /\ \A q \in Qids : IoCq'[q].Created => IoCq'[q].Size >= 2
      BY <3>1, <3>2, <3>3
    <3> QED
      BY <1>1, <2>1, <3>4 DEF HandleCreateIoCq
  <2>3. CASE CreateIoCqStatus(qid, QSize(raw)) # "SUCCESS"
    BY <1>1, <2>1, <2>3 DEF HandleCreateIoCq
  <2> QED
    BY <2>2, <2>3
<1>2. ASSUME NEW qid \in AnyQid, NEW cqid \in AnyQid, NEW raw \in RawSizes,
             HandleCreateIoSq(qid, QSize(raw), cqid)
      PROVE  TypeOK'
  <2>1. CreateIoSqStatus(qid, QSize(raw), cqid) \in Statuses
    BY DEF CreateIoSqStatus, Statuses
  <2>2. CASE CreateIoSqStatus(qid, QSize(raw), cqid) = "SUCCESS"
    <3> DEFINE entry == [Created |-> TRUE, CqId |-> cqid, Size |-> QSize(raw), Tail |-> 0]
    <3>1. qid \in Qids /\ cqid \in Qids /\ QSize(raw) >= 2 /\ QSize(raw) \in 0 .. Width - 1
      BY <2>2, QSizeRange DEF CreateIoSqStatus
    <3>2. IoSq' = [IoSq EXCEPT ![qid] = entry]
      BY <1>2, <2>2 DEF HandleCreateIoSq
    <3>3. entry \in SqEntry
      BY <3>1 DEF SqEntry, Qids
    <3>4. IoSq' \in [Qids -> SqEntry] /\ \A q \in Qids : IoSq'[q].Created => IoSq'[q].Size >= 2
      BY <3>1, <3>2, <3>3
    <3>5. IoQueueCount' \in 0 .. MaxIoQueues
      BY <1>2, <3>1 DEF HandleCreateIoSq, Qids
    <3> QED
      BY <1>2, <2>1, <3>4, <3>5 DEF HandleCreateIoSq
  <2>3. CASE CreateIoSqStatus(qid, QSize(raw), cqid) # "SUCCESS"
    BY <1>2, <2>1, <2>3 DEF HandleCreateIoSq
  <2> QED
    BY <2>2, <2>3
<1>3. ASSUME NEW qid \in AnyQid, HandleDeleteIoCq(qid) PROVE TypeOK'
  <2>1. DeleteIoCqStatus(qid) \in Statuses
    BY DEF DeleteIoCqStatus, Statuses
  <2>2. ZeroCq \in CqEntry /\ ~ ZeroCq.Created
    BY DEF ZeroCq, CqEntry
  <2>3. IoCq' \in [Qids -> CqEntry] /\ \A q \in Qids : IoCq'[q].Created => IoCq'[q].Size >= 2
    BY <1>3, <2>2 DEF HandleDeleteIoCq
  <2> QED
    BY <1>3, <2>1, <2>3 DEF HandleDeleteIoCq
<1>4. ASSUME NEW qid \in AnyQid, HandleDeleteIoSq(qid) PROVE TypeOK'
  <2>1. DeleteIoSqStatus(qid) \in Statuses
    BY DEF DeleteIoSqStatus, Statuses
  <2>2. ZeroSq \in SqEntry /\ ~ ZeroSq.Created
    BY DEF ZeroSq, SqEntry
  <2>3. IoSq' \in [Qids -> SqEntry] /\ \A q \in Qids : IoSq'[q].Created => IoSq'[q].Size >= 2
    BY <1>4, <2>2 DEF HandleDeleteIoSq
  <2> QED
    BY <1>4, <2>1, <2>3 DEF HandleDeleteIoSq
<1>5. ASSUME NEW ncqr \in RawCounts, NEW nsqr \in RawCounts, SetNumberOfQueues(ncqr, nsqr)
      PROVE  TypeOK'
  BY <1>5 DEF SetNumberOfQueues, Least, Statuses
<1>6. CASE HandleReadOnly
  BY <1>6 DEF HandleReadOnly, Statuses
<1>7. ASSUME NEW cid \in Cids \ waiting, HandleAsyncEventRequest(cid) PROVE TypeOK'
  <2>1. CASE Len(AerCids) >= MaxAer
    BY <1>7, <2>1 DEF HandleAsyncEventRequest, Post, Statuses
  <2>2. CASE ~ (Len(AerCids) >= MaxAer)
    <3>a. AerCids' = Append(AerCids, cid) /\ waiting' = waiting \cup {cid} /\ lost' = lost
      BY <1>7, <2>2 DEF HandleAsyncEventRequest
    <3>b. Append(AerCids, cid) \in Seq(Cids)
      OBVIOUS
    <3>1. AerCids' \in Seq(Cids) /\ waiting' \subseteq Cids /\ lost' \subseteq Cids
      BY <3>a, <3>b
    <3>2. answer' \in Statuses
      BY <1>7, <2>2 DEF HandleAsyncEventRequest, Statuses
    <3> QED
      BY <1>7, <3>1, <3>2 DEF HandleAsyncEventRequest
  <2> QED
    BY <2>1, <2>2
<1>8. CASE VnvmeCompleteAer
  BY <1>8 DEF VnvmeCompleteAer, Post, Statuses
<1>9. ASSUME NEW qid \in Qids, NEW raw \in RawSizes, HostRings(qid, raw) PROVE TypeOK'
  BY <1>9 DEF HostRings
<1>10. CASE ScanIoDoorbells
  <2>1. \A q \in Qids : [IoSq[q] EXCEPT !.Tail = Doorbells[q]] \in SqEntry
    BY DEF SqEntry
  <2>2. IoSq' \in [Qids -> SqEntry] /\ \A q \in Qids : IoSq'[q].Created => IoSq'[q].Size >= 2
    BY <1>10, <2>1 DEF ScanIoDoorbells, SqEntry
  <2> QED
    BY <1>10, <2>2 DEF ScanIoDoorbells
<1>11. CASE UNCHANGED vars
  BY <1>11 DEF vars
<1> QED
  BY <1>1, <1>2, <1>3, <1>4, <1>5, <1>6, <1>7, <1>8, <1>9, <1>10, <1>11
  DEF Next, VnvmeProcessAdminCommand

(* Whatever size field the host sends, a queue that exists has at least    *)
(* two entries, and every table keeps its shape.                           *)
THEOREM TypeCorrect == Spec => []TypeOK
<1>1. Init => TypeOK
  BY DEF Init, TypeOK, Statuses, ZeroSq, ZeroCq, SqEntry, CqEntry
<1> QED
  BY <1>1, TypeStep, PTL DEF Spec

-----------------------------------------------------------------------------
(* The inductive invariant behind the two safety invariants of the tables. *)
(* BoundCqExists alone is not inductive: the handlers compare queue        *)
(* identifiers, so the types are needed as well.                           *)
TableInv == TypeOK /\ BoundCqExists /\ ScanReachesEveryQueue

(* Every step of the driver and of the host keeps the tables consistent. *)
LEMMA TableStep == TableInv /\ [Next]_vars => TableInv'
<1> SUFFICES ASSUME TypeOK, BoundCqExists, ScanReachesEveryQueue, [Next]_vars
             PROVE  BoundCqExists' /\ ScanReachesEveryQueue'
  BY TypeStep DEF TableInv
<1> USE DEF BoundCqExists, ScanReachesEveryQueue
<1>1. ASSUME NEW qid \in AnyQid, NEW raw \in RawSizes, HandleCreateIoCq(qid, QSize(raw))
      PROVE  BoundCqExists' /\ ScanReachesEveryQueue'
  <2>1. \A q \in Qids : IoCq[q].Created => IoCq'[q].Created
    BY <1>1 DEF HandleCreateIoCq, TypeOK
  <2> QED
    BY <1>1, <2>1 DEF HandleCreateIoCq
<1>2. ASSUME NEW qid \in AnyQid, NEW cqid \in AnyQid, NEW raw \in RawSizes,
             HandleCreateIoSq(qid, QSize(raw), cqid)
      PROVE  BoundCqExists' /\ ScanReachesEveryQueue'
  <2>1. CASE CreateIoSqStatus(qid, QSize(raw), cqid) = "SUCCESS"
    <3>1. qid \in Qids /\ cqid \in Qids /\ IoCq[cqid].Created
      BY <2>1 DEF CreateIoSqStatus
    <3>2. /\ IoSq' = [IoSq EXCEPT ![qid] = [Created |-> TRUE, CqId |-> cqid,
                                            Size |-> QSize(raw), Tail |-> 0]]
          /\ IoCq' = IoCq
          /\ IoQueueCount' = IF IoQueueCount < qid THEN qid ELSE IoQueueCount
      BY <1>2, <2>1 DEF HandleCreateIoSq
    <3>3. IoQueueCount' >= qid /\ IoQueueCount' >= IoQueueCount /\ IoQueueCount' \in Nat
      BY <3>1, <3>2 DEF TypeOK, Qids
    <3>4. \A q \in Qids : IoSq'[q] = IF q = qid
                                     THEN [Created |-> TRUE, CqId |-> cqid,
                                           Size |-> QSize(raw), Tail |-> 0]
                                     ELSE IoSq[q]
      BY <3>1, <3>2 DEF TypeOK
    <3>5. BoundCqExists'
      BY <3>1, <3>2, <3>4
    <3>6. ASSUME NEW q \in Qids, IoSq'[q].Created PROVE q <= IoQueueCount'
      <4>1. q = qid \/ (q <= IoQueueCount /\ IoQueueCount \in Nat /\ q \in Nat)
        BY <3>4, <3>6 DEF TypeOK, Qids
      <4> QED
        BY <3>3, <4>1 DEF AnyQid
    <3> QED
      BY <3>5, <3>6
  <2>2. CASE CreateIoSqStatus(qid, QSize(raw), cqid) # "SUCCESS"
    BY <1>2, <2>2 DEF HandleCreateIoSq
  <2> QED
    BY <2>1, <2>2
<1>3. ASSUME NEW qid \in AnyQid, HandleDeleteIoCq(qid)
      PROVE  BoundCqExists' /\ ScanReachesEveryQueue'
  <2>1. CASE DeleteIoCqStatus(qid) = "SUCCESS"
    <3>1. qid \in Qids /\ \A s \in Qids : IoSq[s].Created => IoSq[s].CqId # qid
      BY <2>1 DEF DeleteIoCqStatus
    <3>2. IoCq' = [IoCq EXCEPT ![qid] = ZeroCq] /\ IoSq' = IoSq /\ IoQueueCount' = IoQueueCount
      BY <1>3, <2>1 DEF HandleDeleteIoCq
    <3>3. \A q \in Qids : q # qid => IoCq'[q] = IoCq[q]
      BY <3>2 DEF TypeOK
    <3> QED
      BY <3>1, <3>2, <3>3
  <2>2. CASE DeleteIoCqStatus(qid) # "SUCCESS"
    BY <1>3, <2>2 DEF HandleDeleteIoCq
  <2> QED
    BY <2>1, <2>2
<1>4. ASSUME NEW qid \in AnyQid, HandleDeleteIoSq(qid)
      PROVE  BoundCqExists' /\ ScanReachesEveryQueue'
  <2>1. \A q \in Qids : IoSq'[q] = IoSq[q] \/ ~ IoSq'[q].Created
    BY <1>4 DEF HandleDeleteIoSq, ZeroSq, TypeOK
  <2>2. IoCq' = IoCq /\ IoQueueCount' = IoQueueCount
    BY <1>4 DEF HandleDeleteIoSq
  <2> QED
    BY <2>1, <2>2
<1>5. CASE ScanIoDoorbells
  <2>1. \A q \in Qids : IoSq'[q].Created = IoSq[q].Created /\ IoSq'[q].CqId = IoSq[q].CqId
    BY <1>5 DEF ScanIoDoorbells, TypeOK, SqEntry
  <2>2. IoCq' = IoCq /\ IoQueueCount' = IoQueueCount
    BY <1>5 DEF ScanIoDoorbells
  <2> QED
    BY <2>1, <2>2
<1>6. CASE UNCHANGED <<IoSq, IoCq, IoQueueCount>>
  BY <1>6
<1> QED
  BY <1>1, <1>2, <1>3, <1>4, <1>5, <1>6
  DEF Next, VnvmeProcessAdminCommand, SetNumberOfQueues, HandleReadOnly, HandleAsyncEventRequest,
      VnvmeCompleteAer, HostRings, vars

-----------------------------------------------------------------------------
(* Parked event requests *)

(* Parking and completing event requests keeps the array and what the host *)
(* waits for in step.                                                      *)
LEMMA AerStep == TypeOK /\ AersAreWaitedFor /\ [Next]_vars => AersAreWaitedFor'
<1> SUFFICES ASSUME TypeOK, AersAreWaitedFor, [Next]_vars PROVE AersAreWaitedFor'
  OBVIOUS
<1> USE DEF AersAreWaitedFor
<1>1. ASSUME NEW cid \in Cids \ waiting, HandleAsyncEventRequest(cid) PROVE AersAreWaitedFor'
  <2>1. CASE Len(AerCids) >= MaxAer
    <3>1. AerCids' = AerCids /\ waiting' \ lost' = waiting \ lost /\ lost' \subseteq waiting'
      BY <1>1, <2>1 DEF HandleAsyncEventRequest, Post
    <3> QED
      BY <3>1
  <2>2. CASE ~ (Len(AerCids) >= MaxAer)
    <3>1. AerCids' = Append(AerCids, cid) /\ waiting' = waiting \cup {cid} /\ lost' = lost
      BY <1>1, <2>2 DEF HandleAsyncEventRequest
    <3>2. /\ Len(AerCids) \in Nat
          /\ Len(AerCids') = Len(AerCids) + 1
          /\ \A i \in 1 .. Len(AerCids) : AerCids'[i] = AerCids[i]
          /\ AerCids'[Len(AerCids) + 1] = cid
      BY <3>1 DEF TypeOK
    <3>3. Len(AerCids') <= MaxAer
      BY <2>2, <3>2
    <3>4. \A i \in 1 .. Len(AerCids) : AerCids[i] # cid
      BY <1>1
    <3>5. {AerCids'[i] : i \in 1 .. Len(AerCids')} = waiting' \ lost'
      <4>1. waiting' \ lost' = (waiting \ lost) \cup {cid}
        BY <1>1, <3>1
      <4> QED
        BY <3>2, <4>1
    <3>6. \A i, j \in 1 .. Len(AerCids') : AerCids'[i] = AerCids'[j] => i = j
      BY <3>2, <3>4
    <3> QED
      BY <3>1, <3>3, <3>5, <3>6
  <2> QED
    BY <2>1, <2>2
<1>2. CASE VnvmeCompleteAer
  <2>1. /\ AerCids # << >>
        /\ AerCids' = Tail(AerCids)
        /\ waiting' \ lost' = (waiting \ lost) \ {AerCids[1]}
        /\ lost' \subseteq waiting'
    <3>1. AerCids # << >> /\ AerCids' = Tail(AerCids) /\ Head(AerCids) = AerCids[1]
      BY <1>2 DEF VnvmeCompleteAer, TypeOK
    <3>2. AerCids[1] \in waiting \ lost
      BY <3>1 DEF TypeOK
    <3> QED
      BY <1>2, <3>1, <3>2 DEF VnvmeCompleteAer, Post
  <2>2. /\ Len(AerCids) \in Nat \ {0}
        /\ Len(AerCids') = Len(AerCids) - 1
        /\ \A i \in 1 .. Len(AerCids) - 1 : AerCids'[i] = AerCids[i + 1]
    BY <2>1 DEF TypeOK
  <2>3. Len(AerCids') <= MaxAer
    BY <2>2
  <2>4. {AerCids'[i] : i \in 1 .. Len(AerCids')} = waiting' \ lost'
    <3>1. \A c \in waiting' \ lost' : \E i \in 1 .. Len(AerCids') : AerCids'[i] = c
      <4> SUFFICES ASSUME NEW c \in waiting' \ lost'
                   PROVE  \E i \in 1 .. Len(AerCids') : AerCids'[i] = c
        OBVIOUS
      <4>1. PICK j \in 1 .. Len(AerCids) : AerCids[j] = c
        BY <2>1
      <4>2. j # 1
        BY <2>1, <4>1
      <4>3. j - 1 \in 1 .. Len(AerCids') /\ AerCids'[j - 1] = c
        BY <2>2, <4>1, <4>2
      <4> QED
        BY <4>3
    <3>2. \A i \in 1 .. Len(AerCids') : AerCids'[i] \in waiting' \ lost'
      BY <2>1, <2>2
    <3> QED
      BY <3>1, <3>2
  <2>5. \A i, j \in 1 .. Len(AerCids') : AerCids'[i] = AerCids'[j] => i = j
    BY <2>2
  <2> QED
    BY <2>1, <2>3, <2>4, <2>5
<1>3. CASE UNCHANGED <<AerCids, waiting, lost>>
  BY <1>3
<1> QED
  BY <1>1, <1>2, <1>3
  DEF Next, VnvmeProcessAdminCommand, HandleCreateIoCq, HandleCreateIoSq, HandleDeleteIoCq,
      HandleDeleteIoSq, SetNumberOfQueues, HandleReadOnly, HostRings, ScanIoDoorbells, vars

(* No event request is answered twice or written past the array, and the   *)
(* only ones lost are those whose completion VnvmePostCompletion refused   *)
(* after VnvmeCompleteAer had taken them out of AerCids.                   *)
THEOREM EventRequestsCorrect == Spec => []AersAreWaitedFor
<1>1. Init => TypeOK /\ AersAreWaitedFor
  <2>1. Init => TypeOK
    BY DEF Init, TypeOK, Statuses, ZeroSq, ZeroCq, SqEntry, CqEntry
  <2> QED
    BY <2>1 DEF Init, AersAreWaitedFor
<1> QED
  BY <1>1, AerStep, TypeStep, PTL DEF Spec

-----------------------------------------------------------------------------
(* The tables are consistent in every reachable state. *)
THEOREM TableCorrect == Spec => []TableInv
<1>1. Init => TableInv
  <2>1. Init => TypeOK
    BY DEF Init, TypeOK, Statuses, ZeroSq, ZeroCq, SqEntry, CqEntry
  <2> QED
    BY <2>1 DEF Init, TableInv, BoundCqExists, ScanReachesEveryQueue, ZeroSq
<1> QED
  BY <1>1, TableStep, PTL DEF Spec

(* A submission queue never outlives the completion queue it posts to. *)
THEOREM CompletionsHaveAQueue == Spec => []BoundCqExists
  BY TableCorrect, PTL DEF TableInv

(* No queue is out of reach of the loops that stop at IoQueueCount. *)
THEOREM NoQueueIsSkipped == Spec => []ScanReachesEveryQueue
  BY TableCorrect, PTL DEF TableInv
-----------------------------------------------------------------------------
(* The handlers implement the queue table *)

(* Deleting a queue, creating one or doing neither is a step of the table. *)
LEMMA RefinementStep == TableInv /\ [Next]_vars => [Table!Next]_(Table!vars)
<1> SUFFICES ASSUME TypeOK, BoundCqExists, [Next]_vars
             PROVE  Table!Next \/ UNCHANGED Table!vars
  BY DEF TableInv
<1> DEFINE cqs == {q \in Qids : IoCq[q].Created}
           cqOf == [q \in Qids |-> IF IoSq[q].Created THEN IoSq[q].CqId ELSE 0]
<1> USE DEF Table!vars
<1>1. ASSUME NEW qid \in AnyQid, NEW raw \in RawSizes, HandleCreateIoCq(qid, QSize(raw))
      PROVE  Table!Next \/ UNCHANGED Table!vars
  <2>1. CASE CreateIoCqStatus(qid, QSize(raw)) = "SUCCESS"
    <3>1. qid \in Qids /\ ~ IoCq[qid].Created
      BY <2>1 DEF CreateIoCqStatus
    <3>2. IoCq' = [IoCq EXCEPT ![qid] = [Created |-> TRUE, Size |-> QSize(raw)]] /\ IoSq' = IoSq
      BY <1>1, <2>1 DEF HandleCreateIoCq
    <3>3. \A q \in Qids : IoCq'[q].Created <=> (q = qid \/ IoCq[q].Created)
      BY <3>1, <3>2 DEF TypeOK
    <3>4. cqs' = cqs \cup {qid} /\ qid \notin cqs /\ cqOf' = cqOf
      BY <3>1, <3>2, <3>3
    <3>5. Table!CreateCq(qid)
      BY <3>4 DEF Table!CreateCq
    <3> QED
      BY <3>1, <3>5 DEF Table!Next
  <2>2. CASE CreateIoCqStatus(qid, QSize(raw)) # "SUCCESS"
    BY <1>1, <2>2 DEF HandleCreateIoCq
  <2> QED
    BY <2>1, <2>2
<1>2. ASSUME NEW qid \in AnyQid, NEW cqid \in AnyQid, NEW raw \in RawSizes,
             HandleCreateIoSq(qid, QSize(raw), cqid)
      PROVE  Table!Next \/ UNCHANGED Table!vars
  <2>1. CASE CreateIoSqStatus(qid, QSize(raw), cqid) = "SUCCESS"
    <3> DEFINE entry == [Created |-> TRUE, CqId |-> cqid, Size |-> QSize(raw), Tail |-> 0]
    <3>1. qid \in Qids /\ cqid \in Qids /\ IoCq[cqid].Created /\ ~ IoSq[qid].Created
      BY <2>1 DEF CreateIoSqStatus
    <3>2. IoSq' = [IoSq EXCEPT ![qid] = entry] /\ IoCq' = IoCq
      BY <1>2, <2>1 DEF HandleCreateIoSq
    <3>3. \A q \in Qids : IoSq'[q] = IF q = qid THEN entry ELSE IoSq[q]
      BY <3>2 DEF TypeOK
    <3>4. cqOf' = [cqOf EXCEPT ![qid] = cqid]
      <4>1. \A q \in Qids : cqOf'[q] = IF q = qid THEN cqid ELSE cqOf[q]
        BY <3>3
      <4> HIDE DEF cqOf
      <4>2. cqOf' = [q \in Qids |-> cqOf'[q]] /\ cqOf = [q \in Qids |-> cqOf[q]]
        BY DEF cqOf
      <4> QED
        BY <3>1, <4>1, <4>2
    <3>5. cqOf[qid] = 0 /\ cqid \in cqs /\ cqs' = cqs
      BY <3>1, <3>2
    <3>6. Table!CreateSq(qid, cqid)
      BY <3>4, <3>5 DEF Table!CreateSq
    <3> QED
      BY <3>1, <3>6 DEF Table!Next
  <2>2. CASE CreateIoSqStatus(qid, QSize(raw), cqid) # "SUCCESS"
    BY <1>2, <2>2 DEF HandleCreateIoSq
  <2> QED
    BY <2>1, <2>2
<1>3. ASSUME NEW qid \in AnyQid, HandleDeleteIoCq(qid)
      PROVE  Table!Next \/ UNCHANGED Table!vars
  <2>1. CASE DeleteIoCqStatus(qid) = "SUCCESS"
    <3>1. /\ qid \in Qids /\ IoCq[qid].Created
          /\ \A s \in Qids : IoSq[s].Created => IoSq[s].CqId # qid
      BY <2>1 DEF DeleteIoCqStatus
    <3>2. IoCq' = [IoCq EXCEPT ![qid] = ZeroCq] /\ IoSq' = IoSq
      BY <1>3, <2>1 DEF HandleDeleteIoCq
    <3>3. \A q \in Qids : IoCq'[q].Created <=> (q # qid /\ IoCq[q].Created)
      BY <3>1, <3>2 DEF TypeOK, ZeroCq
    <3>4. cqs' = cqs \ {qid} /\ qid \in cqs /\ cqOf' = cqOf
      BY <3>1, <3>2, <3>3
    <3>5. \A s \in Qids : cqOf[s] # qid
      BY <3>1 DEF Qids
    <3>6. Table!DeleteCq(qid)
      BY <3>4, <3>5 DEF Table!DeleteCq
    <3> QED
      BY <3>1, <3>6 DEF Table!Next
  <2>2. CASE DeleteIoCqStatus(qid) # "SUCCESS"
    BY <1>3, <2>2 DEF HandleDeleteIoCq
  <2> QED
    BY <2>1, <2>2
<1>4. ASSUME NEW qid \in AnyQid, HandleDeleteIoSq(qid)
      PROVE  Table!Next \/ UNCHANGED Table!vars
  <2>1. CASE DeleteIoSqStatus(qid) = "SUCCESS"
    <3>1. qid \in Qids /\ IoSq[qid].Created
      BY <2>1 DEF DeleteIoSqStatus
    <3>2. IoSq' = [IoSq EXCEPT ![qid] = ZeroSq] /\ IoCq' = IoCq
      BY <1>4, <2>1 DEF HandleDeleteIoSq
    <3>3. \A q \in Qids : IoSq'[q] = IF q = qid THEN ZeroSq ELSE IoSq[q]
      BY <3>2 DEF TypeOK
    <3>4. cqOf' = [cqOf EXCEPT ![qid] = 0]
      <4>1. \A q \in Qids : cqOf'[q] = IF q = qid THEN 0 ELSE cqOf[q]
        BY <3>3 DEF ZeroSq
      <4> HIDE DEF cqOf
      <4>2. cqOf' = [q \in Qids |-> cqOf'[q]] /\ cqOf = [q \in Qids |-> cqOf[q]]
        BY DEF cqOf
      <4> QED
        BY <3>1, <4>1, <4>2
    <3>5. cqOf[qid] # 0 /\ cqs' = cqs
      BY <3>1, <3>2 DEF BoundCqExists, Qids
    <3>6. Table!DeleteSq(qid)
      BY <3>4, <3>5 DEF Table!DeleteSq
    <3> QED
      BY <3>1, <3>6 DEF Table!Next
  <2>2. CASE DeleteIoSqStatus(qid) # "SUCCESS"
    BY <1>4, <2>2 DEF HandleDeleteIoSq
  <2> QED
    BY <2>1, <2>2
<1>5. CASE ScanIoDoorbells
  <2>1. \A q \in Qids : IoSq'[q].Created = IoSq[q].Created /\ IoSq'[q].CqId = IoSq[q].CqId
    BY <1>5 DEF ScanIoDoorbells, TypeOK, SqEntry
  <2>2. cqOf' = cqOf
    BY <2>1
  <2> QED
    BY <1>5, <2>2 DEF ScanIoDoorbells
<1>6. CASE UNCHANGED <<IoSq, IoCq>>
  BY <1>6
<1> QED
  BY <1>1, <1>2, <1>3, <1>4, <1>5, <1>6
  DEF Next, VnvmeProcessAdminCommand, SetNumberOfQueues, HandleReadOnly, HandleAsyncEventRequest,
      VnvmeCompleteAer, HostRings, vars

(* The driver's handlers implement the queue table of the NVMe rules, for  *)
(* any number of queues.                                                   *)
THEOREM ImplementsQueueTable == Spec => IsQueueTable
<1>1. Init => Table!Init
  BY DEF Init, Table!Init, ZeroSq, ZeroCq
<1> QED
  BY <1>1, RefinementStep, TableCorrect, PTL DEF Spec, IsQueueTable, Table!Spec
=============================================================================
