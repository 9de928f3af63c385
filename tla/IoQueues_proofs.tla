--------------------------- MODULE IoQueues_proofs ---------------------------
(***************************************************************************)
(* The driver's two copies of a completion queue agree, and those of a     *)
(* submission queue's head until the abort, for any number and size of     *)
(* queues, whichever host discipline the constants choose.  If every       *)
(* submission queue is created where the doorbell is 0 (Rewound, which the *)
(* caller has to see to: no function of the driver does), the indexes, the *)
(* entries and the phases of each pair of queues are functions of a few    *)
(* counters: the commands issued, forwarded, taken and answered.  From     *)
(* that follow the types, the order of what the host reaps, and that no    *)
(* forwarded command is lost.                                              *)
(***************************************************************************)
EXTENDS IoQueues, Counters, FiniteSets, FiniteSetTheorems, TLAPS

(* The fields of the four tables, whatever numbers are in them. *)
IsSq(r) == r = [Created |-> r.Created, Size |-> r.Size, Head |-> r.Head, Tail |-> r.Tail]
IsCq(r) == r = [Created |-> r.Created, Size |-> r.Size, Tail |-> r.Tail, Phase |-> r.Phase]
IsSqDesc(r) == r = [Valid |-> r.Valid, Capacity |-> r.Capacity, Head |-> r.Head, Tail |-> r.Tail]
IsCqDesc(r) == r = [Valid |-> r.Valid, Capacity |-> r.Capacity, Tail |-> r.Tail, Phase |-> r.Phase]

SqShape ==
  /\ DOMAIN IoSq = Qids /\ \A q \in Qids : IsSq(IoSq[q])
  /\ DOMAIN sqDesc = Qids /\ \A q \in Qids : IsSqDesc(sqDesc[q])

CqShape ==
  /\ DOMAIN IoCq = Qids /\ \A q \in Qids : IsCq(IoCq[q])
  /\ DOMAIN cqDesc = Qids /\ \A q \in Qids : IsCqDesc(cqDesc[q])

(* The parts of TablesAgree. *)
SqAgree ==
  \A q \in Qids : /\ IoSq[q].Created = sqDesc[q].Valid
                  /\ IoSq[q].Created => IoSq[q].Size = sqDesc[q].Capacity

CqAgree ==
  \A q \in Qids : /\ IoCq[q].Created = cqDesc[q].Valid
                  /\ IoCq[q].Created => /\ IoCq[q].Size = cqDesc[q].Capacity
                                        /\ IoCq[q].Tail = cqDesc[q].Tail
                                        /\ IoCq[q].Phase = cqDesc[q].Phase

HeadsAgree ==
  fdo.Mode = "USER" => \A q \in Qids : IoSq[q].Created => IoSq[q].Head = sqDesc[q].Head

FdoShape == fdo = [UserReady |-> fdo.UserReady, UserCrashed |-> fdo.UserCrashed, Mode |-> fdo.Mode]

SqInv == SqShape /\ SqAgree
HeadInv == FdoShape /\ HeadsAgree
CqInv == CqShape /\ CqAgree

LEMMA ConfiguredExist == Configured \subseteq Qids
  BY QueuesAssumption DEF Configured, Qids

LEMMA SameSq == SqInv /\ UNCHANGED <<IoSq, sqDesc>> => SqInv'
  BY DEF SqInv, SqShape, SqAgree

LEMMA SameCq == CqInv /\ UNCHANGED <<IoCq, cqDesc>> => CqInv'
  BY DEF CqInv, CqShape, CqAgree

(* A submission queue's records with other heads and tails. *)
KeptSq(r, s) == IsSq(s) /\ s.Created = r.Created /\ s.Size = r.Size
KeptSqDesc(r, s) == IsSqDesc(s) /\ s.Valid = r.Valid /\ s.Capacity = r.Capacity

Headed(r, x) == [r EXCEPT !.Head = x]
Tailed(r, x) == [r EXCEPT !.Tail = x]

LEMMA MovedSq ==
  ASSUME NEW r, IsSq(r), NEW x
  PROVE  KeptSq(r, r) /\ KeptSq(r, Headed(r, x)) /\ KeptSq(r, Tailed(r, x))
  BY DEF IsSq, KeptSq, Headed, Tailed

LEMMA MovedSqTwice ==
  ASSUME NEW r, IsSq(r), NEW x, NEW y
  PROVE  KeptSq(r, Tailed(Headed(r, x), y))
<1>1. KeptSq(r, Headed(r, x))
  BY MovedSq
<1>2. KeptSq(Headed(r, x), Tailed(Headed(r, x), y))
  BY <1>1, MovedSq DEF KeptSq
<1> QED BY <1>1, <1>2 DEF KeptSq

LEMMA MovedSqDesc ==
  ASSUME NEW r, IsSqDesc(r), NEW x
  PROVE  KeptSqDesc(r, r) /\ KeptSqDesc(r, Headed(r, x)) /\ KeptSqDesc(r, Tailed(r, x))
  BY DEF IsSqDesc, KeptSqDesc, Headed, Tailed

(* A step that only moves heads and tails keeps the submission queues'     *)
(* tables in agreement.                                                    *)
LEMMA MoveKeepsSq ==
  ASSUME SqInv, DOMAIN IoSq' = Qids, DOMAIN sqDesc' = Qids,
         \A q \in Qids : KeptSq(IoSq[q], IoSq'[q]) /\ KeptSqDesc(sqDesc[q], sqDesc'[q])
  PROVE  SqInv'
  BY DEF SqInv, SqShape, SqAgree, KeptSq, KeptSqDesc, IsSq, IsSqDesc

(* A completion queue's record after posts. *)
Posted(r, x, y) == [r EXCEPT !.Tail = x, !.Phase = y]

LEMMA MovedCq ==
  ASSUME NEW r, IsCq(r), NEW x, NEW y, NEW m, m = Posted(r, x, y)
  PROVE  IsCq(m) /\ m.Created = r.Created /\ m.Size = r.Size /\ m.Tail = x /\ m.Phase = y
<1>1. PICK t : t = [r EXCEPT !.Tail = x]
  OBVIOUS
<1>2. t = [Created |-> r.Created, Size |-> r.Size, Tail |-> x, Phase |-> r.Phase]
  BY <1>1 DEF IsCq
<1>3. m = [t EXCEPT !.Phase = y]
  BY <1>1 DEF Posted
<1>4. m = [Created |-> r.Created, Size |-> r.Size, Tail |-> x, Phase |-> y]
  BY <1>2, <1>3
<1> QED BY <1>4 DEF IsCq

LEMMA MovedCqDesc ==
  ASSUME NEW r, IsCqDesc(r), NEW x, NEW y, NEW m, m = Posted(r, x, y)
  PROVE  IsCqDesc(m) /\ m.Valid = r.Valid /\ m.Capacity = r.Capacity /\ m.Tail = x /\ m.Phase = y
<1>1. PICK t : t = [r EXCEPT !.Tail = x]
  OBVIOUS
<1>2. t = [Valid |-> r.Valid, Capacity |-> r.Capacity, Tail |-> x, Phase |-> r.Phase]
  BY <1>1 DEF IsCqDesc
<1>3. m = [t EXCEPT !.Phase = y]
  BY <1>1 DEF Posted
<1>4. m = [Valid |-> r.Valid, Capacity |-> r.Capacity, Tail |-> x, Phase |-> y]
  BY <1>2, <1>3
<1> QED BY <1>4 DEF IsCqDesc

(* A post updates both copies of a completion queue alike, from whichever  *)
(* of them it started.                                                     *)
LEMMA PostKeepsCq ==
  ASSUME CqInv, NEW queues, NEW result, PostTo(queues, result)
  PROVE  CqInv'
<1>1. DOMAIN IoCq' = Qids /\ DOMAIN cqDesc' = Qids
  BY DEF PostTo
<1>2. ASSUME NEW q \in Qids
      PROVE  /\ IsCq(IoCq'[q]) /\ IsCqDesc(cqDesc'[q])
             /\ IoCq'[q].Created = cqDesc'[q].Valid
             /\ IoCq'[q].Created => /\ IoCq'[q].Size = cqDesc'[q].Capacity
                                    /\ IoCq'[q].Tail = cqDesc'[q].Tail
                                    /\ IoCq'[q].Phase = cqDesc'[q].Phase
  <2>1. IsCq(IoCq[q]) /\ IsCqDesc(cqDesc[q])
    BY DEF CqInv, CqShape
  <2>2. CASE q \in queues
    <3>1. /\ IoCq'[q] = Posted(IoCq[q], result[q].tail, result[q].phase)
          /\ cqDesc'[q] = Posted(cqDesc[q], result[q].tail, result[q].phase)
      BY <2>2 DEF PostTo, Posted
    <3>2. /\ IsCq(IoCq'[q]) /\ IoCq'[q].Created = IoCq[q].Created /\ IoCq'[q].Size = IoCq[q].Size
          /\ IoCq'[q].Tail = result[q].tail /\ IoCq'[q].Phase = result[q].phase
      BY <2>1, <3>1, MovedCq
    <3>3. /\ IsCqDesc(cqDesc'[q]) /\ cqDesc'[q].Valid = cqDesc[q].Valid
          /\ cqDesc'[q].Capacity = cqDesc[q].Capacity
          /\ cqDesc'[q].Tail = result[q].tail /\ cqDesc'[q].Phase = result[q].phase
      BY <2>1, <3>1, MovedCqDesc
    <3> QED BY <3>2, <3>3 DEF CqInv, CqAgree
  <2>3. CASE q \notin queues
    <3>1. IoCq'[q] = IoCq[q] /\ cqDesc'[q] = cqDesc[q]
      BY <2>3 DEF PostTo
    <3> QED BY <2>1, <3>1 DEF CqInv, CqAgree
  <2> QED BY <2>2, <2>3
<1> QED BY <1>1, <1>2 DEF CqInv, CqShape, CqAgree, IsCq, IsCqDesc

-----------------------------------------------------------------------------
(* Creation and deletion *)

LEMMA CreateSqKeepsSq ==
  ASSUME SqInv, NEW q, NEW size, NEW c, VnvmeCreateIoSubmissionQueue(q, size, c)
  PROVE  SqInv'
<1>1. q \in Qids
  BY ConfiguredExist DEF VnvmeCreateIoSubmissionQueue
<1> QED BY <1>1 DEF VnvmeCreateIoSubmissionQueue, SqInv, SqShape, SqAgree, IsSq, IsSqDesc

LEMMA CreateCqKeepsCq ==
  ASSUME CqInv, NEW q, NEW size, VnvmeCreateIoCompletionQueue(q, size)
  PROVE  CqInv'
<1>1. q \in Qids
  BY ConfiguredExist DEF VnvmeCreateIoCompletionQueue
<1> QED BY <1>1 DEF VnvmeCreateIoCompletionQueue, CqInv, CqShape, CqAgree, IsCq, IsCqDesc

(* The descriptor of a deleted queue. *)
LEMMA ClosedSqDesc ==
  ASSUME NEW r, IsSqDesc(r), NEW m, m = [r EXCEPT !.Valid = FALSE, !.Head = 0, !.Tail = 0]
  PROVE  IsSqDesc(m) /\ m.Valid = FALSE
<1>1. PICK s : s = [r EXCEPT !.Valid = FALSE]
  OBVIOUS
<1>2. PICK t : t = [s EXCEPT !.Head = 0]
  OBVIOUS
<1>3. m = [t EXCEPT !.Tail = 0]
  BY <1>1, <1>2
<1>4. s = [Valid |-> FALSE, Capacity |-> r.Capacity, Head |-> r.Head, Tail |-> r.Tail]
  BY <1>1 DEF IsSqDesc
<1>5. t = [Valid |-> FALSE, Capacity |-> r.Capacity, Head |-> 0, Tail |-> r.Tail]
  BY <1>2, <1>4
<1>6. m = [Valid |-> FALSE, Capacity |-> r.Capacity, Head |-> 0, Tail |-> 0]
  BY <1>3, <1>5
<1> QED BY <1>6 DEF IsSqDesc

LEMMA ClosedCqDesc ==
  ASSUME NEW r, IsCqDesc(r), NEW m, m = [r EXCEPT !.Valid = FALSE, !.Tail = 0, !.Phase = 1]
  PROVE  IsCqDesc(m) /\ m.Valid = FALSE
<1>1. PICK s : s = [r EXCEPT !.Valid = FALSE]
  OBVIOUS
<1>2. PICK t : t = [s EXCEPT !.Tail = 0]
  OBVIOUS
<1>3. m = [t EXCEPT !.Phase = 1]
  BY <1>1, <1>2
<1>4. s = [Valid |-> FALSE, Capacity |-> r.Capacity, Tail |-> r.Tail, Phase |-> r.Phase]
  BY <1>1 DEF IsCqDesc
<1>5. t = [Valid |-> FALSE, Capacity |-> r.Capacity, Tail |-> 0, Phase |-> r.Phase]
  BY <1>2, <1>4
<1>6. m = [Valid |-> FALSE, Capacity |-> r.Capacity, Tail |-> 0, Phase |-> 1]
  BY <1>3, <1>5
<1> QED BY <1>6 DEF IsCqDesc

LEMMA DeleteSqKeepsSq ==
  ASSUME SqInv, NEW q, VnvmeDeleteIoSubmissionQueue(q)
  PROVE  SqInv'
<1>1. q \in Qids
  BY ConfiguredExist DEF VnvmeDeleteIoSubmissionQueue
<1>2. IsSqDesc(sqDesc'[q]) /\ sqDesc'[q].Valid = FALSE
  <2>1. sqDesc'[q] = [sqDesc[q] EXCEPT !.Valid = FALSE, !.Head = 0, !.Tail = 0]
    BY <1>1 DEF VnvmeDeleteIoSubmissionQueue, SqInv, SqShape
  <2>2. IsSqDesc(sqDesc[q])
    BY <1>1 DEF SqInv, SqShape
  <2> QED BY <2>1, <2>2, ClosedSqDesc
<1>3. DOMAIN sqDesc' = Qids /\ \A p \in Qids : p # q => sqDesc'[p] = sqDesc[p]
  BY <1>1 DEF VnvmeDeleteIoSubmissionQueue, SqInv, SqShape
<1>4. DOMAIN IoSq' = Qids /\ \A p \in Qids : IoSq'[p] = IF p = q THEN ZeroSq ELSE IoSq[p]
  BY <1>1 DEF VnvmeDeleteIoSubmissionQueue, SqInv, SqShape
<1>5. \A p \in Qids : IsSq(IoSq'[p]) /\ IsSqDesc(sqDesc'[p])
  <2>1. IsSq(ZeroSq)
    BY DEF IsSq, ZeroSq
  <2> QED BY <1>2, <1>3, <1>4, <2>1 DEF SqInv, SqShape
<1>6. IoSq'[q].Created = FALSE
  BY <1>1, <1>4 DEF ZeroSq
<1>7. SqAgree'
  BY <1>2, <1>3, <1>4, <1>6 DEF SqInv, SqAgree
<1>8. SqShape'
  BY <1>3, <1>4, <1>5 DEF SqShape, IsSq, IsSqDesc
<1> QED BY <1>7, <1>8 DEF SqInv

LEMMA DeleteCqKeepsCq ==
  ASSUME CqInv, NEW q, VnvmeDeleteIoCompletionQueue(q)
  PROVE  CqInv'
<1>1. q \in Qids
  BY ConfiguredExist DEF VnvmeDeleteIoCompletionQueue
<1>2. IsCqDesc(cqDesc'[q]) /\ cqDesc'[q].Valid = FALSE
  <2>1. cqDesc'[q] = [cqDesc[q] EXCEPT !.Valid = FALSE, !.Tail = 0, !.Phase = 1]
    BY <1>1 DEF VnvmeDeleteIoCompletionQueue, CqInv, CqShape
  <2>2. IsCqDesc(cqDesc[q])
    BY <1>1 DEF CqInv, CqShape
  <2> QED BY <2>1, <2>2, ClosedCqDesc
<1>3. DOMAIN cqDesc' = Qids /\ \A p \in Qids : p # q => cqDesc'[p] = cqDesc[p]
  BY <1>1 DEF VnvmeDeleteIoCompletionQueue, CqInv, CqShape
<1>4. DOMAIN IoCq' = Qids /\ \A p \in Qids : IoCq'[p] = IF p = q THEN ZeroCq ELSE IoCq[p]
  BY <1>1 DEF VnvmeDeleteIoCompletionQueue, CqInv, CqShape
<1>5. \A p \in Qids : IsCq(IoCq'[p]) /\ IsCqDesc(cqDesc'[p])
  <2>1. IsCq(ZeroCq)
    BY DEF IsCq, ZeroCq
  <2> QED BY <1>2, <1>3, <1>4, <2>1 DEF CqInv, CqShape
<1>6. IoCq'[q].Created = FALSE
  BY <1>1, <1>4 DEF ZeroCq
<1>7. CqAgree'
  BY <1>2, <1>3, <1>4, <1>6 DEF CqInv, CqAgree
<1>8. CqShape'
  BY <1>3, <1>4, <1>5 DEF CqShape, IsCq, IsCqDesc
<1> QED BY <1>7, <1>8 DEF CqInv

-----------------------------------------------------------------------------
(* The doorbell scan, a fetch, the abort *)

LEMMA ForwardKeepsSq ==
  ASSUME SqInv, ForwardIo
  PROVE  SqInv'
<1>1. DOMAIN IoSq' = Qids /\ DOMAIN sqDesc' = Qids
  BY DEF ForwardIo
<1>2. \A q \in Qids : /\ IoSq'[q] = IF q \in Rung THEN Tailed(IoSq[q], Doorbells[q]) ELSE IoSq[q]
                     /\ sqDesc'[q] \in {Tailed(sqDesc[q], Doorbells[q]), sqDesc[q]}
  BY DEF ForwardIo, Tailed
<1>3. \A q \in Qids : IsSq(IoSq[q]) /\ IsSqDesc(sqDesc[q])
  BY DEF SqInv, SqShape
<1> QED BY <1>1, <1>2, <1>3, MovedSq, MovedSqDesc, MoveKeepsSq

LEMMA ProcessKeepsSq ==
  ASSUME SqInv, VnvmeProcessIoCommands
  PROVE  SqInv'
<1>1. DOMAIN IoSq' = Qids /\ DOMAIN sqDesc' = Qids
  BY DEF VnvmeProcessIoCommands
<1>2. ASSUME NEW q \in Qids
      PROVE  /\ \E x : IoSq'[q] \in {Tailed(Headed(IoSq[q], x), Doorbells[q]), IoSq[q]}
             /\ \E x : sqDesc'[q] \in {Headed(sqDesc[q], x), sqDesc[q]}
  BY DEF VnvmeProcessIoCommands, Tailed, Headed
<1>3. \A q \in Qids : IsSq(IoSq[q]) /\ IsSqDesc(sqDesc[q])
  BY DEF SqInv, SqShape
<1> QED BY <1>1, <1>2, <1>3, MovedSq, MovedSqTwice, MovedSqDesc, MoveKeepsSq

LEMMA FetchKeepsSq ==
  ASSUME SqInv, NEW q \in Qids, FetchAndPost(q)
  PROVE  SqInv'
<1>1. DOMAIN IoSq' = Qids /\ DOMAIN sqDesc' = Qids
  BY DEF FetchAndPost, SqInv, SqShape
<1>2. PICK head : /\ IoSq' = [IoSq EXCEPT ![q].Head = head]
                  /\ sqDesc' = [sqDesc EXCEPT ![q].Head = head]
  BY DEF FetchAndPost
<1>3. \A p \in Qids : /\ IoSq'[p] = IF p = q THEN Headed(IoSq[p], head) ELSE IoSq[p]
                     /\ sqDesc'[p] = IF p = q THEN Headed(sqDesc[p], head) ELSE sqDesc[p]
  BY <1>2 DEF Headed, SqInv, SqShape
<1>4. \A p \in Qids : IsSq(IoSq[p]) /\ IsSqDesc(sqDesc[p])
  BY DEF SqInv, SqShape
<1> QED BY <1>1, <1>3, <1>4, MovedSq, MovedSqDesc, MoveKeepsSq

LEMMA CrashKeepsSq ==
  ASSUME SqInv, ServiceCrashes
  PROVE  SqInv'
<1>1. DOMAIN IoSq' = Qids /\ DOMAIN sqDesc' = Qids
  BY DEF ServiceCrashes, SqInv, SqShape
<1>2. \A q \in Qids : /\ IoSq'[q] = IoSq[q]
                     /\ sqDesc'[q] \in {Headed(sqDesc[q], sqDesc[q].Tail), sqDesc[q]}
  BY DEF ServiceCrashes, Headed
<1>3. \A q \in Qids : IsSq(IoSq[q]) /\ IsSqDesc(sqDesc[q])
  BY DEF SqInv, SqShape
<1> QED BY <1>1, <1>2, <1>3, MovedSq, MovedSqDesc, MoveKeepsSq

-----------------------------------------------------------------------------
LEMMA TablesStep ==
  ASSUME SqInv, CqInv, [Next]_vars
  PROVE  SqInv' /\ CqInv'
<1>1. ASSUME NEW q, NEW size, VnvmeCreateIoCompletionQueue(q, size) PROVE SqInv' /\ CqInv'
  BY <1>1, CreateCqKeepsCq, SameSq DEF VnvmeCreateIoCompletionQueue
<1>2. ASSUME NEW q, NEW c, NEW size, VnvmeCreateIoSubmissionQueue(q, size, c) PROVE SqInv' /\ CqInv'
  BY <1>2, CreateSqKeepsSq, SameCq DEF VnvmeCreateIoSubmissionQueue
<1>3. ASSUME NEW q, VnvmeDeleteIoSubmissionQueue(q) PROVE SqInv' /\ CqInv'
  BY <1>3, DeleteSqKeepsSq, SameCq DEF VnvmeDeleteIoSubmissionQueue
<1>4. ASSUME NEW q, VnvmeDeleteIoCompletionQueue(q) PROVE SqInv' /\ CqInv'
  BY <1>4, DeleteCqKeepsCq, SameSq DEF VnvmeDeleteIoCompletionQueue
<1>5. ASSUME ForwardIo PROVE SqInv' /\ CqInv'
  BY <1>5, ForwardKeepsSq, SameCq DEF ForwardIo
<1>6. ASSUME VnvmeProcessIoCommands PROVE SqInv' /\ CqInv'
  <2>1. \E queues, result : PostTo(queues, result)
    BY <1>6 DEF VnvmeProcessIoCommands
  <2> QED BY <1>6, <2>1, ProcessKeepsSq, PostKeepsCq
<1>7. ASSUME NEW q \in Qids, FetchAndPost(q) PROVE SqInv' /\ CqInv'
  <2>1. \E queues, result : PostTo(queues, result)
    BY <1>7 DEF FetchAndPost
  <2> QED BY <1>7, <2>1, FetchKeepsSq, PostKeepsCq
<1>8. ASSUME ServiceCrashes PROVE SqInv' /\ CqInv'
  <2>1. \E queues, result : PostTo(queues, result)
    BY <1>8 DEF ServiceCrashes
  <2> QED BY <1>8, <2>1, CrashKeepsSq, PostKeepsCq
<1>9. ASSUME ServiceReady \/ (\E q \in Qids : HostSubmit(q) \/ HostReap(q)) \/ UNCHANGED vars
      PROVE  SqInv' /\ CqInv'
  BY <1>9, SameSq, SameCq DEF ServiceReady, HostSubmit, HostReap, vars
<1> QED BY <1>1, <1>2, <1>3, <1>4, <1>5, <1>6, <1>7, <1>8, <1>9 DEF Next

LEMMA TablesInit == Init => SqInv /\ CqInv
<1> SUFFICES ASSUME Init PROVE SqInv /\ CqInv
  OBVIOUS
<1>1. \A q \in Qids : IsSq(IoSq[q]) /\ IsCq(IoCq[q])
  BY DEF Init, ZeroSq, ZeroCq, IsSq, IsCq
<1>2. \A q \in Qids : IsSqDesc(sqDesc[q]) /\ IsCqDesc(cqDesc[q])
  BY DEF Init, IsSqDesc, IsCqDesc
<1>3. SqShape /\ CqShape
  BY <1>1, <1>2 DEF Init, SqShape, CqShape
<1>4. SqAgree /\ CqAgree
  BY DEF Init, ZeroSq, ZeroCq, SqAgree, CqAgree
<1> QED BY <1>3, <1>4 DEF SqInv, CqInv

(* Before the abort, a head is moved in both copies or in none. *)
LEMMA HeadsStep ==
  ASSUME SqInv, HeadInv, [Next]_vars
  PROVE  HeadInv'
<1>a. /\ DOMAIN IoSq = Qids /\ DOMAIN sqDesc = Qids
      /\ \A p \in Qids : IsSq(IoSq[p]) /\ IsSqDesc(sqDesc[p])
  BY DEF SqInv, SqShape
<1>1. ASSUME NEW q, NEW c, NEW size, VnvmeCreateIoSubmissionQueue(q, size, c) PROVE HeadInv'
  <2>1. q \in Qids /\ fdo' = fdo
    BY <1>1, ConfiguredExist DEF VnvmeCreateIoSubmissionQueue
  <2>2. IoSq'[q].Head = 0 /\ sqDesc'[q].Head = 0
    BY <1>1, <1>a, <2>1 DEF VnvmeCreateIoSubmissionQueue
  <2>3. \A p \in Qids : p # q => IoSq'[p] = IoSq[p] /\ sqDesc'[p] = sqDesc[p]
    BY <1>1, <1>a, <2>1 DEF VnvmeCreateIoSubmissionQueue
  <2> QED BY <2>1, <2>2, <2>3 DEF HeadInv, HeadsAgree, FdoShape
<1>2. ASSUME NEW q, VnvmeDeleteIoSubmissionQueue(q) PROVE HeadInv'
  <2>1. q \in Qids /\ fdo' = fdo
    BY <1>2, ConfiguredExist DEF VnvmeDeleteIoSubmissionQueue
  <2>2. ~ IoSq'[q].Created
    BY <1>2, <1>a, <2>1 DEF VnvmeDeleteIoSubmissionQueue, ZeroSq
  <2>3. \A p \in Qids : p # q => IoSq'[p] = IoSq[p] /\ sqDesc'[p] = sqDesc[p]
    BY <1>2, <1>a, <2>1 DEF VnvmeDeleteIoSubmissionQueue
  <2> QED BY <2>1, <2>2, <2>3 DEF HeadInv, HeadsAgree, FdoShape
<1>3. ASSUME ForwardIo PROVE HeadInv'
  <2>1. \A p \in Qids : /\ IoSq'[p] \in {Tailed(IoSq[p], Doorbells[p]), IoSq[p]}
                       /\ sqDesc'[p] \in {Tailed(sqDesc[p], Doorbells[p]), sqDesc[p]}
    BY <1>3 DEF ForwardIo, Tailed
  <2>2. \A p \in Qids : /\ Tailed(IoSq[p], Doorbells[p]).Head = IoSq[p].Head
                       /\ Tailed(IoSq[p], Doorbells[p]).Created = IoSq[p].Created
                       /\ Tailed(sqDesc[p], Doorbells[p]).Head = sqDesc[p].Head
    BY <1>a DEF IsSq, IsSqDesc, Tailed
  <2>3. fdo' = fdo
    BY <1>3 DEF ForwardIo
  <2>4. \A p \in Qids : /\ IoSq'[p].Head = IoSq[p].Head /\ IoSq'[p].Created = IoSq[p].Created
                       /\ sqDesc'[p].Head = sqDesc[p].Head
    BY <2>1, <2>2
  <2> QED BY <2>3, <2>4 DEF HeadInv, HeadsAgree, FdoShape
<1>4. ASSUME NEW q \in Qids, FetchAndPost(q) PROVE HeadInv'
  <2>1. PICK head : /\ IoSq' = [IoSq EXCEPT ![q].Head = head]
                    /\ sqDesc' = [sqDesc EXCEPT ![q].Head = head]
    BY <1>4 DEF FetchAndPost
  <2>2. IoSq'[q].Head = head /\ sqDesc'[q].Head = head
    BY <1>a, <2>1 DEF IsSq, IsSqDesc
  <2>3. \A p \in Qids : p # q => IoSq'[p] = IoSq[p] /\ sqDesc'[p] = sqDesc[p]
    BY <1>a, <2>1
  <2>4. fdo' = fdo
    BY <1>4 DEF FetchAndPost
  <2> QED BY <2>2, <2>3, <2>4 DEF HeadInv, HeadsAgree, FdoShape
<1>5. ASSUME VnvmeProcessIoCommands PROVE HeadInv'
  BY <1>5 DEF VnvmeProcessIoCommands, HeadInv, HeadsAgree, FdoShape
<1>6. ASSUME ServiceCrashes PROVE HeadInv'
  BY <1>6 DEF ServiceCrashes, HeadInv, HeadsAgree, FdoShape
<1>7. ASSUME ServiceReady PROVE HeadInv'
  <2>1. fdo' = [UserReady |-> TRUE, UserCrashed |-> fdo.UserCrashed, Mode |-> fdo.Mode]
    BY <1>7 DEF ServiceReady, HeadInv, FdoShape
  <2>2. FdoShape' /\ fdo'.Mode = fdo.Mode
    BY <2>1 DEF FdoShape
  <2> QED BY <1>7, <2>2 DEF ServiceReady, HeadInv, HeadsAgree
<1>8. ASSUME UNCHANGED <<IoSq, sqDesc, fdo>> PROVE HeadInv'
  BY <1>8 DEF HeadInv, HeadsAgree, FdoShape
<1> QED BY <1>1, <1>2, <1>3, <1>4, <1>5, <1>6, <1>7, <1>8
        DEF Next, VnvmeCreateIoCompletionQueue, VnvmeDeleteIoCompletionQueue, HostSubmit, HostReap, vars

(* VnvmePostCompletion and VnvmeAbortPendingUserCommands start from        *)
(* different copies of a completion queue's phase; for any number and size *)
(* of queues, whatever the host does, these copies agree whenever one of   *)
(* them is read, and so do the heads of the submission queues as long as   *)
(* the service has not been taken for dead.                                *)
THEOREM TablesAgreeCorrect == Spec => []TablesAgree
<1>1. Init => SqInv /\ CqInv /\ HeadInv
  <2>1. Init => HeadInv
    BY DEF Init, HeadInv, HeadsAgree, FdoShape, ZeroSq
  <2> QED BY <2>1, TablesInit
<1>2. SqInv /\ CqInv /\ HeadInv /\ [Next]_vars => SqInv' /\ CqInv' /\ HeadInv'
  BY TablesStep, HeadsStep
<1>3. SqInv /\ CqInv /\ HeadInv => TablesAgree
  BY DEF SqInv, CqInv, HeadInv, SqAgree, CqAgree, HeadsAgree, TablesAgree
<1> QED BY <1>1, <1>2, <1>3, PTL DEF Spec

-----------------------------------------------------------------------------
(* One completion after the other *)

CidsOrNone == Cids \cup {NoCommand}
Entries == [Places -> [cid : CidsOrNone, phase : Phases]]
Completions(size) == [entries : Entries, tail : 0 .. size - 1, phase : Phases]

LEMMA SizeFits ==
  ASSUME NEW size \in Sizes
  PROVE  size \in Nat \ {0} /\ 2 <= size /\ 0 .. size - 1 \subseteq Places /\ 0 \in Places
<1>1. PICK most \in Sizes : \A m \in Sizes : m <= most
  BY SizesAssumption
<1> DEFINE n == CHOOSE n \in Sizes : \A m \in Sizes : m <= n
<1>2. n \in Sizes /\ \A m \in Sizes : m <= n
  BY <1>1
<1>3. Places = 0 .. n - 1
  BY DEF Places
<1> HIDE DEF n
<1>4. size \in Nat /\ 2 <= size /\ n \in Nat /\ size <= n
  BY <1>2, SizesAssumption
<1> QED BY <1>3, <1>4

LEMMA ZeroIsPlace == 0 \in Places
  BY SizeFits, SizesAssumption

LEMMA PostOneType ==
  ASSUME NEW size \in Sizes, NEW c \in Completions(size), NEW cid \in CidsOrNone
  PROVE  PostOne(c, cid, size) \in Completions(size)
<1>1. (c.tail + 1) % size \in 0 .. size - 1 /\ c.tail \in Places
  BY SizeFits DEF Completions
<1>2. [c.entries EXCEPT ![c.tail] = [cid |-> cid, phase |-> c.phase]] \in Entries
  BY <1>1 DEF Completions, Entries
<1>3. 1 - c.phase \in Phases /\ c.phase \in Phases
  BY DEF Completions, Phases
<1> QED BY <1>1, <1>2, <1>3 DEF PostOne, Completions

(* PostAll is the last value of a function that goes from c by one         *)
(* PostOne to the next.                                                    *)
Posts(g, c, cids, size) ==
  g = [i \in 0 .. Len(cids) |-> IF i = 0 THEN c ELSE PostOne(g[i - 1], cids[i], size)]

LEMMA PostAllIs ==
  ASSUME NEW size \in Sizes, NEW c \in Completions(size), NEW cids \in Seq(CidsOrNone)
  PROVE  \E g : Posts(g, c, cids, size) /\ PostAll(c, cids, size) = g[Len(cids)]
<1> DEFINE n == Len(cids)
<1>1. n \in Nat
  OBVIOUS
<1> DEFINE step == [x \in Completions(size) \X (1 .. n) |-> PostOne(x[1], cids[x[2]], size)]
<1>2. \A x \in Completions(size), i \in 1 .. n : step[<<x, i>>] = PostOne(x, cids[i], size)
  OBVIOUS
<1>3. ASSUME NEW x \in Completions(size), NEW i \in 1 .. n PROVE step[<<x, i>>] \in Completions(size)
  <2>1. cids[i] \in CidsOrNone
    OBVIOUS
  <2>2. PostOne(x, cids[i], size) \in Completions(size)
    BY <2>1, PostOneType
  <2> QED BY <1>2, <2>2
<1> HIDE DEF step
<1>4. PICK g : Iterates(g, c, step, n, Completions(size))
  BY <1>1, <1>3, IterationExists
<1>5. g = [i \in 0 .. n |-> IF i = 0 THEN c ELSE PostOne(g[i - 1], cids[i], size)]
  <2>1. g \in [0 .. n -> Completions(size)] /\ g[0] = c
    BY <1>4 DEF Iterates
  <2>2. ASSUME NEW i \in 1 .. n PROVE g[i] = PostOne(g[i - 1], cids[i], size)
    <3>1. i - 1 \in 0 .. n
      OBVIOUS
    <3>2. g[i - 1] \in Completions(size)
      BY <2>1, <3>1
    <3> QED BY <1>2, <1>4, <3>2 DEF Iterates
  <2>3. \A i \in 0 .. n : i # 0 => i \in 1 .. n
    OBVIOUS
  <2> QED BY <2>1, <2>2, <2>3
<1>6. Posts(g, c, cids, size)
  BY <1>5 DEF Posts
<1> DEFINE after == CHOOSE h : h = [i \in 0 .. Len(cids) |-> IF i = 0 THEN c ELSE PostOne(h[i - 1], cids[i], size)]
<1>7. Posts(after, c, cids, size)
  BY <1>6 DEF Posts
<1>8. PostAll(c, cids, size) = after[Len(cids)]
  BY DEF PostAll
<1> HIDE DEF after
<1> QED BY <1>7, <1>8

-----------------------------------------------------------------------------
(* What the indexes stand for.  The host's commands are numbered from 1;   *)
(* w lists the commands answered so far, h is the last one taken from the  *)
(* submission queue, b the last one before the submission queue was        *)
(* created and f the last one forwarded.                                   *)

Answers(w, h) ==
  /\ w \in Seq(Nat) /\ Len(w) <= h
  /\ \A k \in 1 .. Len(w) : w[k] \in 1 .. h
  /\ \A j, k \in 1 .. Len(w) : j < k => w[j] < w[k]

(* Completion queue c holds the answers from number r on: those have the   *)
(* phase of their lap, the entries up to a lap from r the other one.       *)
CqHolds(c, r, w, size) ==
  /\ c.tail = Place(Len(w), size) /\ c.phase = PhaseOf(Len(w), size)
  /\ \A j \in Nat : r <= j /\ j < Len(w) =>
       c.entries[Place(j, size)].cid = w[j + 1] /\ c.entries[Place(j, size)].phase = PhaseOf(j, size)
  /\ \A j \in Nat : Len(w) <= j /\ j < r + size => c.entries[Place(j, size)].phase = 1 - PhaseOf(j, size)

LEMMA AnswersMore ==
  ASSUME NEW h \in Nat, NEW w, Answers(w, h)
  PROVE  \E v : /\ Answers(v, h + 1) /\ Len(v) = Len(w) + 1 /\ v[Len(w) + 1] = h + 1
                /\ \A k \in 1 .. Len(w) : v[k] = w[k]
<1>0. PICK v : v = Append(w, h + 1)
  OBVIOUS
<1>1. w \in Seq(Nat) /\ Len(w) \in Nat
  BY DEF Answers
<1>2. v \in Seq(Nat) /\ Len(v) = Len(w) + 1 /\ v[Len(w) + 1] = h + 1 /\ \A k \in 1 .. Len(w) : v[k] = w[k]
  BY <1>0, <1>1
<1>3. \A k \in 1 .. Len(v) : k = Len(w) + 1 \/ k \in 1 .. Len(w)
  BY <1>1, <1>2
<1>4. ASSUME NEW k \in 1 .. Len(v) PROVE v[k] \in 1 .. h + 1
  <2>1. CASE k = Len(w) + 1
    BY <1>2, <2>1
  <2>2. CASE k \in 1 .. Len(w)
    <3>1. v[k] = w[k] /\ w[k] \in 1 .. h
      BY <1>2, <2>2 DEF Answers
    <3> QED BY <3>1
  <2> QED BY <1>3, <2>1, <2>2
<1>5. ASSUME NEW j \in 1 .. Len(v), NEW k \in 1 .. Len(v), j < k PROVE v[j] < v[k]
  <2>1. j \in 1 .. Len(w)
    BY <1>1, <1>2, <1>5
  <2>2. v[j] = w[j] /\ w[j] \in 1 .. h
    BY <1>2, <2>1 DEF Answers
  <2>3. CASE k = Len(w) + 1
    BY <1>2, <2>2, <2>3
  <2>4. CASE k \in 1 .. Len(w)
    BY <1>2, <1>5, <2>1, <2>4 DEF Answers
  <2> QED BY <1>3, <2>3, <2>4
<1>6. Answers(v, h + 1)
  BY <1>1, <1>2, <1>4, <1>5 DEF Answers
<1> QED BY <1>2, <1>6

LEMMA AnswersLater ==
  ASSUME NEW h \in Nat, NEW n \in Nat, h <= n, NEW w, Answers(w, h)
  PROVE  Answers(w, n)
  BY DEF Answers

(* One more answer, while the queue has room for it *)
LEMMA PostOneHolds ==
  ASSUME NEW size \in Sizes, NEW c \in Completions(size), NEW r \in Nat, NEW w \in Seq(Nat), NEW cid,
         r <= Len(w), Len(w) < r + size, CqHolds(c, r, w, size),
         NEW v \in Seq(Nat), Len(v) = Len(w) + 1, v[Len(w) + 1] = cid, \A k \in 1 .. Len(w) : v[k] = w[k]
  PROVE  CqHolds(PostOne(c, cid, size), r, v, size)
<1> DEFINE p == Len(w)
<1> DEFINE d == PostOne(c, cid, size)
<1>1. p \in Nat /\ size \in Nat \ {0} /\ 0 .. size - 1 \subseteq Places
  BY SizeFits
<1>2. c.tail = Place(p, size) /\ c.phase = PhaseOf(p, size)
  BY DEF CqHolds
<1>3. /\ d.tail = (c.tail + 1) % size
      /\ d.phase = IF d.tail = 0 THEN 1 - c.phase ELSE c.phase
      /\ d.entries = [c.entries EXCEPT ![c.tail] = [cid |-> cid, phase |-> c.phase]]
  BY DEF PostOne
<1> HIDE DEF d
<1>4. d.tail = Place(p + 1, size) /\ d.phase = PhaseOf(p + 1, size)
  <2>1. /\ (Place(p, size) + 1) % size = Place(p + 1, size)
        /\ PhaseOf(p + 1, size) = IF Place(p + 1, size) = 0 THEN 1 - PhaseOf(p, size) ELSE PhaseOf(p, size)
    BY <1>1, PlaceNext
  <2>2. d.tail = Place(p + 1, size)
    BY <1>2, <1>3, <2>1
  <2> QED BY <1>2, <1>3, <2>1, <2>2
<1>5. \A j \in Nat : Place(j, size) \in Places
  BY <1>1, Quotient
<1>6. d.entries[Place(p, size)].cid = cid /\ d.entries[Place(p, size)].phase = PhaseOf(p, size)
  BY <1>1, <1>2, <1>3, <1>5 DEF Completions, Entries
<1>7. ASSUME NEW j \in Nat, r <= j, j < r + size, j # p
      PROVE  d.entries[Place(j, size)] = c.entries[Place(j, size)]
  <2>1. Place(j, size) # Place(p, size)
    <3>1. CASE j < p
      BY <1>1, <1>7, <3>1, PlaceInjective
    <3>2. CASE p < j
      BY <1>1, <1>7, <3>2, PlaceInjective
    <3> QED BY <1>1, <1>7, <3>1, <3>2
  <2> QED BY <1>2, <1>3, <1>5, <2>1 DEF Completions, Entries
<1>8. ASSUME NEW j \in Nat, r <= j, j < p + 1
      PROVE  d.entries[Place(j, size)].cid = v[j + 1] /\ d.entries[Place(j, size)].phase = PhaseOf(j, size)
  <2>1. CASE j = p
    BY <1>6, <2>1
  <2>2. CASE j # p
    <3>1. j < p /\ j + 1 \in 1 .. p /\ j < r + size
      BY <1>1, <1>8, <2>2
    <3>2. d.entries[Place(j, size)] = c.entries[Place(j, size)]
      BY <1>7, <1>8, <2>2, <3>1
    <3>3. v[j + 1] = w[j + 1]
      BY <3>1
    <3> QED BY <1>8, <3>1, <3>2, <3>3 DEF CqHolds
  <2> QED BY <2>1, <2>2
<1>9. ASSUME NEW j \in Nat, p + 1 <= j, j < r + size
      PROVE  d.entries[Place(j, size)].phase = 1 - PhaseOf(j, size)
  <2>1. r <= j /\ j # p /\ p <= j
    BY <1>1, <1>9
  <2> QED BY <1>7, <1>9, <2>1 DEF CqHolds
<1> QED BY <1>4, <1>8, <1>9 DEF CqHolds, d

(* t answers, to the commands from h + 1 on *)
LEMMA PostAllHolds ==
  ASSUME NEW size \in Sizes, NEW c \in Completions(size), NEW r \in Nat, NEW w, NEW h \in Nat, NEW t \in Nat,
         Answers(w, h), r <= Len(w), h + t < r + size, h + t <= MaxSubmits, CqHolds(c, r, w, size),
         NEW cids \in Seq(CidsOrNone), Len(cids) = t, \A i \in 1 .. t : cids[i] = h + i
  PROVE  \E v : /\ Answers(v, h + t) /\ Len(v) = Len(w) + t /\ \A k \in 1 .. Len(w) : v[k] = w[k]
                /\ PostAll(c, cids, size) \in Completions(size)
                /\ CqHolds(PostAll(c, cids, size), r, v, size)
<1>1. PICK g : Posts(g, c, cids, size) /\ PostAll(c, cids, size) = g[t]
  BY PostAllIs
<1>2. g[0] = c /\ \A i \in 1 .. t : g[i] = PostOne(g[i - 1], h + i, size)
  <2>1. g = [i \in 0 .. t |-> IF i = 0 THEN c ELSE PostOne(g[i - 1], cids[i], size)]
    BY <1>1 DEF Posts
  <2>2. 0 \in 0 .. t /\ \A i \in 1 .. t : i \in 0 .. t /\ i # 0
    OBVIOUS
  <2>3. g[0] = c
    BY <2>1, <2>2
  <2>4. \A i \in 1 .. t : g[i] = PostOne(g[i - 1], cids[i], size)
    BY <2>1, <2>2
  <2> QED BY <2>3, <2>4
<1> DEFINE Good(i, v) == /\ Answers(v, h + i) /\ Len(v) = Len(w) + i /\ \A k \in 1 .. Len(w) : v[k] = w[k]
                         /\ g[i] \in Completions(size) /\ CqHolds(g[i], r, v, size)
<1> DEFINE T == {i \in Nat : i <= t => \E v : Good(i, v)}
<1>3. 0 \in T
  <2>1. h + 0 = h /\ Len(w) + 0 = Len(w)
    BY DEF Answers
  <2>2. Good(0, w)
    BY <1>2, <2>1
  <2> QED BY <2>2
<1>4. ASSUME NEW i \in Nat, i \in T PROVE i + 1 \in T
  <2> SUFFICES ASSUME i + 1 <= t PROVE \E v : Good(i + 1, v)
    OBVIOUS
  <2>1. PICK u : Good(i, u)
    BY <1>4
  <2>2. h + i \in Nat /\ i + 1 \in 1 .. t /\ (i + 1) - 1 = i /\ h + (i + 1) = (h + i) + 1
    OBVIOUS
  <2>3. g[i + 1] = PostOne(g[i], (h + i) + 1, size)
    BY <1>2, <2>2
  <2>4. (h + i) + 1 \in CidsOrNone
    BY SizesAssumption DEF CidsOrNone, Cids
  <2>5. Answers(u, h + i)
    BY <2>1
  <2>6. PICK v : /\ Answers(v, (h + i) + 1) /\ Len(v) = Len(u) + 1 /\ v[Len(u) + 1] = (h + i) + 1
                 /\ \A k \in 1 .. Len(u) : v[k] = u[k]
    <3> HIDE DEF Good
    <3> QED BY <2>2, <2>5, AnswersMore
  <2>7. Len(w) \in Nat /\ u \in Seq(Nat) /\ v \in Seq(Nat) /\ Len(u) \in Nat /\ Len(u) <= h + i
    BY <2>1, <2>6 DEF Answers
  <2>8. Len(u) = Len(w) + i /\ r <= Len(u) /\ Len(u) < r + size /\ size \in Nat
    BY <2>1, <2>2, <2>7, SizeFits
  <2>9. g[i + 1] \in Completions(size)
    BY <2>1, <2>3, <2>4, PostOneType
  <2>10. CqHolds(g[i + 1], r, v, size)
    <3>1. CqHolds(g[i], r, u, size) /\ g[i] \in Completions(size)
      BY <2>1
    <3>2. CqHolds(PostOne(g[i], v[Len(u) + 1], size), r, v, size)
      <4> HIDE DEF Good
      <4> QED BY <2>6, <2>7, <2>8, <3>1, PostOneHolds
    <3> QED BY <2>3, <2>6, <3>2
  <2>11. \A k \in 1 .. Len(w) : v[k] = w[k]
    BY <2>1, <2>6, <2>7, <2>8
  <2>12. Len(v) = Len(w) + (i + 1)
    BY <2>6, <2>7, <2>8
  <2> QED BY <2>2, <2>6, <2>9, <2>10, <2>11, <2>12
<1>5. t \in T
  <2> HIDE DEF T
  <2> QED BY <1>3, <1>4, NatSetInduction
<1>6. PICK v : Good(t, v)
  BY <1>5
<1> QED BY <1>1, <1>6

-----------------------------------------------------------------------------
(* A queue pair whose host record is u *)

IsHost(u) == u.issued \in 0 .. MaxSubmits /\ Len(u.reaped) \in Nat

(* The host has reaped the first answers and expects the next one. *)
HostHolds(u, w, size) ==
  /\ Len(u.reaped) <= Len(w) /\ \A k \in 1 .. Len(u.reaped) : u.reaped[k] = w[k]
  /\ u.cqHead = Place(Len(u.reaped), size) /\ u.phase = PhaseOf(Len(u.reaped), size)

CqTracked(c, size, u, w, h) ==
  /\ h \in Nat /\ h <= u.issued /\ u.issued < Len(u.reaped) + size
  /\ Answers(w, h) /\ HostHolds(u, w, size) /\ CqHolds(c, Len(u.reaped), w, size)

(* Submission queue s holds the commands that were issued and not taken. *)
SqHolds(s, size, h, n, b) == \A m \in h + 1 .. n : s[Place((m - 1) - b, size)] = m

SqTracked(head, tail, size, s, bell, u, h, b, f) ==
  /\ b \in Nat /\ f \in Nat /\ b <= h /\ h <= f /\ f <= u.issued /\ u.issued < h + size
  /\ head = Place(h - b, size) /\ tail = Place(f - b, size)
  /\ u.tail = Place(u.issued - b, size) /\ bell = u.tail
  /\ SqHolds(s, size, h, u.issued, b)

Fetched(s, head, size, t) == [i \in 1 .. t |-> s[(head + i - 1) % size]]

(* What is fetched from the head on are the commands after h, in order. *)
LEMMA FetchesNext ==
  ASSUME NEW size \in Sizes, NEW s \in [Places -> CidsOrNone], NEW h \in Nat, NEW b \in Nat, b <= h,
         NEW n \in Nat, SqHolds(s, size, h, n, b), NEW t \in Nat, h + t <= n,
         NEW head, head = Place(h - b, size)
  PROVE  /\ Fetched(s, head, size, t) \in Seq(CidsOrNone) /\ Len(Fetched(s, head, size, t)) = t
         /\ \A i \in 1 .. t : Fetched(s, head, size, t)[i] = h + i
<1> DEFINE cids == Fetched(s, head, size, t)
<1>1. size \in Nat \ {0} /\ 0 .. size - 1 \subseteq Places /\ h - b \in Nat
  BY SizeFits
<1>2. head \in 0 .. size - 1
  BY <1>1, Quotient
<1>3. ASSUME NEW i \in 1 .. t
      PROVE  (head + i - 1) % size \in Places /\ s[(head + i - 1) % size] = h + i
  <2>1. PICK j \in Nat : j = i - 1
    OBVIOUS
  <2>2. Place(head + j, size) = Place((h - b) + j, size)
    BY <1>1, PlaceAdd
  <2>3. (h - b) + j = ((h + i) - 1) - b /\ head + i - 1 = head + j /\ h + i \in h + 1 .. n
    BY <1>1, <1>2, <2>1
  <2>4. (head + i - 1) % size = Place(((h + i) - 1) - b, size)
    BY <2>2, <2>3 DEF Place
  <2>5. ((h + i) - 1) - b \in Nat
    BY <1>1, <2>1, <2>3
  <2>6. Place(((h + i) - 1) - b, size) \in Places
    BY <1>1, <2>5, Quotient
  <2> QED BY <2>3, <2>4, <2>6 DEF SqHolds
<1>4. cids = [i \in 1 .. t |-> s[(head + i - 1) % size]]
  BY DEF Fetched
<1> HIDE DEF cids
<1>5. \A i \in 1 .. t : cids[i] = h + i /\ cids[i] \in CidsOrNone
  BY <1>3, <1>4
<1>6. cids \in Seq(CidsOrNone) /\ Len(cids) = t
  BY <1>4, <1>5
<1> QED BY <1>5, <1>6 DEF cids

(* t commands are taken and answered. *)
LEMMA TakeMany ==
  ASSUME NEW sizeC \in Sizes, NEW sizeS \in Sizes, NEW c \in Completions(sizeC),
         NEW s \in [Places -> CidsOrNone], NEW u, IsHost(u), NEW bell,
         NEW w, NEW h, NEW b, NEW f, NEW head, NEW tail,
         CqTracked(c, sizeC, u, w, h), SqTracked(head, tail, sizeS, s, bell, u, h, b, f),
         NEW t \in Nat, h + t <= f,
         NEW cids, cids = Fetched(s, head, sizeS, t), NEW d, d = PostAll(c, cids, sizeC)
  PROVE  /\ d \in Completions(sizeC)
         /\ \E v : /\ Len(v) = Len(w) + t
                   /\ CqTracked(d, sizeC, u, v, h + t)
                   /\ SqTracked((head + t) % sizeS, tail, sizeS, s, bell, u, h + t, b, f)
<1> DEFINE r == Len(u.reaped)
<1> DEFINE n == u.issued
<1>1. /\ n \in Nat /\ n <= MaxSubmits /\ MaxSubmits \in Nat /\ r \in Nat
      /\ sizeC \in Nat \ {0} /\ sizeS \in Nat \ {0}
  BY SizeFits, SizesAssumption DEF IsHost
<1>2. /\ h \in Nat /\ h <= n /\ n < r + sizeC /\ Answers(w, h) /\ HostHolds(u, w, sizeC)
      /\ CqHolds(c, r, w, sizeC) /\ r <= Len(w) /\ Len(w) \in Nat
  BY DEF CqTracked, HostHolds, Answers
<1>3. /\ b \in Nat /\ f \in Nat /\ b <= h /\ h <= f /\ f <= n /\ n < h + sizeS
      /\ head = Place(h - b, sizeS) /\ tail = Place(f - b, sizeS)
      /\ u.tail = Place(n - b, sizeS) /\ bell = u.tail /\ SqHolds(s, sizeS, h, n, b)
  BY DEF SqTracked
<1> HIDE DEF r, n
<1>4. cids \in Seq(CidsOrNone) /\ Len(cids) = t /\ \A i \in 1 .. t : cids[i] = h + i
  <2>1. h + t <= n
    BY <1>1, <1>2, <1>3
  <2>2. /\ h \in Nat /\ b \in Nat /\ b <= h /\ n \in Nat
        /\ SqHolds(s, sizeS, h, n, b) /\ head = Place(h - b, sizeS)
    BY <1>1, <1>2, <1>3
  <2> QED BY <2>1, <2>2, FetchesNext
<1>5. h + t < r + sizeC /\ h + t <= MaxSubmits /\ h + t <= n
  BY <1>1, <1>2, <1>3
<1>6. PICK v : /\ Answers(v, h + t) /\ Len(v) = Len(w) + t /\ \A k \in 1 .. Len(w) : v[k] = w[k]
               /\ d \in Completions(sizeC) /\ CqHolds(d, r, v, sizeC)
  <2>1. \E v : /\ Answers(v, h + t) /\ Len(v) = Len(w) + t /\ \A k \in 1 .. Len(w) : v[k] = w[k]
               /\ PostAll(c, cids, sizeC) \in Completions(sizeC)
               /\ CqHolds(PostAll(c, cids, sizeC), r, v, sizeC)
    BY <1>1, <1>2, <1>4, <1>5, PostAllHolds
  <2> QED BY <2>1
<1>7. HostHolds(u, v, sizeC)
  <2>1. r <= Len(v) /\ \A k \in 1 .. r : k \in 1 .. Len(w)
    BY <1>1, <1>2, <1>6
  <2> QED BY <1>2, <1>6, <2>1 DEF HostHolds, r
<1>8. CqTracked(d, sizeC, u, v, h + t)
  BY <1>1, <1>2, <1>5, <1>6, <1>7 DEF CqTracked, r, n
<1>9. (head + t) % sizeS = Place((h + t) - b, sizeS)
  <2>1. h - b \in Nat /\ (h - b) + t = (h + t) - b
    BY <1>2, <1>3
  <2>2. Place(head + t, sizeS) = Place((h - b) + t, sizeS)
    BY <1>1, <1>3, <2>1, PlaceAdd
  <2> QED BY <2>1, <2>2 DEF Place
<1>10. SqHolds(s, sizeS, h + t, n, b)
  BY <1>1, <1>2, <1>3 DEF SqHolds
<1>11. SqTracked((head + t) % sizeS, tail, sizeS, s, bell, u, h + t, b, f)
  <2>1. b <= h + t /\ n < (h + t) + sizeS
    BY <1>1, <1>2, <1>3
  <2> QED BY <1>3, <1>9, <1>10, <2>1 DEF SqTracked, n
<1> QED BY <1>6, <1>8, <1>11

(* The host adds a command: its slot is none of those that wait. *)
LEMMA SubmitTracked ==
  ASSUME NEW size \in Sizes, NEW s \in [Places -> CidsOrNone], NEW u, IsHost(u), NEW bell,
         NEW h \in Nat, NEW b, NEW f, NEW head, NEW tail,
         SqTracked(head, tail, size, s, bell, u, h, b, f), u.issued + 1 < h + size,
         NEW x, x.issued = u.issued + 1, x.tail = (u.tail + 1) % size,
         NEW z, z = [s EXCEPT ![u.tail] = u.issued + 1]
  PROVE  SqTracked(head, tail, size, z, x.tail, x, h, b, f)
<1> DEFINE n == u.issued
<1>1. n \in Nat /\ size \in Nat \ {0} /\ 0 .. size - 1 \subseteq Places
  BY SizeFits, SizesAssumption DEF IsHost
<1>2. /\ b \in Nat /\ f \in Nat /\ b <= h /\ h <= f /\ f <= n /\ n < h + size
      /\ head = Place(h - b, size) /\ tail = Place(f - b, size)
      /\ u.tail = Place(n - b, size) /\ SqHolds(s, size, h, n, b)
  BY DEF SqTracked
<1>3. x.issued = n + 1 /\ n + 1 < h + size /\ z = [s EXCEPT ![u.tail] = n + 1]
  OBVIOUS
<1> HIDE DEF n
<1>4. PICK k \in Nat : k = n - b
  BY <1>1, <1>2
<1>5. x.tail = Place((n + 1) - b, size)
  <2>1. (n + 1) - b = k + 1
    BY <1>1, <1>2, <1>4
  <2> QED BY <1>1, <1>2, <1>4, <2>1, PlaceNext
<1>6. \A j \in Nat : Place(j, size) \in Places
  BY <1>1, Quotient
<1>7. ASSUME NEW m \in h + 1 .. n + 1 PROVE z[Place((m - 1) - b, size)] = m
  <2>1. PICK j \in Nat : j = (m - 1) - b
    BY <1>1, <1>2
  <2>2. CASE m = n + 1
    <3>1. j = k
      BY <1>1, <1>2, <1>4, <2>1, <2>2
    <3> QED BY <1>2, <1>3, <1>4, <1>6, <2>1, <2>2, <3>1
  <2>3. CASE m # n + 1
    <3>1. m \in h + 1 .. n /\ j <= k /\ k < j + size /\ j # k
      BY <1>1, <1>2, <1>3, <1>4, <2>1, <2>3
    <3>2. Place(j, size) # Place(k, size)
      BY <1>1, <3>1, PlaceInjective
    <3>3. z[Place(j, size)] = s[Place(j, size)]
      BY <1>2, <1>3, <1>4, <1>6, <3>2
    <3> QED BY <1>2, <2>1, <3>1, <3>3 DEF SqHolds
  <2> QED BY <2>2, <2>3
<1>8. SqHolds(z, size, h, x.issued, b)
  BY <1>3, <1>7 DEF SqHolds
<1>9. f <= x.issued /\ x.issued < h + size
  BY <1>1, <1>2, <1>3
<1> QED BY <1>2, <1>3, <1>5, <1>8, <1>9 DEF SqTracked

(* The host reaps an entry whose phase it expects: it is the next answer,  *)
(* and with the phase it has it will not be taken for new a lap later.     *)
LEMMA ReapTracked ==
  ASSUME NEW size \in Sizes, NEW c, NEW u, IsHost(u), u.reaped \in Seq(CidsOrNone), NEW w, NEW h,
         CqTracked(c, size, u, w, h), c.entries[u.cqHead].phase = u.phase,
         c.entries[u.cqHead].cid \in CidsOrNone,
         NEW x, x.issued = u.issued, x.reaped = Append(u.reaped, c.entries[u.cqHead].cid),
         x.cqHead = (u.cqHead + 1) % size, x.phase = IF x.cqHead = 0 THEN 1 - u.phase ELSE u.phase
  PROVE  CqTracked(c, size, x, w, h)
<1> DEFINE r == Len(u.reaped)
<1>1. r \in Nat /\ u.issued \in Nat /\ size \in Nat \ {0}
  BY SizeFits, SizesAssumption DEF IsHost
<1>2. /\ h \in Nat /\ h <= u.issued /\ u.issued < r + size /\ Answers(w, h) /\ CqHolds(c, r, w, size)
      /\ r <= Len(w) /\ u.cqHead = Place(r, size) /\ u.phase = PhaseOf(r, size) /\ Len(w) \in Nat
      /\ \A k \in 1 .. r : u.reaped[k] = w[k]
  BY DEF CqTracked, HostHolds, Answers
<1> HIDE DEF r
<1>3. PhaseOf(r, size) \in {0, 1}
  BY <1>1, PhaseType
<1>4. r < Len(w)
  <2>1. ASSUME r = Len(w) PROVE FALSE
    <3>1. c.entries[Place(r, size)].phase = 1 - PhaseOf(r, size)
      BY <1>1, <1>2, <2>1 DEF CqHolds
    <3> QED BY <1>2, <1>3, <3>1
  <2> QED BY <1>1, <1>2, <2>1
<1>5. c.entries[Place(r, size)].cid = w[r + 1] /\ c.entries[Place(r, size)].phase = PhaseOf(r, size)
  BY <1>1, <1>2, <1>4 DEF CqHolds
<1>6. /\ x.reaped = Append(u.reaped, w[r + 1]) /\ Len(x.reaped) = r + 1
      /\ x.reaped[r + 1] = w[r + 1] /\ \A k \in 1 .. r : x.reaped[k] = u.reaped[k]
  <2>1. PICK cid \in CidsOrNone : cid = c.entries[u.cqHead].cid
    OBVIOUS
  <2>2. x.reaped = Append(u.reaped, cid) /\ cid = w[r + 1]
    BY <1>2, <1>5, <2>1
  <2>3. /\ Len(x.reaped) = r + 1 /\ x.reaped[r + 1] = cid
        /\ \A k \in 1 .. r : x.reaped[k] = u.reaped[k]
    BY <2>2 DEF r
  <2> QED BY <2>2, <2>3
<1>7. x.cqHead = Place(r + 1, size) /\ x.phase = PhaseOf(r + 1, size)
  <2>1. /\ (Place(r, size) + 1) % size = Place(r + 1, size)
        /\ PhaseOf(r + 1, size) = IF Place(r + 1, size) = 0 THEN 1 - PhaseOf(r, size) ELSE PhaseOf(r, size)
    BY <1>1, PlaceNext
  <2>2. x.cqHead = Place(r + 1, size)
    BY <1>2, <2>1
  <2> QED BY <1>2, <2>1, <2>2
<1>8. HostHolds(x, w, size)
  <2>1. r + 1 <= Len(w)
    BY <1>1, <1>2, <1>4
  <2>2. \A k \in 1 .. r + 1 : k = r + 1 \/ k \in 1 .. r
    BY <1>1
  <2>3. \A k \in 1 .. r + 1 : x.reaped[k] = w[k]
    BY <1>2, <1>6, <2>2
  <2> QED BY <1>6, <1>7, <2>1, <2>3 DEF HostHolds
<1>9. CqHolds(c, r + 1, w, size)
  <2>1. ASSUME NEW j \in Nat, Len(w) <= j, j < (r + 1) + size
        PROVE  c.entries[Place(j, size)].phase = 1 - PhaseOf(j, size)
    <3>1. CASE j < r + size
      BY <1>2, <2>1, <3>1 DEF CqHolds
    <3>2. CASE j = r + size
      <4>1. Place(j, size) = Place(r, size) /\ PhaseOf(j, size) = 1 - PhaseOf(r, size)
        BY <1>1, <3>2, PlaceLap
      <4>2. c.entries[Place(j, size)].phase = PhaseOf(r, size)
        BY <1>5, <4>1
      <4>3. 1 - PhaseOf(j, size) = PhaseOf(r, size)
        BY <1>3, <4>1
      <4> QED BY <4>2, <4>3
    <3>3. j < r + size \/ j = r + size
      BY <1>1, <2>1
    <3> QED BY <3>1, <3>2, <3>3
  <2>2. \A j \in Nat : r + 1 <= j => r <= j
    BY <1>1
  <2> QED BY <1>2, <2>1, <2>2 DEF CqHolds
<1>10. x.issued < Len(x.reaped) + size
  BY <1>1, <1>2, <1>6
<1> QED BY <1>2, <1>6, <1>8, <1>9, <1>10 DEF CqTracked

-----------------------------------------------------------------------------
(* The inductive invariant *)

Fields ==
  /\ IoSq \in [Qids -> [Created : BOOLEAN, Size : Numbers, Head : Places, Tail : Places]]
  /\ IoCq \in [Qids -> [Created : BOOLEAN, Size : Numbers, Tail : Places, Phase : Phases]]
  /\ sqDesc \in [Qids -> [Valid : BOOLEAN, Capacity : Numbers, Head : Places, Tail : Places]]
  /\ cqDesc \in [Qids -> [Valid : BOOLEAN, Capacity : Numbers, Tail : Places, Phase : Phases]]
  /\ sq \in [Qids -> [Places -> CidsOrNone]]
  /\ cq \in [Qids -> Entries]
  /\ Doorbells \in [Qids -> Places]
  /\ fdo \in [UserReady : BOOLEAN, UserCrashed : BOOLEAN, Mode : {"USER", "KERNEL"}]
  /\ host \in [Qids -> [tail : Places, cqHead : Places, phase : Phases, issued : 0 .. MaxSubmits,
                        reaped : Seq(CidsOrNone)]]
  /\ DOMAIN owed = Qids /\ owed = [q \in Qids |-> owed[q]]

Cq(q) == [entries |-> cq[q], tail |-> cqDesc[q].Tail, phase |-> cqDesc[q].Phase]

CqTracks(q, w, h) == CqTracked(Cq(q), IoCq[q].Size, host[q], w, h)
SqTracks(q, h, b, f) ==
  SqTracked(sqDesc[q].Head, sqDesc[q].Tail, IoSq[q].Size, sq[q], Doorbells[q], host[q], h, b, f)

(* owed counts what was answered and what is forwarded and not yet taken. *)
Accounts(q, w, h) ==
  IF IoSq[q].Created THEN \E b, f : SqTracks(q, h, b, f) /\ owed[q] = Len(w) + (f - h)
                     ELSE owed[q] = Len(w)

(* Nothing was ever put into the submission queue. *)
Untouched(q) == sqDesc[q].Head = 0 /\ sqDesc[q].Tail = 0 /\ Doorbells[q] = 0

QueueInv(q) ==
  /\ IoSq[q].Created => q \in Configured /\ IoSq[q].Size \in Sizes
  /\ IoCq[q].Created => /\ q \in Configured /\ IoCq[q].Size \in Sizes
                        /\ \E w, h : CqTracks(q, w, h) /\ Accounts(q, w, h)
  /\ ~ IoCq[q].Created => /\ host[q] = NewHost /\ owed[q] = 0
                          /\ IoSq[q].Created => Untouched(q)

(* The parts of a queue's state that matter are left as they are. *)
SameQueue(q) ==
  /\ IoSq'[q].Created = IoSq[q].Created /\ IoSq'[q].Size = IoSq[q].Size
  /\ IoCq'[q].Created = IoCq[q].Created /\ IoCq'[q].Size = IoCq[q].Size
  /\ sqDesc'[q].Head = sqDesc[q].Head /\ sqDesc'[q].Tail = sqDesc[q].Tail
  /\ cqDesc'[q].Tail = cqDesc[q].Tail /\ cqDesc'[q].Phase = cqDesc[q].Phase
  /\ sq'[q] = sq[q] /\ cq'[q] = cq[q] /\ Doorbells'[q] = Doorbells[q]
  /\ host'[q] = host[q] /\ owed'[q] = owed[q]

LEMMA SameQueueKept ==
  ASSUME NEW q, QueueInv(q), SameQueue(q)
  PROVE  QueueInv(q)'
<1>1. Cq(q)' = Cq(q)
  BY DEF Cq, SameQueue
<1>2. ASSUME NEW w, NEW h PROVE CqTracks(q, w, h)' = CqTracks(q, w, h)
  BY <1>1 DEF CqTracks, SameQueue
<1>3. ASSUME NEW h, NEW b, NEW f PROVE SqTracks(q, h, b, f)' = SqTracks(q, h, b, f)
  BY DEF SqTracks, SameQueue
<1>4. ASSUME NEW w, NEW h, Accounts(q, w, h) PROVE Accounts(q, w, h)'
  BY <1>3, <1>4 DEF Accounts, SameQueue
<1>5. Untouched(q)' = Untouched(q)
  BY DEF Untouched, SameQueue
<1> QED BY <1>2, <1>4, <1>5 DEF QueueInv, SameQueue

LEMMA QueueTypes ==
  ASSUME Fields, NEW q \in Qids
  PROVE  IsHost(host[q]) /\ sq[q] \in [Places -> CidsOrNone] /\ cq[q] \in Entries
  BY DEF Fields, IsHost

LEMMA CqType ==
  ASSUME Fields, NEW q \in Qids, IoCq[q].Size \in Sizes, NEW w, NEW h, CqTracks(q, w, h)
  PROVE  Cq(q) \in Completions(IoCq[q].Size)
<1>1. cq[q] \in Entries /\ cqDesc[q].Phase \in Phases
  BY DEF Fields
<1>2. cqDesc[q].Tail = Place(Len(w), IoCq[q].Size) /\ Len(w) \in Nat
  BY DEF CqTracks, CqTracked, CqHolds, Cq, Answers
<1>3. cqDesc[q].Tail \in 0 .. IoCq[q].Size - 1
  BY <1>2, SizeFits, Quotient
<1> QED BY <1>1, <1>3 DEF Cq, Completions

LEMMA PendingIs ==
  ASSUME NEW q, IoSq[q].Size \in Sizes, sqDesc[q].Capacity = IoSq[q].Size, host[q].issued \in Nat,
         NEW h \in Nat, NEW b, NEW f, SqTracks(q, h, b, f)
  PROVE  Pending(q) = f - h /\ f - h \in Nat
<1> DEFINE size == IoSq[q].Size
<1>1. /\ b \in Nat /\ f \in Nat /\ b <= h /\ h <= f /\ f <= host[q].issued /\ host[q].issued < h + size
      /\ sqDesc[q].Head = Place(h - b, size) /\ sqDesc[q].Tail = Place(f - b, size)
  BY DEF SqTracks, SqTracked
<1>2. size \in Nat \ {0}
  BY SizeFits
<1> HIDE DEF size
<1>3. PICK j \in Nat, k \in Nat : j = h - b /\ k = f - b
  BY <1>1
<1>4. j <= k /\ k < j + size /\ k - j = f - h /\ f - h \in Nat
  BY <1>1, <1>2, <1>3
<1>5. (Place(k, size) + size - Place(j, size)) % size = k - j
  BY <1>2, <1>4, PlaceDistance
<1> QED BY <1>1, <1>3, <1>4, <1>5 DEF Pending, Distance, size

(* t commands of queue q are taken and their answers posted. *)
Takes(q, t, d) ==
  /\ IoSq'[q].Created = IoSq[q].Created /\ IoSq'[q].Size = IoSq[q].Size
  /\ IoCq'[q].Created = IoCq[q].Created /\ IoCq'[q].Size = IoCq[q].Size
  /\ sqDesc'[q].Head = (sqDesc[q].Head + t) % IoSq[q].Size /\ sqDesc'[q].Tail = sqDesc[q].Tail
  /\ cqDesc'[q].Tail = d.tail /\ cqDesc'[q].Phase = d.phase
  /\ sq'[q] = sq[q] /\ cq'[q] = d.entries /\ Doorbells'[q] = Doorbells[q]
  /\ host'[q] = host[q] /\ owed'[q] = owed[q]

LEMMA TakesKept ==
  ASSUME Fields, SqInv, NEW q \in Qids, QueueInv(q), IoSq[q].Created, IoCq[q].Created,
         NEW t \in Nat, t <= Pending(q),
         NEW d, d = PostAll(Cq(q), Fetched(sq[q], sqDesc[q].Head, IoSq[q].Size, t), IoCq[q].Size)
  PROVE  d \in Completions(IoCq[q].Size) /\ (Takes(q, t, d) => QueueInv(q)')
<1>1. IoCq[q].Created /\ q \in Configured /\ IoSq[q].Size \in Sizes /\ IoCq[q].Size \in Sizes
  BY DEF QueueInv
<1>2. PICK w, h : CqTracks(q, w, h) /\ Accounts(q, w, h)
  BY <1>1 DEF QueueInv
<1>3. PICK b, f : SqTracks(q, h, b, f) /\ owed[q] = Len(w) + (f - h)
  BY <1>2 DEF Accounts
<1>4. IsHost(host[q]) /\ sq[q] \in [Places -> CidsOrNone] /\ Cq(q) \in Completions(IoCq[q].Size)
  BY <1>1, <1>2, QueueTypes, CqType
<1>5. h \in Nat /\ host[q].issued \in Nat /\ Len(w) \in Nat
  BY <1>2, <1>4, SizesAssumption DEF CqTracks, CqTracked, IsHost, Answers
<1>6. sqDesc[q].Capacity = IoSq[q].Size
  BY DEF SqInv, SqAgree
<1>7. Pending(q) = f - h /\ f - h \in Nat /\ f \in Nat
  BY <1>1, <1>3, <1>5, <1>6, PendingIs DEF SqTracks, SqTracked
<1>8. h + t <= f
  BY <1>5, <1>7
<1>9. /\ d \in Completions(IoCq[q].Size)
      /\ \E v : /\ Len(v) = Len(w) + t
                /\ CqTracked(d, IoCq[q].Size, host[q], v, h + t)
                /\ SqTracked((sqDesc[q].Head + t) % IoSq[q].Size, sqDesc[q].Tail, IoSq[q].Size, sq[q],
                             Doorbells[q], host[q], h + t, b, f)
  <2>1. /\ CqTracked(Cq(q), IoCq[q].Size, host[q], w, h)
        /\ SqTracked(sqDesc[q].Head, sqDesc[q].Tail, IoSq[q].Size, sq[q], Doorbells[q], host[q], h, b, f)
    BY <1>2, <1>3 DEF CqTracks, SqTracks
  <2> QED BY <1>1, <1>4, <1>8, <2>1, TakeMany
<1>10. ASSUME Takes(q, t, d) PROVE QueueInv(q)'
  <2>1. PICK v : /\ Len(v) = Len(w) + t
                 /\ CqTracked(d, IoCq[q].Size, host[q], v, h + t)
                 /\ SqTracked((sqDesc[q].Head + t) % IoSq[q].Size, sqDesc[q].Tail, IoSq[q].Size, sq[q],
                              Doorbells[q], host[q], h + t, b, f)
    BY <1>9
  <2>2. Cq(q)' = d
    BY <1>9, <1>10 DEF Cq, Takes, Completions
  <2>3. CqTracks(q, v, h + t)'
    BY <1>10, <2>1, <2>2 DEF CqTracks, Takes
  <2>4. SqTracks(q, h + t, b, f)'
    BY <1>10, <2>1 DEF SqTracks, Takes
  <2>5. owed'[q] = Len(v) + (f - (h + t))
    BY <1>3, <1>5, <1>7, <1>10, <2>1 DEF Takes
  <2>6. Accounts(q, v, h + t)'
    BY <1>10, <2>4, <2>5 DEF Accounts, Takes
  <2> QED BY <1>1, <1>10, <2>3, <2>6 DEF QueueInv, Takes
<1> QED BY <1>9, <1>10

QueuesInv == \A q \in Qids : QueueInv(q)

(* What is known of a queue when both queues of its number exist *)
LEMMA SqExists ==
  ASSUME Fields, SqInv, CqInv, NEW q \in Qids, QueueInv(q), IoSq[q].Created, IoCq[q].Created
  PROVE  /\ q \in Configured /\ IoCq[q].Created /\ sqDesc[q].Valid /\ cqDesc[q].Valid
         /\ IoSq[q].Size \in Sizes /\ sqDesc[q].Capacity = IoSq[q].Size
         /\ IoCq[q].Size \in Sizes /\ cqDesc[q].Capacity = IoCq[q].Size
         /\ IoCq[q].Tail = cqDesc[q].Tail /\ IoCq[q].Phase = cqDesc[q].Phase
         /\ \E w, h, b, f : /\ CqTracks(q, w, h) /\ SqTracks(q, h, b, f) /\ owed[q] = Len(w) + (f - h)
                            /\ h \in Nat /\ f \in Nat /\ Len(w) \in Nat /\ host[q].issued \in Nat
                            /\ Pending(q) = f - h /\ f - h \in Nat
<1>1. /\ IoSq[q].Size \in Sizes /\ IoCq[q].Created /\ q \in Configured /\ IoCq[q].Size \in Sizes
  BY DEF QueueInv
<1>2. /\ sqDesc[q].Valid /\ cqDesc[q].Valid /\ sqDesc[q].Capacity = IoSq[q].Size
      /\ cqDesc[q].Capacity = IoCq[q].Size
      /\ IoCq[q].Tail = cqDesc[q].Tail /\ IoCq[q].Phase = cqDesc[q].Phase
  BY <1>1 DEF SqInv, CqInv, SqAgree, CqAgree
<1>3. PICK w, h : CqTracks(q, w, h) /\ Accounts(q, w, h)
  BY <1>1 DEF QueueInv
<1>4. PICK b, f : SqTracks(q, h, b, f) /\ owed[q] = Len(w) + (f - h)
  BY <1>3 DEF Accounts
<1>5. h \in Nat /\ f \in Nat /\ Len(w) \in Nat /\ host[q].issued \in Nat
  BY <1>3, <1>4, QueueTypes, SizesAssumption
     DEF CqTracks, CqTracked, Answers, SqTracks, SqTracked, IsHost
<1>6. Pending(q) = f - h /\ f - h \in Nat
  BY <1>1, <1>2, <1>4, <1>5, PendingIs
<1> QED BY <1>1, <1>2, <1>3, <1>4, <1>5, <1>6

(* and when only the submission queue does: it is empty. *)
LEMMA SqAlone ==
  ASSUME SqInv, NEW q \in Qids, QueueInv(q), IoSq[q].Created, ~ IoCq[q].Created
  PROVE  /\ Pending(q) = 0 /\ host[q] = NewHost /\ owed[q] = 0
         /\ IoSq[q].Size \in Sizes /\ sqDesc[q].Capacity = IoSq[q].Size
         /\ sqDesc[q].Head = 0 /\ sqDesc[q].Tail = 0 /\ Doorbells[q] = 0
         /\ SqTracks(q, 0, 0, 0)
<1>1. host[q] = NewHost /\ owed[q] = 0 /\ IoSq[q].Size \in Sizes /\ Untouched(q)
  BY DEF QueueInv
<1>2. sqDesc[q].Capacity = IoSq[q].Size
  BY DEF SqInv, SqAgree
<1>3. PICK size \in Nat \ {0} : size = IoSq[q].Size
  BY <1>1, SizeFits
<1>4. NewHost.issued = 0 /\ NewHost.tail = 0
  BY DEF NewHost
<1>5. 0 - 0 = 0 /\ Place(0, size) = 0 /\ 0 < 0 + size /\ 0 + 1 .. 0 = {}
  BY <1>3, PlaceInFirstLap
<1>6. SqTracks(q, 0, 0, 0)
  BY <1>1, <1>3, <1>4, <1>5 DEF SqTracks, SqTracked, SqHolds, Untouched
<1>7. Pending(q) = 0
  BY <1>1, <1>2, <1>4, <1>5, <1>6, PendingIs
<1> QED BY <1>1, <1>2, <1>6, <1>7 DEF Untouched

LEMMA CreateCqKeeps ==
  ASSUME Fields, SqInv, QueuesInv, NEW q, NEW size \in Sizes, VnvmeCreateIoCompletionQueue(q, size)
  PROVE  QueuesInv' /\ Fields'
<1>1. q \in Qids /\ q \in Configured
  BY ConfiguredExist DEF VnvmeCreateIoCompletionQueue
<1>2. /\ IoCq' = [IoCq EXCEPT ![q] = [Created |-> TRUE, Size |-> size, Tail |-> 0, Phase |-> 1]]
      /\ cqDesc' = [cqDesc EXCEPT ![q] = [Valid |-> TRUE, Capacity |-> size, Tail |-> 0, Phase |-> 1]]
      /\ UNCHANGED <<IoSq, IoQueueCount, sqDesc, sq, Doorbells, fdo, host, owed>>
  BY DEF VnvmeCreateIoCompletionQueue
<1>3. PICK e : /\ e = [i \in Places |-> IF i < size THEN [cid |-> NoCommand, phase |-> 0] ELSE cq[q][i]]
               /\ cq' = [cq EXCEPT ![q] = e]
  BY <1>1 DEF VnvmeCreateIoCompletionQueue, Fields
<1>4. size \in Nat \ {0} /\ 0 .. size - 1 \subseteq Places /\ 0 \in Places
  BY SizeFits
<1>5. e \in Entries
  <2>1. [cid |-> NoCommand, phase |-> 0] \in [cid : CidsOrNone, phase : Phases]
    BY DEF CidsOrNone, Phases
  <2>2. cq[q] \in Entries
    BY <1>1 DEF Fields
  <2> QED BY <1>3, <2>1, <2>2 DEF Entries
<1>6. Fields'
  <2>1. IoCq' \in [Qids -> [Created : BOOLEAN, Size : Numbers, Tail : Places, Phase : Phases]]
    BY <1>1, <1>2, <1>4 DEF Fields, Numbers, Phases
  <2>2. cqDesc' \in [Qids -> [Valid : BOOLEAN, Capacity : Numbers, Tail : Places, Phase : Phases]]
    BY <1>1, <1>2, <1>4 DEF Fields, Numbers, Phases
  <2>3. cq' \in [Qids -> Entries]
    BY <1>1, <1>3, <1>5 DEF Fields
  <2> QED BY <1>2, <2>1, <2>2, <2>3 DEF Fields
<1>7. QueueInv(q)'
  <2>1. /\ ~ IoCq[q].Created /\ host[q] = NewHost /\ owed[q] = 0
        /\ IoSq[q].Created => IoSq[q].Size \in Sizes /\ SqTracks(q, 0, 0, 0)
    BY <1>1, SqAlone DEF VnvmeCreateIoCompletionQueue, QueuesInv, QueueInv
  <2>2. IoCq'[q].Created /\ IoCq'[q].Size = size /\ IoSq'[q] = IoSq[q]
    BY <1>1, <1>2, <2>1 DEF Fields
  <2>3. Cq(q)' = [entries |-> e, tail |-> 0, phase |-> 1]
    BY <1>1, <1>2, <1>3 DEF Cq, Fields
  <2>4. host'[q] = NewHost /\ owed'[q] = 0
    BY <1>2, <2>1
  <2>5. << >> \in Seq(Nat) /\ Len(<< >>) = 0
    OBVIOUS
  <2>6. Answers(<< >>, 0)
    BY <2>5 DEF Answers
  <2>7. Place(0, size) = 0 /\ PhaseOf(0, size) = 1
    BY <1>4, PlaceInFirstLap
  <2>8. HostHolds(NewHost, << >>, size)
    BY <2>5, <2>7 DEF HostHolds, NewHost
  <2>9. CqHolds([entries |-> e, tail |-> 0, phase |-> 1], 0, << >>, size)
    <3>1. ASSUME NEW j \in Nat, j < size PROVE e[Place(j, size)].phase = 1 - PhaseOf(j, size)
      <4>1. j \in 0 .. size - 1 /\ j \in Places /\ Place(j, size) = j /\ PhaseOf(j, size) = 1
        BY <1>4, <3>1, PlaceInFirstLap
      <4>2. e[j].phase = 0
        BY <1>3, <3>1, <4>1
      <4> QED BY <4>1, <4>2
    <3>2. 0 + size = size
      BY <1>4
    <3> QED BY <2>5, <2>7, <3>1, <3>2 DEF CqHolds
  <2>10. CqTracks(q, << >>, 0)'
    <3>1. CqTracked([entries |-> e, tail |-> 0, phase |-> 1], size, NewHost, << >>, 0)
      <4>1. NewHost.issued = 0 /\ Len(NewHost.reaped) = 0
        BY <2>5 DEF NewHost
      <4>2. 0 < 0 + size
        BY <1>4
      <4> QED BY <2>6, <2>8, <2>9, <4>1, <4>2 DEF CqTracked
    <3> QED BY <2>2, <2>3, <2>4, <3>1 DEF CqTracks
  <2>11. Accounts(q, << >>, 0)'
    <3>1. IoSq[q].Created => SqTracks(q, 0, 0, 0)'
      BY <1>2, <2>1, <2>2 DEF SqTracks
    <3>2. 0 = 0 + (0 - 0)
      OBVIOUS
    <3> QED BY <2>2, <2>4, <2>5, <3>1, <3>2 DEF Accounts
  <2> QED BY <1>1, <2>1, <2>2, <2>10, <2>11 DEF QueueInv
<1>8. ASSUME NEW p \in Qids, p # q PROVE QueueInv(p)'
  <2>1. SameQueue(p)
    BY <1>1, <1>2, <1>3, <1>8 DEF SameQueue, Fields
  <2> QED BY <2>1, SameQueueKept DEF QueuesInv
<1> QED BY <1>6, <1>7, <1>8 DEF QueuesInv

(* A new submission queue starts at the command the host issues next: what *)
(* it lost with the old one is answered no more.                           *)
LEMMA CreateSqKeeps ==
  ASSUME Rewound, Fields, QueuesInv, NEW q, NEW c, NEW size \in Sizes,
         VnvmeCreateIoSubmissionQueue(q, size, c)
  PROVE  QueuesInv' /\ Fields'
<1>1. q \in Qids /\ q \in Configured
  BY ConfiguredExist DEF VnvmeCreateIoSubmissionQueue
<1>2. /\ ~ IoSq[q].Created /\ Doorbells[q] = 0
      /\ IoSq' = [IoSq EXCEPT ![q] = [Created |-> TRUE, Size |-> size, Head |-> 0, Tail |-> 0]]
      /\ sqDesc' = [sqDesc EXCEPT ![q] = [Valid |-> TRUE, Capacity |-> size, Head |-> 0, Tail |-> 0]]
      /\ host' = [host EXCEPT ![q].tail = 0]
      /\ UNCHANGED <<IoCq, cqDesc, cq, Doorbells, fdo, owed>>
  BY <1>1 DEF VnvmeCreateIoSubmissionQueue
<1>3. PICK e : /\ e = [i \in Places |-> IF i < size THEN NoCommand ELSE sq[q][i]]
               /\ sq' = [sq EXCEPT ![q] = e]
  BY <1>1 DEF VnvmeCreateIoSubmissionQueue, Fields
<1>4. size \in Nat \ {0} /\ 0 \in Places
  BY SizeFits
<1>5. e \in [Places -> CidsOrNone]
  <2>1. NoCommand \in CidsOrNone /\ sq[q] \in [Places -> CidsOrNone]
    BY <1>1 DEF CidsOrNone, Fields
  <2> QED BY <1>3, <2>1
<1>6. PICK x : x = [host[q] EXCEPT !.tail = 0]
  OBVIOUS
<1>7. host' = [host EXCEPT ![q] = x]
  BY <1>1, <1>2, <1>6 DEF Fields
<1>8. /\ x.tail = 0 /\ x.issued = host[q].issued /\ x.reaped = host[q].reaped
      /\ x.cqHead = host[q].cqHead /\ x.phase = host[q].phase
      /\ x \in [tail : Places, cqHead : Places, phase : Phases, issued : 0 .. MaxSubmits,
                reaped : Seq(CidsOrNone)]
  <2>1. host[q] \in [tail : Places, cqHead : Places, phase : Phases, issued : 0 .. MaxSubmits,
                     reaped : Seq(CidsOrNone)]
    BY <1>1 DEF Fields
  <2> QED BY <1>4, <1>6, <2>1
<1>9. Fields'
  <2>1. IoSq' \in [Qids -> [Created : BOOLEAN, Size : Numbers, Head : Places, Tail : Places]]
    BY <1>1, <1>2, <1>4 DEF Fields, Numbers
  <2>2. sqDesc' \in [Qids -> [Valid : BOOLEAN, Capacity : Numbers, Head : Places, Tail : Places]]
    BY <1>1, <1>2, <1>4 DEF Fields, Numbers
  <2>3. sq' \in [Qids -> [Places -> CidsOrNone]]
    BY <1>1, <1>3, <1>5 DEF Fields
  <2>4. host' \in [Qids -> [tail : Places, cqHead : Places, phase : Phases, issued : 0 .. MaxSubmits,
                            reaped : Seq(CidsOrNone)]]
    BY <1>1, <1>7, <1>8 DEF Fields
  <2> QED BY <1>2, <2>1, <2>2, <2>3, <2>4 DEF Fields
<1>10. /\ IoSq'[q].Created /\ IoSq'[q].Size = size /\ IoCq'[q] = IoCq[q] /\ Cq(q)' = Cq(q)
       /\ sqDesc'[q].Head = 0 /\ sqDesc'[q].Tail = 0 /\ Doorbells'[q] = 0 /\ host'[q] = x
       /\ owed'[q] = owed[q]
  BY <1>1, <1>2, <1>7 DEF Fields, Cq
<1>11. PICK n \in Nat : n = host[q].issued
  BY <1>1, SizesAssumption DEF Fields
<1>12. SqTracks(q, n, n, n)'
  <2>1. n - n = 0 /\ n <= n /\ n < n + size /\ Place(0, size) = 0 /\ n + 1 .. n = {}
    BY <1>4, PlaceInFirstLap
  <2>2. SqTracked(0, 0, size, sq'[q], 0, x, n, n, n)
    BY <1>8, <1>11, <2>1 DEF SqTracked, SqHolds
  <2> QED BY <1>10, <2>2 DEF SqTracks
<1>13. ASSUME IoCq[q].Created PROVE QueueInv(q)'
  <2>1. IoCq[q].Size \in Sizes
    BY <1>1, <1>13 DEF QueuesInv, QueueInv
  <2>2. PICK w, h : CqTracks(q, w, h) /\ owed[q] = Len(w)
    BY <1>1, <1>2, <1>13 DEF QueuesInv, QueueInv, Accounts
  <2>3. h \in Nat /\ h <= n /\ Answers(w, h) /\ Len(w) \in Nat
    BY <1>11, <2>2 DEF CqTracks, CqTracked, Answers
  <2>4. Answers(w, n)
    BY <1>11, <2>3, AnswersLater
  <2>5. CqTracked(Cq(q), IoCq[q].Size, x, w, n)
    <3>1. CqTracked(Cq(q), IoCq[q].Size, host[q], w, h)
      BY <2>2 DEF CqTracks
    <3> QED BY <1>8, <1>11, <2>4, <3>1 DEF CqTracked, HostHolds
  <2>6. CqTracks(q, w, n)'
    BY <1>10, <2>5 DEF CqTracks
  <2>7. owed'[q] = Len(w) + (n - n)
    BY <1>10, <1>11, <2>2, <2>3
  <2>8. Accounts(q, w, n)'
    BY <1>10, <1>12, <2>7 DEF Accounts
  <2>9. IoCq'[q].Created /\ IoCq'[q].Size \in Sizes /\ IoSq'[q].Size \in Sizes
    BY <1>10, <1>13, <2>1
  <2> QED BY <1>1, <2>6, <2>8, <2>9 DEF QueueInv
<1>14. ASSUME ~ IoCq[q].Created PROVE QueueInv(q)'
  <2>1. host[q] = NewHost /\ owed[q] = 0
    BY <1>1, <1>14 DEF QueuesInv, QueueInv
  <2>2. n = 0 /\ x = NewHost
    BY <1>6, <1>11, <2>1 DEF NewHost
  <2>3. ~ IoCq'[q].Created /\ host'[q] = NewHost /\ owed'[q] = 0 /\ IoSq'[q].Size \in Sizes
    BY <1>10, <1>14, <2>1, <2>2
  <2>4. Untouched(q)'
    BY <1>10 DEF Untouched
  <2> QED BY <1>1, <2>3, <2>4 DEF QueueInv
<1>15. ASSUME NEW p \in Qids, p # q PROVE QueueInv(p)'
  <2>1. SameQueue(p)
    BY <1>1, <1>2, <1>3, <1>7, <1>15 DEF SameQueue, Fields
  <2> QED BY <2>1, SameQueueKept DEF QueuesInv
<1> QED BY <1>9, <1>13, <1>14, <1>15 DEF QueuesInv

LEMMA DeleteSqKeeps ==
  ASSUME Fields, SqInv, CqInv, QueuesInv, NEW q, VnvmeDeleteIoSubmissionQueue(q)
  PROVE  QueuesInv' /\ Fields'
<1>1. q \in Qids /\ IoSq[q].Created
  BY ConfiguredExist DEF VnvmeDeleteIoSubmissionQueue
<1>2. PICK d : d = [sqDesc[q] EXCEPT !.Valid = FALSE, !.Head = 0, !.Tail = 0]
  OBVIOUS
<1>3. /\ IoSq' = [IoSq EXCEPT ![q] = ZeroSq] /\ sqDesc' = [sqDesc EXCEPT ![q] = d]
      /\ UNCHANGED <<IoCq, cqDesc, sq, cq, Doorbells, fdo, host>>
  BY <1>1, <1>2 DEF VnvmeDeleteIoSubmissionQueue, Fields
<1>4. owed' = [owed EXCEPT ![q] = owed[q] - Pending(q)]
  BY <1>1 DEF VnvmeDeleteIoSubmissionQueue, Fields
<1>5. Fields'
  <2>1. IoSq' \in [Qids -> [Created : BOOLEAN, Size : Numbers, Head : Places, Tail : Places]]
    BY <1>1, <1>3, ZeroIsPlace DEF Fields, Numbers, ZeroSq
  <2>2. d \in [Valid : BOOLEAN, Capacity : Numbers, Head : Places, Tail : Places]
    <3>1. sqDesc[q] \in [Valid : BOOLEAN, Capacity : Numbers, Head : Places, Tail : Places]
      BY <1>1 DEF Fields
    <3> QED BY <1>2, <3>1, ZeroIsPlace
  <2>3. sqDesc' \in [Qids -> [Valid : BOOLEAN, Capacity : Numbers, Head : Places, Tail : Places]]
    BY <1>1, <1>3, <2>2 DEF Fields
  <2>4. DOMAIN owed' = Qids /\ owed' = [p \in Qids |-> owed'[p]]
    BY <1>4 DEF Fields
  <2> QED BY <1>3, <2>1, <2>3, <2>4 DEF Fields
<1>6. ASSUME ~ IoCq[q].Created PROVE QueueInv(q)'
  <2>1. Pending(q) = 0 /\ host[q] = NewHost /\ owed[q] = 0
    BY <1>1, <1>6, SqAlone DEF QueuesInv
  <2>2. owed'[q] = 0 /\ ~ IoSq'[q].Created /\ IoCq'[q] = IoCq[q] /\ host'[q] = host[q]
    BY <1>1, <1>3, <1>4, <2>1 DEF Fields, ZeroSq
  <2>3. ~ IoCq'[q].Created /\ host'[q] = NewHost
    BY <1>6, <2>1, <2>2
  <2> QED BY <2>2, <2>3 DEF QueueInv
<1>7. ASSUME IoCq[q].Created PROVE QueueInv(q)'
  <2>1. /\ q \in Configured /\ IoCq[q].Size \in Sizes
        /\ \E w, h, b, f : /\ CqTracks(q, w, h) /\ owed[q] = Len(w) + (f - h) /\ Len(w) \in Nat
                           /\ Pending(q) = f - h /\ f - h \in Nat
    BY <1>1, <1>7, SqExists DEF QueuesInv
  <2>2. PICK w, h, b, f : /\ CqTracks(q, w, h) /\ owed[q] = Len(w) + (f - h) /\ Len(w) \in Nat
                          /\ Pending(q) = f - h /\ f - h \in Nat
    BY <2>1
  <2>3. owed[q] - Pending(q) = Len(w)
    BY <2>2
  <2>4. owed'[q] = Len(w) /\ ~ IoSq'[q].Created /\ IoCq'[q] = IoCq[q] /\ Cq(q)' = Cq(q) /\ host'[q] = host[q]
    BY <1>1, <1>3, <1>4, <2>3 DEF Fields, ZeroSq, Cq
  <2>5. CqTracks(q, w, h)' /\ Accounts(q, w, h)'
    BY <2>2, <2>4 DEF CqTracks, Accounts
  <2>6. IoCq'[q].Created /\ IoCq'[q].Size \in Sizes
    BY <1>7, <2>1, <2>4
  <2> QED BY <2>1, <2>4, <2>5, <2>6 DEF QueueInv
<1>8. ASSUME NEW p \in Qids, p # q PROVE QueueInv(p)'
  <2>1. SameQueue(p)
    BY <1>1, <1>3, <1>4, <1>8 DEF SameQueue, Fields
  <2> QED BY <2>1, SameQueueKept DEF QueuesInv
<1> QED BY <1>5, <1>6, <1>7, <1>8 DEF QueuesInv

LEMMA DeleteCqKeeps ==
  ASSUME Fields, QueuesInv, NEW q, VnvmeDeleteIoCompletionQueue(q)
  PROVE  QueuesInv' /\ Fields'
<1>1. q \in Qids /\ ~ IoSq[q].Created
  BY ConfiguredExist DEF VnvmeDeleteIoCompletionQueue
<1>2. PICK d : d = [cqDesc[q] EXCEPT !.Valid = FALSE, !.Tail = 0, !.Phase = 1]
  OBVIOUS
<1>3. /\ IoCq' = [IoCq EXCEPT ![q] = ZeroCq] /\ cqDesc' = [cqDesc EXCEPT ![q] = d]
      /\ host' = [host EXCEPT ![q] = NewHost] /\ owed' = [owed EXCEPT ![q] = 0]
      /\ UNCHANGED <<IoSq, sqDesc, sq, cq, Doorbells, fdo>>
  BY <1>1, <1>2 DEF VnvmeDeleteIoCompletionQueue, Fields
<1>4. Fields'
  <2>1. IoCq' \in [Qids -> [Created : BOOLEAN, Size : Numbers, Tail : Places, Phase : Phases]]
    BY <1>1, <1>3, ZeroIsPlace DEF Fields, Numbers, ZeroCq, Phases
  <2>2. d \in [Valid : BOOLEAN, Capacity : Numbers, Tail : Places, Phase : Phases]
    <3>1. cqDesc[q] \in [Valid : BOOLEAN, Capacity : Numbers, Tail : Places, Phase : Phases]
      BY <1>1 DEF Fields
    <3> QED BY <1>2, <3>1, ZeroIsPlace DEF Phases
  <2>3. cqDesc' \in [Qids -> [Valid : BOOLEAN, Capacity : Numbers, Tail : Places, Phase : Phases]]
    BY <1>1, <1>3, <2>2 DEF Fields
  <2>4. NewHost \in [tail : Places, cqHead : Places, phase : Phases, issued : 0 .. MaxSubmits,
                     reaped : Seq(CidsOrNone)]
    BY ZeroIsPlace, SizesAssumption DEF NewHost, Phases
  <2>5. host' \in [Qids -> [tail : Places, cqHead : Places, phase : Phases, issued : 0 .. MaxSubmits,
                            reaped : Seq(CidsOrNone)]]
    BY <1>1, <1>3, <2>4 DEF Fields
  <2>6. DOMAIN owed' = Qids /\ owed' = [p \in Qids |-> owed'[p]]
    BY <1>3 DEF Fields
  <2> QED BY <1>3, <2>1, <2>3, <2>5, <2>6 DEF Fields
<1>5. QueueInv(q)'
  <2>1. ~ IoCq'[q].Created /\ ~ IoSq'[q].Created /\ host'[q] = NewHost /\ owed'[q] = 0
    BY <1>1, <1>3 DEF Fields, ZeroCq
  <2> QED BY <2>1 DEF QueueInv
<1>6. ASSUME NEW p \in Qids, p # q PROVE QueueInv(p)'
  <2>1. SameQueue(p)
    BY <1>1, <1>3, <1>6 DEF SameQueue, Fields
  <2> QED BY <2>1, SameQueueKept DEF QueuesInv
<1> QED BY <1>4, <1>5, <1>6 DEF QueuesInv

(* Forwarding up to the doorbell makes what lies between owed. *)
LEMMA ForwardQueue ==
  ASSUME Fields, SqInv, CqInv, NEW q \in Qids, QueueInv(q), IoSq[q].Created, IoCq[q].Created,
         IoSq'[q].Created = IoSq[q].Created, IoSq'[q].Size = IoSq[q].Size,
         sqDesc'[q].Head = sqDesc[q].Head, sqDesc'[q].Tail = Doorbells[q],
         owed'[q] = owed[q] + Distance(sqDesc[q].Tail, Doorbells[q], sqDesc[q].Capacity),
         IoCq'[q] = IoCq[q], cqDesc'[q] = cqDesc[q], sq'[q] = sq[q], cq'[q] = cq[q],
         Doorbells'[q] = Doorbells[q], host'[q] = host[q]
  PROVE  QueueInv(q)'
<1> DEFINE size == IoSq[q].Size
<1> DEFINE n == host[q].issued
<1>1. /\ q \in Configured /\ IoCq[q].Created /\ size \in Sizes /\ sqDesc[q].Capacity = size
      /\ IoCq[q].Size \in Sizes
      /\ \E w, h, b, f : /\ CqTracks(q, w, h) /\ SqTracks(q, h, b, f) /\ owed[q] = Len(w) + (f - h)
                         /\ h \in Nat /\ f \in Nat /\ Len(w) \in Nat /\ n \in Nat
  BY SqExists
<1>2. PICK w, h, b, f : /\ CqTracks(q, w, h) /\ SqTracks(q, h, b, f) /\ owed[q] = Len(w) + (f - h)
                        /\ h \in Nat /\ f \in Nat /\ Len(w) \in Nat /\ n \in Nat
  BY <1>1
<1>3. /\ b \in Nat /\ b <= h /\ h <= f /\ f <= n /\ n < h + size
      /\ sqDesc[q].Head = Place(h - b, size) /\ sqDesc[q].Tail = Place(f - b, size)
      /\ host[q].tail = Place(n - b, size) /\ Doorbells[q] = host[q].tail
      /\ SqHolds(sq[q], size, h, n, b)
  BY <1>2 DEF SqTracks, SqTracked
<1>4. size \in Nat \ {0}
  BY <1>1, SizeFits
<1>5. Distance(sqDesc[q].Tail, Doorbells[q], sqDesc[q].Capacity) = n - f
  <2> HIDE DEF size, n
  <2>1. PICK j \in Nat, k \in Nat : j = f - b /\ k = n - b
    BY <1>2, <1>3
  <2>2. j <= k /\ k < j + size /\ k - j = n - f
    BY <1>2, <1>3, <1>4, <2>1
  <2>3. (Place(k, size) + size - Place(j, size)) % size = k - j
    BY <1>4, <2>2, PlaceDistance
  <2> QED BY <1>1, <1>3, <2>1, <2>2, <2>3 DEF Distance
<1>6. owed'[q] = Len(w) + (n - h)
  <2>1. owed'[q] = (Len(w) + (f - h)) + (n - f)
    BY <1>2, <1>5
  <2> HIDE DEF n
  <2> QED BY <1>2, <2>1
<1>7. SqTracks(q, h, b, n)'
  <2>1. h <= n /\ n <= n
    BY <1>2, <1>3
  <2> QED BY <1>2, <1>3, <2>1 DEF SqTracks, SqTracked
<1>8. CqTracks(q, w, h)'
  BY <1>2 DEF CqTracks, Cq
<1>9. Accounts(q, w, h)'
  BY <1>6, <1>7 DEF Accounts
<1> QED BY <1>1, <1>8, <1>9 DEF QueueInv

LEMMA ForwardKeeps ==
  ASSUME Fields, SqInv, CqInv, QueuesInv, ForwardIo
  PROVE  QueuesInv' /\ Fields'
<1>1. /\ sqDesc' = [q \in Qids |-> IF q \in Rung /\ fdo.UserReady
                                   THEN Tailed(sqDesc[q], Doorbells[q]) ELSE sqDesc[q]]
      /\ owed' = [q \in Qids |-> IF q \in Rung /\ fdo.UserReady
                                 THEN owed[q] + Distance(sqDesc[q].Tail, Doorbells[q], sqDesc[q].Capacity)
                                 ELSE owed[q]]
      /\ IoSq' = [q \in Qids |-> IF q \in Rung THEN Tailed(IoSq[q], Doorbells[q]) ELSE IoSq[q]]
      /\ UNCHANGED <<IoCq, cqDesc, sq, cq, Doorbells, fdo, host>>
  BY DEF ForwardIo, Tailed
<1>2. ASSUME NEW q \in Qids
      PROVE  /\ Tailed(IoSq[q], Doorbells[q]) \in [Created : BOOLEAN, Size : Numbers, Head : Places, Tail : Places]
             /\ Tailed(IoSq[q], Doorbells[q]).Created = IoSq[q].Created
             /\ Tailed(IoSq[q], Doorbells[q]).Size = IoSq[q].Size
             /\ Tailed(sqDesc[q], Doorbells[q]) \in [Valid : BOOLEAN, Capacity : Numbers, Head : Places, Tail : Places]
             /\ Tailed(sqDesc[q], Doorbells[q]).Head = sqDesc[q].Head
             /\ Tailed(sqDesc[q], Doorbells[q]).Tail = Doorbells[q]
  <2>1. /\ IoSq[q] \in [Created : BOOLEAN, Size : Numbers, Head : Places, Tail : Places]
        /\ sqDesc[q] \in [Valid : BOOLEAN, Capacity : Numbers, Head : Places, Tail : Places]
        /\ Doorbells[q] \in Places
    BY DEF Fields
  <2> QED BY <2>1 DEF Tailed
<1>3. Fields'
  <2>1. IoSq' \in [Qids -> [Created : BOOLEAN, Size : Numbers, Head : Places, Tail : Places]]
    BY <1>1, <1>2 DEF Fields
  <2>2. sqDesc' \in [Qids -> [Valid : BOOLEAN, Capacity : Numbers, Head : Places, Tail : Places]]
    BY <1>1, <1>2 DEF Fields
  <2>3. DOMAIN owed' = Qids /\ owed' = [p \in Qids |-> owed'[p]]
    BY <1>1
  <2> QED BY <1>1, <2>1, <2>2, <2>3 DEF Fields
<1>4. ASSUME NEW q \in Qids PROVE QueueInv(q)'
  <2>1. IoSq'[q].Created = IoSq[q].Created /\ IoSq'[q].Size = IoSq[q].Size
    BY <1>1, <1>2
  <2>2. CASE q \in Rung /\ fdo.UserReady
    <3>1. /\ sqDesc'[q].Head = sqDesc[q].Head /\ sqDesc'[q].Tail = Doorbells[q]
          /\ owed'[q] = owed[q] + Distance(sqDesc[q].Tail, Doorbells[q], sqDesc[q].Capacity)
          /\ IoSq[q].Created
      BY <1>1, <1>2, <2>2 DEF Rung
    <3>2. QueueInv(q)
      BY DEF QueuesInv
    <3>3. CASE IoCq[q].Created
      BY <1>1, <2>1, <3>1, <3>2, <3>3, ForwardQueue
    <3>4. CASE ~ IoCq[q].Created
      <4>1. /\ IoSq[q].Size \in Sizes /\ sqDesc[q].Capacity = IoSq[q].Size /\ owed[q] = 0
            /\ sqDesc[q].Tail = 0 /\ Doorbells[q] = 0
        BY <3>1, <3>2, <3>4, SqAlone
      <4>2. Distance(0, 0, IoSq[q].Size) = 0
        <5>1. PICK size \in Nat \ {0} : size = IoSq[q].Size
          BY <4>1, SizeFits
        <5>2. (0 + size - 0) % size = 0
          BY <5>1
        <5> QED BY <5>1, <5>2 DEF Distance
      <4>3. owed'[q] = owed[q] /\ sqDesc'[q].Tail = sqDesc[q].Tail
        BY <3>1, <4>1, <4>2
      <4>4. SameQueue(q)
        BY <1>1, <2>1, <3>1, <4>3 DEF SameQueue
      <4> QED BY <3>2, <4>4, SameQueueKept
    <3> QED BY <3>3, <3>4
  <2>3. CASE ~ (q \in Rung /\ fdo.UserReady)
    <3>1. sqDesc'[q] = sqDesc[q] /\ owed'[q] = owed[q]
      BY <1>1, <2>3
    <3>2. SameQueue(q)
      BY <1>1, <2>1, <3>1 DEF SameQueue
    <3> QED BY <3>2, SameQueueKept DEF QueuesInv
  <2> QED BY <2>2, <2>3
<1> QED BY <1>3, <1>4 DEF QueuesInv

-----------------------------------------------------------------------------
(* Commands are taken and answered *)

LEMMA PostFields ==
  ASSUME Fields, NEW queues, NEW result, PostTo(queues, result),
         \A q \in queues : \E size \in Sizes : result[q] \in Completions(size)
  PROVE  /\ cq' \in [Qids -> Entries]
         /\ cqDesc' \in [Qids -> [Valid : BOOLEAN, Capacity : Numbers, Tail : Places, Phase : Phases]]
         /\ IoCq' \in [Qids -> [Created : BOOLEAN, Size : Numbers, Tail : Places, Phase : Phases]]
<1>1. ASSUME NEW q \in queues
      PROVE  result[q].entries \in Entries /\ result[q].tail \in Places /\ result[q].phase \in Phases
  <2>1. PICK size \in Sizes : result[q] \in Completions(size)
    BY <1>1
  <2>2. 0 .. size - 1 \subseteq Places
    BY SizeFits
  <2> QED BY <2>1, <2>2 DEF Completions
<1>2. ASSUME NEW q \in Qids, q \in queues
      PROVE  /\ Posted(cqDesc[q], result[q].tail, result[q].phase)
                  \in [Valid : BOOLEAN, Capacity : Numbers, Tail : Places, Phase : Phases]
             /\ Posted(IoCq[q], result[q].tail, result[q].phase)
                  \in [Created : BOOLEAN, Size : Numbers, Tail : Places, Phase : Phases]
  <2>1. /\ cqDesc[q] \in [Valid : BOOLEAN, Capacity : Numbers, Tail : Places, Phase : Phases]
        /\ IoCq[q] \in [Created : BOOLEAN, Size : Numbers, Tail : Places, Phase : Phases]
    BY DEF Fields
  <2> QED BY <1>1, <1>2, <2>1 DEF Posted
<1>3. /\ cq' = [q \in Qids |-> IF q \in queues THEN result[q].entries ELSE cq[q]]
      /\ cqDesc' = [q \in Qids |-> IF q \in queues THEN Posted(cqDesc[q], result[q].tail, result[q].phase)
                                   ELSE cqDesc[q]]
      /\ IoCq' = [q \in Qids |-> IF q \in queues THEN Posted(IoCq[q], result[q].tail, result[q].phase)
                                 ELSE IoCq[q]]
  BY DEF PostTo, Posted
<1> QED BY <1>1, <1>2, <1>3 DEF Fields

(* What a post does to the queues it goes to, and to the others *)
LEMMA PostEffects ==
  ASSUME Fields, NEW queues, NEW result, PostTo(queues, result), NEW q \in Qids
  PROVE  /\ IoCq'[q].Created = IoCq[q].Created /\ IoCq'[q].Size = IoCq[q].Size
         /\ q \in queues => /\ cqDesc'[q].Tail = result[q].tail /\ cqDesc'[q].Phase = result[q].phase
                            /\ cq'[q] = result[q].entries
         /\ q \notin queues => cqDesc'[q] = cqDesc[q] /\ cq'[q] = cq[q]
<1>1. /\ cqDesc[q] \in [Valid : BOOLEAN, Capacity : Numbers, Tail : Places, Phase : Phases]
      /\ IoCq[q] \in [Created : BOOLEAN, Size : Numbers, Tail : Places, Phase : Phases]
  BY DEF Fields
<1>2. CASE q \in queues
  <2>1. /\ cqDesc'[q] = Posted(cqDesc[q], result[q].tail, result[q].phase)
        /\ IoCq'[q] = Posted(IoCq[q], result[q].tail, result[q].phase)
        /\ cq'[q] = result[q].entries
    BY <1>2 DEF PostTo, Posted
  <2> QED BY <1>1, <1>2, <2>1 DEF Posted
<1>3. CASE q \notin queues
  BY <1>3 DEF PostTo
<1> QED BY <1>2, <1>3

(* The answers to t commands of queue q *)
Reply(q, t) == PostAll(Cq(q), Fetched(sq[q], sqDesc[q].Head, IoSq[q].Size, t), IoCq[q].Size)

LEMMA ReplyIs ==
  ASSUME Fields, SqInv, CqInv, NEW q \in Qids, QueueInv(q), IoSq[q].Created, IoCq[q].Created
  PROVE  /\ \A t : VnvmePostCompletion(q, VnvmeFetchCommand(q, t)) = Reply(q, t)
         /\ AbortPosts(q) = Reply(q, Pending(q))
<1>1. /\ sqDesc[q].Capacity = IoSq[q].Size /\ cqDesc[q].Capacity = IoCq[q].Size
      /\ IoCq[q].Phase = cqDesc[q].Phase
  BY SqExists
<1>2. \A t : VnvmeFetchCommand(q, t) = Fetched(sq[q], sqDesc[q].Head, IoSq[q].Size, t)
  BY <1>1 DEF VnvmeFetchCommand, Fetched
<1>3. ASSUME NEW t PROVE VnvmePostCompletion(q, VnvmeFetchCommand(q, t)) = Reply(q, t)
  BY <1>1, <1>2 DEF VnvmePostCompletion, Reply, Cq
<1>4. AbortPosts(q) = Reply(q, Pending(q))
  BY <1>1, <1>2 DEF AbortPosts, Reply, Cq
<1> QED BY <1>3, <1>4

LEMMA ReplyKept ==
  ASSUME Fields, SqInv, CqInv, NEW q \in Qids, QueueInv(q), IoSq[q].Created, IoCq[q].Created,
         NEW t \in Nat, t <= Pending(q)
  PROVE  /\ \E size \in Sizes : Reply(q, t) \in Completions(size)
         /\ Takes(q, t, Reply(q, t)) => QueueInv(q)'
<1>1. IoCq[q].Size \in Sizes
  BY SqExists
<1>2. Reply(q, t) \in Completions(IoCq[q].Size) /\ (Takes(q, t, Reply(q, t)) => QueueInv(q)')
  BY TakesKept DEF Reply
<1> QED BY <1>1, <1>2

LEMMA TakenIs ==
  ASSUME Fields, SqInv, CqInv, NEW q \in Qids, QueueInv(q), IoSq[q].Created
  PROVE  /\ Taken(q) \in Nat /\ Taken(q) <= Pending(q) /\ (Taken(q) > 0 => IoCq[q].Created /\ MayPost(q))
         /\ IoSq[q].Size \in Sizes /\ sqDesc[q].Capacity = IoSq[q].Size
<1>1. /\ q \in Configured /\ sqDesc[q].Valid /\ IoSq[q].Size \in Sizes
      /\ sqDesc[q].Capacity = IoSq[q].Size /\ (IoCq[q].Created => cqDesc[q].Valid)
  BY DEF QueueInv, SqInv, SqAgree, CqInv, CqAgree
<1>2. MayFetch(q) /\ (IoCq[q].Created => MayPost(q))
  BY <1>1 DEF MayFetch, MayPost
<1>3. Pending(q) \in Nat /\ (Pending(q) # 0 => IoCq[q].Created)
  BY SqExists, SqAlone
<1>4. IoSq[q].Head \in Nat /\ Doorbells[q] \in Nat /\ IoSq[q].Size \in Nat \ {0}
  <2>1. IoSq[q].Head \in Places /\ Doorbells[q] \in Places
    BY DEF Fields
  <2>2. Places \subseteq Nat
    BY DEF Places
  <2> QED BY <1>1, <2>1, <2>2, SizeFits
<1>5. Distance(IoSq[q].Head, Doorbells[q], IoSq[q].Size) \in Nat
  BY <1>4 DEF Distance
<1>6. PICK asked \in Nat : asked = IF Doorbells[q] < IoSq[q].Size
                                   THEN Distance(IoSq[q].Head, Doorbells[q], IoSq[q].Size) ELSE Pending(q)
  BY <1>3, <1>5
<1>7. Taken(q) = IF asked < Pending(q) THEN asked ELSE Pending(q)
  BY <1>2, <1>6 DEF Taken
<1>8. Taken(q) \in Nat /\ Taken(q) <= Pending(q)
  BY <1>6, <1>7, <1>3
<1>9. Taken(q) > 0 => Pending(q) # 0
  BY <1>3, <1>8
<1> QED BY <1>1, <1>2, <1>3, <1>8, <1>9

LEMMA ProcessKeeps ==
  ASSUME Fields, SqInv, CqInv, QueuesInv, VnvmeProcessIoCommands
  PROVE  QueuesInv' /\ Fields'
<1> DEFINE answered == {q \in Rung : Taken(q) > 0 /\ MayPost(q)}
<1> DEFINE result == [q \in answered |-> VnvmePostCompletion(q, VnvmeFetchCommand(q, Taken(q)))]
<1> DEFINE desc(q) == Headed(sqDesc[q], (sqDesc[q].Head + Taken(q)) % sqDesc[q].Capacity)
<1> DEFINE own(q) == Tailed(Headed(IoSq[q], (IoSq[q].Head + Taken(q)) % IoSq[q].Size), Doorbells[q])
<1>1. /\ sqDesc' = [q \in Qids |-> IF q \in Rung /\ Taken(q) > 0 THEN desc(q) ELSE sqDesc[q]]
      /\ IoSq' = [q \in Qids |-> IF q \in Rung THEN own(q) ELSE IoSq[q]]
      /\ PostTo(answered, result)
      /\ UNCHANGED <<sq, Doorbells, fdo, host, owed>>
  BY DEF VnvmeProcessIoCommands, Headed, Tailed
<1>2. ASSUME NEW q \in Rung
      PROVE  /\ q \in Qids /\ IoSq[q].Created /\ QueueInv(q)
             /\ Taken(q) \in Nat /\ Taken(q) <= Pending(q) /\ (Taken(q) > 0 => IoCq[q].Created /\ MayPost(q))
             /\ IoSq[q].Size \in Sizes /\ sqDesc[q].Capacity = IoSq[q].Size
  BY TakenIs DEF Rung, QueuesInv
<1>3. ASSUME NEW q \in answered
      PROVE  result[q] = Reply(q, Taken(q)) /\ \E size \in Sizes : result[q] \in Completions(size)
  <2>1. q \in Rung /\ result[q] = VnvmePostCompletion(q, VnvmeFetchCommand(q, Taken(q)))
    OBVIOUS
  <2>2. /\ q \in Qids /\ IoSq[q].Created /\ IoCq[q].Created /\ QueueInv(q)
        /\ Taken(q) \in Nat /\ Taken(q) <= Pending(q)
    BY <1>2, <2>1
  <2>3. result[q] = Reply(q, Taken(q))
    BY <2>1, <2>2, ReplyIs
  <2>4. \E size \in Sizes : Reply(q, Taken(q)) \in Completions(size)
    BY <2>2, ReplyKept
  <2> QED BY <2>3, <2>4
<1>4. ASSUME NEW q \in Rung
      PROVE  /\ own(q) \in [Created : BOOLEAN, Size : Numbers, Head : Places, Tail : Places]
             /\ own(q).Created = IoSq[q].Created /\ own(q).Size = IoSq[q].Size
             /\ desc(q) \in [Valid : BOOLEAN, Capacity : Numbers, Head : Places, Tail : Places]
             /\ desc(q).Head = (sqDesc[q].Head + Taken(q)) % IoSq[q].Size
             /\ desc(q).Tail = sqDesc[q].Tail
  <2>1. /\ IoSq[q] \in [Created : BOOLEAN, Size : Numbers, Head : Places, Tail : Places]
        /\ sqDesc[q] \in [Valid : BOOLEAN, Capacity : Numbers, Head : Places, Tail : Places]
        /\ Doorbells[q] \in Places
    BY <1>2 DEF Fields
  <2>2. Places \subseteq Nat
    BY DEF Places
  <2>3. IoSq[q].Size \in Nat \ {0} /\ 0 .. IoSq[q].Size - 1 \subseteq Places
    BY <1>2, SizeFits
  <2>4. /\ (IoSq[q].Head + Taken(q)) % IoSq[q].Size \in Places
        /\ (sqDesc[q].Head + Taken(q)) % IoSq[q].Size \in Places
    <3>1. IoSq[q].Head \in Nat /\ sqDesc[q].Head \in Nat
      BY <2>1, <2>2
    <3>2. Taken(q) \in Nat
      BY <1>2
    <3>3. IoSq[q].Head + Taken(q) \in Nat /\ sqDesc[q].Head + Taken(q) \in Nat
      BY <3>1, <3>2
    <3> QED BY <2>3, <3>3
  <2>5. /\ own(q) \in [Created : BOOLEAN, Size : Numbers, Head : Places, Tail : Places]
        /\ own(q).Created = IoSq[q].Created /\ own(q).Size = IoSq[q].Size
    BY <2>1, <2>4 DEF Headed, Tailed
  <2>6. /\ desc(q) \in [Valid : BOOLEAN, Capacity : Numbers, Head : Places, Tail : Places]
        /\ desc(q).Head = (sqDesc[q].Head + Taken(q)) % IoSq[q].Size /\ desc(q).Tail = sqDesc[q].Tail
    BY <1>2, <2>1, <2>4 DEF Headed
  <2> QED BY <2>5, <2>6
<1> HIDE DEF result, desc, own
<1>5. Fields'
  <2>1. IoSq' \in [Qids -> [Created : BOOLEAN, Size : Numbers, Head : Places, Tail : Places]]
    BY <1>1, <1>4 DEF Fields
  <2>2. sqDesc' \in [Qids -> [Valid : BOOLEAN, Capacity : Numbers, Head : Places, Tail : Places]]
    BY <1>1, <1>4 DEF Fields
  <2>3. /\ cq' \in [Qids -> Entries]
        /\ cqDesc' \in [Qids -> [Valid : BOOLEAN, Capacity : Numbers, Tail : Places, Phase : Phases]]
        /\ IoCq' \in [Qids -> [Created : BOOLEAN, Size : Numbers, Tail : Places, Phase : Phases]]
    BY <1>1, <1>3, PostFields
  <2> QED BY <1>1, <2>1, <2>2, <2>3 DEF Fields
<1>6. ASSUME NEW q \in Qids PROVE QueueInv(q)'
  <2>1. IoSq'[q].Created = IoSq[q].Created /\ IoSq'[q].Size = IoSq[q].Size
    BY <1>1, <1>4
  <2>2. /\ IoCq'[q].Created = IoCq[q].Created /\ IoCq'[q].Size = IoCq[q].Size
        /\ q \in answered => /\ cqDesc'[q].Tail = result[q].tail /\ cqDesc'[q].Phase = result[q].phase
                             /\ cq'[q] = result[q].entries
        /\ q \notin answered => cqDesc'[q] = cqDesc[q] /\ cq'[q] = cq[q]
    BY <1>1, PostEffects
  <2>3. CASE q \in Rung /\ Taken(q) > 0
    <3>1. q \in answered
      BY <1>2, <2>3
    <3>2. sqDesc'[q].Head = (sqDesc[q].Head + Taken(q)) % IoSq[q].Size /\ sqDesc'[q].Tail = sqDesc[q].Tail
      BY <1>1, <1>4, <2>3
    <3>3. Takes(q, Taken(q), Reply(q, Taken(q)))
      BY <1>1, <1>3, <2>1, <2>2, <3>1, <3>2 DEF Takes
    <3> QED BY <1>2, <2>3, <3>3, ReplyKept
  <2>4. CASE ~ (q \in Rung /\ Taken(q) > 0)
    <3>1. q \notin answered /\ sqDesc'[q] = sqDesc[q]
      BY <1>1, <2>4
    <3>2. SameQueue(q)
      BY <1>1, <2>1, <2>2, <3>1 DEF SameQueue
    <3> QED BY <3>2, SameQueueKept DEF QueuesInv
  <2> QED BY <2>3, <2>4
<1> QED BY <1>5, <1>6 DEF QueuesInv

LEMMA FetchKeeps ==
  ASSUME Fields, SqInv, CqInv, QueuesInv, NEW q \in Qids, FetchAndPost(q)
  PROVE  QueuesInv' /\ Fields'
<1> DEFINE answered == {r \in {q} : MayPost(r)}
<1> DEFINE result == [r \in answered |-> VnvmePostCompletion(r, VnvmeFetchCommand(r, 1))]
<1> DEFINE head == (sqDesc[q].Head + 1) % sqDesc[q].Capacity
<1>1. /\ IoSq[q].Created /\ Pending(q) > 0
      /\ sqDesc' = [sqDesc EXCEPT ![q].Head = head] /\ IoSq' = [IoSq EXCEPT ![q].Head = head]
      /\ PostTo(answered, result)
      /\ UNCHANGED <<sq, Doorbells, fdo, host, owed>>
  BY DEF FetchAndPost, MayFetch
<1>2. QueueInv(q)
  BY DEF QueuesInv
<1>3. /\ IoSq[q].Size \in Sizes /\ sqDesc[q].Capacity = IoSq[q].Size /\ Pending(q) \in Nat
      /\ q \in Configured /\ IoCq[q].Created /\ cqDesc[q].Valid
  <2>1. IoCq[q].Created
    BY <1>1, <1>2, SqAlone
  <2> QED BY <1>1, <1>2, <2>1, SqExists
<1>4. answered = {q}
  BY <1>3 DEF MayPost
<1>5. 1 \in Nat /\ 1 <= Pending(q)
  BY <1>1, <1>3
<1>6. result[q] = Reply(q, 1)
  BY <1>1, <1>2, <1>3, <1>4, ReplyIs
<1>7. (\E size \in Sizes : Reply(q, 1) \in Completions(size)) /\ (Takes(q, 1, Reply(q, 1)) => QueueInv(q)')
  BY <1>1, <1>2, <1>3, <1>5, ReplyKept
<1>8. head = (sqDesc[q].Head + 1) % IoSq[q].Size /\ head \in Places
  <2>1. sqDesc[q].Head \in Places
    BY DEF Fields
  <2>2. Places \subseteq Nat
    BY DEF Places
  <2>3. IoSq[q].Size \in Nat \ {0} /\ 0 .. IoSq[q].Size - 1 \subseteq Places
    BY <1>3, SizeFits
  <2>4. sqDesc[q].Head + 1 \in Nat
    <3>1. sqDesc[q].Head \in Nat
      BY <2>1, <2>2
    <3> QED BY <3>1
  <2>5. (sqDesc[q].Head + 1) % IoSq[q].Size \in Places
    BY <2>3, <2>4
  <2> QED BY <1>3, <2>5
<1> HIDE DEF answered, result, head
<1>9. /\ sqDesc' = [sqDesc EXCEPT ![q] = Headed(sqDesc[q], head)]
      /\ IoSq' = [IoSq EXCEPT ![q] = Headed(IoSq[q], head)]
  BY <1>1 DEF Headed, Fields
<1>10. /\ Headed(IoSq[q], head) \in [Created : BOOLEAN, Size : Numbers, Head : Places, Tail : Places]
       /\ Headed(IoSq[q], head).Created = IoSq[q].Created /\ Headed(IoSq[q], head).Size = IoSq[q].Size
       /\ Headed(sqDesc[q], head) \in [Valid : BOOLEAN, Capacity : Numbers, Head : Places, Tail : Places]
       /\ Headed(sqDesc[q], head).Head = head /\ Headed(sqDesc[q], head).Tail = sqDesc[q].Tail
  <2>1. /\ IoSq[q] \in [Created : BOOLEAN, Size : Numbers, Head : Places, Tail : Places]
        /\ sqDesc[q] \in [Valid : BOOLEAN, Capacity : Numbers, Head : Places, Tail : Places]
    BY DEF Fields
  <2> QED BY <1>8, <2>1 DEF Headed
<1>11. Fields'
  <2>1. IoSq' \in [Qids -> [Created : BOOLEAN, Size : Numbers, Head : Places, Tail : Places]]
    BY <1>9, <1>10 DEF Fields
  <2>2. sqDesc' \in [Qids -> [Valid : BOOLEAN, Capacity : Numbers, Head : Places, Tail : Places]]
    BY <1>9, <1>10 DEF Fields
  <2>3. \A r \in answered : \E size \in Sizes : result[r] \in Completions(size)
    BY <1>4, <1>6, <1>7
  <2>4. /\ cq' \in [Qids -> Entries]
        /\ cqDesc' \in [Qids -> [Valid : BOOLEAN, Capacity : Numbers, Tail : Places, Phase : Phases]]
        /\ IoCq' \in [Qids -> [Created : BOOLEAN, Size : Numbers, Tail : Places, Phase : Phases]]
    BY <1>1, <2>3, PostFields
  <2> QED BY <1>1, <2>1, <2>2, <2>4 DEF Fields
<1>12. QueueInv(q)'
  <2>1. /\ IoCq'[q].Created = IoCq[q].Created /\ IoCq'[q].Size = IoCq[q].Size
        /\ cqDesc'[q].Tail = result[q].tail /\ cqDesc'[q].Phase = result[q].phase
        /\ cq'[q] = result[q].entries
    BY <1>1, <1>4, PostEffects
  <2>2. /\ IoSq'[q].Created = IoSq[q].Created /\ IoSq'[q].Size = IoSq[q].Size
        /\ sqDesc'[q].Head = head /\ sqDesc'[q].Tail = sqDesc[q].Tail
    BY <1>9, <1>10 DEF Fields
  <2>3. Takes(q, 1, Reply(q, 1))
    BY <1>1, <1>6, <1>8, <2>1, <2>2 DEF Takes
  <2> QED BY <1>7, <2>3
<1>13. ASSUME NEW p \in Qids, p # q PROVE QueueInv(p)'
  <2>1. /\ IoCq'[p].Created = IoCq[p].Created /\ IoCq'[p].Size = IoCq[p].Size
        /\ cqDesc'[p] = cqDesc[p] /\ cq'[p] = cq[p]
    BY <1>1, <1>4, <1>13, PostEffects
  <2>2. IoSq'[p] = IoSq[p] /\ sqDesc'[p] = sqDesc[p]
    BY <1>9, <1>13 DEF Fields
  <2>3. SameQueue(p)
    BY <1>1, <2>1, <2>2 DEF SameQueue
  <2> QED BY <2>3, SameQueueKept DEF QueuesInv
<1> QED BY <1>11, <1>12, <1>13 DEF QueuesInv

(* The abort answers all that was forwarded. *)
LEMMA CrashKeeps ==
  ASSUME Fields, SqInv, CqInv, QueuesInv, ServiceCrashes
  PROVE  QueuesInv' /\ Fields'
<1> DEFINE result == [q \in Aborted |-> AbortPosts(q)]
<1>1. /\ PostTo(Aborted, result)
      /\ sqDesc' = [q \in Qids |-> IF q \in Aborted THEN Headed(sqDesc[q], sqDesc[q].Tail) ELSE sqDesc[q]]
      /\ fdo' = [UserReady |-> FALSE, UserCrashed |-> TRUE, Mode |-> "KERNEL"]
      /\ UNCHANGED <<IoSq, sq, Doorbells, host, owed>>
  BY DEF ServiceCrashes, Headed
<1>2. ASSUME NEW q \in Aborted
      PROVE  /\ q \in Qids /\ IoSq[q].Created /\ QueueInv(q) /\ Pending(q) \in Nat
             /\ IoCq[q].Created /\ result[q] = Reply(q, Pending(q))
             /\ \E size \in Sizes : result[q] \in Completions(size)
  <2>1. q \in Qids /\ IoSq[q].Created /\ QueueInv(q) /\ IoCq[q].Created
    <3>1. q \in Qids /\ IoSq[q].Created /\ QueueInv(q) /\ sqDesc[q].Head # sqDesc[q].Tail
      BY DEF Aborted, QueuesInv
    <3> QED BY <3>1, SqAlone
  <2>2. Pending(q) \in Nat /\ Pending(q) <= Pending(q)
    BY <2>1, SqExists
  <2>3. result[q] = Reply(q, Pending(q))
    BY <2>1, ReplyIs
  <2>4. \E size \in Sizes : Reply(q, Pending(q)) \in Completions(size)
    BY <2>1, <2>2, ReplyKept
  <2> QED BY <2>1, <2>2, <2>3, <2>4
<1>3. ASSUME NEW q \in Aborted PROVE sqDesc[q].Tail = (sqDesc[q].Head + Pending(q)) % IoSq[q].Size
  <2> DEFINE size == IoSq[q].Size
  <2>1. size \in Sizes /\ \E w, h, b, f : /\ SqTracks(q, h, b, f) /\ Pending(q) = f - h
                                          /\ h \in Nat /\ f \in Nat /\ f - h \in Nat
    BY <1>2, SqExists
  <2>2. PICK h, b, f : SqTracks(q, h, b, f) /\ Pending(q) = f - h /\ h \in Nat /\ f \in Nat /\ f - h \in Nat
    BY <2>1
  <2>3. b \in Nat /\ b <= h /\ sqDesc[q].Head = Place(h - b, size) /\ sqDesc[q].Tail = Place(f - b, size)
    BY <2>2 DEF SqTracks, SqTracked
  <2>4. size \in Nat \ {0}
    BY <2>1, SizeFits
  <2> HIDE DEF size
  <2>5. h - b \in Nat /\ (h - b) + (f - h) = f - b
    BY <2>2, <2>3
  <2>6. Place(Place(h - b, size) + (f - h), size) = Place((h - b) + (f - h), size)
    BY <2>2, <2>4, <2>5, PlaceAdd
  <2>7. sqDesc[q].Tail = Place(sqDesc[q].Head + Pending(q), size)
    BY <2>2, <2>3, <2>5, <2>6
  <2> QED BY <2>7 DEF Place, size
<1> HIDE DEF result
<1>4. ASSUME NEW q \in Qids
      PROVE  /\ Headed(sqDesc[q], sqDesc[q].Tail)
                  \in [Valid : BOOLEAN, Capacity : Numbers, Head : Places, Tail : Places]
             /\ Headed(sqDesc[q], sqDesc[q].Tail).Head = sqDesc[q].Tail
             /\ Headed(sqDesc[q], sqDesc[q].Tail).Tail = sqDesc[q].Tail
  <2>1. sqDesc[q] \in [Valid : BOOLEAN, Capacity : Numbers, Head : Places, Tail : Places]
    BY DEF Fields
  <2> QED BY <2>1 DEF Headed
<1>5. Fields'
  <2>1. sqDesc' \in [Qids -> [Valid : BOOLEAN, Capacity : Numbers, Head : Places, Tail : Places]]
    BY <1>1, <1>4 DEF Fields
  <2>2. /\ cq' \in [Qids -> Entries]
        /\ cqDesc' \in [Qids -> [Valid : BOOLEAN, Capacity : Numbers, Tail : Places, Phase : Phases]]
        /\ IoCq' \in [Qids -> [Created : BOOLEAN, Size : Numbers, Tail : Places, Phase : Phases]]
    BY <1>1, <1>2, PostFields
  <2>3. fdo' \in [UserReady : BOOLEAN, UserCrashed : BOOLEAN, Mode : {"USER", "KERNEL"}]
    BY <1>1
  <2> QED BY <1>1, <2>1, <2>2, <2>3 DEF Fields
<1>6. ASSUME NEW q \in Qids PROVE QueueInv(q)'
  <2>1. /\ IoCq'[q].Created = IoCq[q].Created /\ IoCq'[q].Size = IoCq[q].Size
        /\ q \in Aborted => /\ cqDesc'[q].Tail = result[q].tail /\ cqDesc'[q].Phase = result[q].phase
                            /\ cq'[q] = result[q].entries
        /\ q \notin Aborted => cqDesc'[q] = cqDesc[q] /\ cq'[q] = cq[q]
    BY <1>1, PostEffects
  <2>2. CASE q \in Aborted
    <3>1. sqDesc'[q].Head = sqDesc[q].Tail /\ sqDesc'[q].Tail = sqDesc[q].Tail
      BY <1>1, <1>4, <2>2
    <3>2. Takes(q, Pending(q), Reply(q, Pending(q)))
      BY <1>1, <1>2, <1>3, <2>1, <2>2, <3>1 DEF Takes
    <3>3. IoSq[q].Created /\ IoCq[q].Created /\ QueueInv(q) /\ Pending(q) \in Nat
      BY <1>2, <2>2
    <3>4. Pending(q) <= Pending(q)
      BY <3>3
    <3> QED BY <3>2, <3>3, <3>4, ReplyKept
  <2>3. CASE q \notin Aborted
    <3>1. sqDesc'[q] = sqDesc[q]
      BY <1>1, <2>3
    <3>2. SameQueue(q)
      BY <1>1, <2>1, <2>3, <3>1 DEF SameQueue
    <3> QED BY <3>2, SameQueueKept DEF QueuesInv
  <2> QED BY <2>2, <2>3
<1> QED BY <1>5, <1>6 DEF QueuesInv

-----------------------------------------------------------------------------
(* The host *)

LEMMA RoomLeft ==
  ASSUME NEW s \in Nat, NEW c \in Nat, NEW n \in Nat, NEW r \in Nat, NEW h \in Nat, r <= h,
         n - r < IF s < c THEN s - 1 ELSE c - 1
  PROVE  n + 1 < r + c /\ n + 1 < h + s
<1>1. CASE s < c
  BY <1>1
<1>2. CASE ~ (s < c)
  BY <1>2
<1> QED BY <1>1, <1>2

LEMMA SubmitKeeps ==
  ASSUME Fields, SqInv, CqInv, QueuesInv, NEW q \in Qids, HostSubmit(q)
  PROVE  QueuesInv' /\ Fields'
<1> DEFINE size == IoSq[q].Size
<1> DEFINE u == host[q]
<1>1. IoSq[q].Created /\ IoCq[q].Created /\ QueueInv(q)
  BY DEF HostSubmit, QueuesInv
<1>2. /\ q \in Configured /\ IoCq[q].Created /\ size \in Sizes /\ IoCq[q].Size \in Sizes
      /\ \E w, h, b, f : /\ CqTracks(q, w, h) /\ SqTracks(q, h, b, f) /\ owed[q] = Len(w) + (f - h)
                         /\ h \in Nat /\ f \in Nat /\ Len(w) \in Nat /\ u.issued \in Nat
  BY <1>1, SqExists
<1>3. PICK w, h, b, f : /\ CqTracks(q, w, h) /\ SqTracks(q, h, b, f) /\ owed[q] = Len(w) + (f - h)
                        /\ h \in Nat /\ f \in Nat /\ Len(w) \in Nat /\ u.issued \in Nat
  BY <1>2
<1>4. IsHost(u) /\ sq[q] \in [Places -> CidsOrNone]
  BY QueueTypes
<1>5. u.issued < MaxSubmits /\ u.issued - Len(u.reaped) < Room(q)
  BY DEF HostSubmit
<1>6. size \in Nat \ {0} /\ IoCq[q].Size \in Nat \ {0} /\ 0 .. size - 1 \subseteq Places
  BY <1>2, SizeFits
<1>7. CqTracked(Cq(q), IoCq[q].Size, u, w, h)
  BY <1>3 DEF CqTracks
<1>8. Len(u.reaped) \in Nat /\ Len(u.reaped) <= Len(w) /\ Len(w) <= h
  BY <1>4, <1>7 DEF IsHost, CqTracked, HostHolds, Answers
<1>9. u.issued + 1 < Len(u.reaped) + IoCq[q].Size /\ u.issued + 1 < h + size
  <2>1. PICK s \in Nat, c \in Nat, n \in Nat, r \in Nat :
          s = size /\ c = IoCq[q].Size /\ n = u.issued /\ r = Len(u.reaped)
    BY <1>3, <1>6, <1>8
  <2>2. n - r < IF s < c THEN s - 1 ELSE c - 1
    BY <1>5, <2>1 DEF Room
  <2>3. r <= h
    BY <1>3, <1>8, <2>1
  <2>4. n + 1 < r + c /\ n + 1 < h + s
    BY <1>3, <2>2, <2>3, RoomLeft
  <2> QED BY <2>1, <2>4
<1>10. PICK tail : tail = (u.tail + 1) % size
  OBVIOUS
<1>11. tail \in Places /\ u.tail \in Places
  <2>1. u.tail \in Places
    BY DEF Fields
  <2>2. Places \subseteq Nat
    BY DEF Places
  <2>3. u.tail + 1 \in Nat
    BY <2>1, <2>2
  <2> QED BY <1>6, <1>10, <2>1, <2>3
<1>12. PICK x : x = [tail |-> tail, cqHead |-> u.cqHead, phase |-> u.phase, issued |-> u.issued + 1,
                     reaped |-> u.reaped]
  OBVIOUS
<1>13. PICK z : z = [sq[q] EXCEPT ![u.tail] = u.issued + 1]
  OBVIOUS
<1>14. /\ sq' = [sq EXCEPT ![q] = z] /\ Doorbells' = [Doorbells EXCEPT ![q] = tail]
       /\ UNCHANGED <<IoSq, IoCq, sqDesc, cqDesc, cq, fdo, owed>>
  BY <1>10, <1>13 DEF HostSubmit, Fields
<1>15. host' = [host EXCEPT ![q] = x]
  <2>1. host' = [host EXCEPT ![q].tail = tail, ![q].issued = @ + 1]
    BY <1>10 DEF HostSubmit
  <2>2. u \in [tail : Places, cqHead : Places, phase : Phases, issued : 0 .. MaxSubmits, reaped : Seq(CidsOrNone)]
    BY DEF Fields
  <2>3. host' = [host EXCEPT ![q] = [[host[q] EXCEPT !.tail = tail] EXCEPT !.issued = host[q].issued + 1]]
    BY <2>1 DEF Fields
  <2>4. [[u EXCEPT !.tail = tail] EXCEPT !.issued = u.issued + 1] = x
    <3>1. PICK y : y = [u EXCEPT !.tail = tail]
      OBVIOUS
    <3>2. y = [tail |-> tail, cqHead |-> u.cqHead, phase |-> u.phase, issued |-> u.issued, reaped |-> u.reaped]
      BY <2>2, <3>1
    <3>3. [y EXCEPT !.issued = u.issued + 1] = x
      BY <1>12, <3>2
    <3> QED BY <3>1, <3>3
  <2> QED BY <2>3, <2>4
<1>16. /\ x.tail = (u.tail + 1) % size /\ x.cqHead = u.cqHead /\ x.phase = u.phase
       /\ x.issued = u.issued + 1 /\ x.reaped = u.reaped
  BY <1>10, <1>12
<1> HIDE DEF size, u
<1>17. Fields'
  <2>1. u.issued + 1 \in 0 .. MaxSubmits /\ u.issued + 1 \in CidsOrNone
    BY <1>3, <1>5, SizesAssumption DEF CidsOrNone, Cids
  <2>2. x \in [tail : Places, cqHead : Places, phase : Phases, issued : 0 .. MaxSubmits, reaped : Seq(CidsOrNone)]
    <3>1. u \in [tail : Places, cqHead : Places, phase : Phases, issued : 0 .. MaxSubmits, reaped : Seq(CidsOrNone)]
      BY DEF Fields, u
    <3> QED BY <1>11, <1>12, <2>1, <3>1
  <2>3. host' \in [Qids -> [tail : Places, cqHead : Places, phase : Phases, issued : 0 .. MaxSubmits,
                            reaped : Seq(CidsOrNone)]]
    BY <1>15, <2>2 DEF Fields
  <2>4. z \in [Places -> CidsOrNone]
    BY <1>4, <1>11, <1>13, <2>1
  <2>5. sq' \in [Qids -> [Places -> CidsOrNone]]
    BY <1>14, <2>4 DEF Fields
  <2>6. Doorbells' \in [Qids -> Places]
    BY <1>11, <1>14 DEF Fields
  <2> QED BY <1>14, <2>3, <2>5, <2>6 DEF Fields
<1>18. QueueInv(q)'
  <2>1. SqTracked(sqDesc[q].Head, sqDesc[q].Tail, size, z, x.tail, x, h, b, f)
    <3>1. SqTracked(sqDesc[q].Head, sqDesc[q].Tail, size, sq[q], Doorbells[q], u, h, b, f)
      BY <1>3 DEF SqTracks, size, u
    <3>2. size \in Sizes
      BY <1>2 DEF size
    <3> QED BY <1>3, <1>4, <1>9, <1>13, <1>16, <3>1, <3>2, SubmitTracked
  <2>2. CqTracked(Cq(q), IoCq[q].Size, x, w, h)
    <3>1. h <= x.issued
      BY <1>3, <1>7, <1>16 DEF CqTracked
    <3> QED BY <1>7, <1>9, <1>16, <3>1 DEF CqTracked, HostHolds
  <2>3. /\ host'[q] = x /\ sq'[q] = z /\ Doorbells'[q] = x.tail /\ IoSq'[q] = IoSq[q] /\ IoCq'[q] = IoCq[q]
        /\ sqDesc'[q] = sqDesc[q] /\ Cq(q)' = Cq(q) /\ owed'[q] = owed[q]
    BY <1>10, <1>14, <1>15, <1>16 DEF Fields, Cq
  <2>4. SqTracks(q, h, b, f)' /\ CqTracks(q, w, h)'
    BY <2>1, <2>2, <2>3 DEF SqTracks, CqTracks, size
  <2>5. Accounts(q, w, h)'
    BY <1>1, <1>3, <2>3, <2>4 DEF Accounts
  <2> QED BY <1>1, <1>2, <2>3, <2>4, <2>5 DEF QueueInv, size
<1>19. ASSUME NEW p \in Qids, p # q PROVE QueueInv(p)'
  <2>1. SameQueue(p)
    BY <1>14, <1>15, <1>19 DEF SameQueue, Fields
  <2> QED BY <2>1, SameQueueKept DEF QueuesInv
<1> QED BY <1>17, <1>18, <1>19 DEF QueuesInv

LEMMA ReapKeeps ==
  ASSUME Fields, QueuesInv, NEW q \in Qids, HostReap(q)
  PROVE  QueuesInv' /\ Fields'
<1> DEFINE size == IoCq[q].Size
<1> DEFINE u == host[q]
<1>1. IoCq[q].Created /\ QueueInv(q) /\ cq[q][u.cqHead].phase = u.phase
  BY DEF HostReap, QueuesInv
<1>2. q \in Configured /\ size \in Sizes /\ (IoSq[q].Created => IoSq[q].Size \in Sizes)
  BY <1>1 DEF QueueInv
<1>3. PICK w, h : CqTracks(q, w, h) /\ Accounts(q, w, h)
  BY <1>1 DEF QueueInv
<1>4. /\ IsHost(u)
      /\ u \in [tail : Places, cqHead : Places, phase : Phases, issued : 0 .. MaxSubmits, reaped : Seq(CidsOrNone)]
  BY QueueTypes DEF Fields
<1>5. PICK cid : cid = cq[q][u.cqHead].cid
  OBVIOUS
<1>6. cid \in CidsOrNone
  <2>1. cq[q] \in Entries /\ u.cqHead \in Places
    BY <1>4 DEF Fields
  <2> QED BY <1>5, <2>1 DEF Entries
<1>7. PICK head : head = (u.cqHead + 1) % size
  OBVIOUS
<1>8. head \in Places
  <2>1. u.cqHead \in Places
    BY <1>4
  <2>2. Places \subseteq Nat
    BY DEF Places
  <2>3. size \in Nat \ {0} /\ 0 .. size - 1 \subseteq Places
    BY <1>2, SizeFits
  <2>4. u.cqHead + 1 \in Nat
    <3>1. u.cqHead \in Nat
      BY <2>1, <2>2
    <3> QED BY <3>1
  <2> QED BY <1>7, <2>3, <2>4
<1>9. PICK x : x = [tail |-> u.tail, cqHead |-> head, phase |-> IF head = 0 THEN 1 - u.phase ELSE u.phase,
                    issued |-> u.issued, reaped |-> Append(u.reaped, cid)]
  OBVIOUS
<1>10. host' = [host EXCEPT ![q] = x] /\ UNCHANGED <<IoSq, IoCq, sqDesc, cqDesc, sq, cq, Doorbells, fdo, owed>>
  <2>1. /\ host' = [host EXCEPT ![q].reaped = Append(@, cid), ![q].cqHead = head,
                                ![q].phase = IF head = 0 THEN 1 - @ ELSE @]
        /\ UNCHANGED <<IoSq, IoCq, sqDesc, cqDesc, sq, cq, Doorbells, fdo, owed>>
    BY <1>5, <1>7 DEF HostReap
  <2>2. host' = [host EXCEPT ![q] = [[[u EXCEPT !.reaped = Append(u.reaped, cid)] EXCEPT !.cqHead = head]
                                      EXCEPT !.phase = IF head = 0 THEN 1 - u.phase ELSE u.phase]]
    BY <2>1, <1>4 DEF Fields
  <2>3. [[[u EXCEPT !.reaped = Append(u.reaped, cid)] EXCEPT !.cqHead = head]
           EXCEPT !.phase = IF head = 0 THEN 1 - u.phase ELSE u.phase] = x
    <3>1. PICK y : y = [u EXCEPT !.reaped = Append(u.reaped, cid)]
      OBVIOUS
    <3>2. PICK z : z = [y EXCEPT !.cqHead = head]
      OBVIOUS
    <3>3. y = [tail |-> u.tail, cqHead |-> u.cqHead, phase |-> u.phase, issued |-> u.issued,
               reaped |-> Append(u.reaped, cid)]
      BY <1>4, <3>1
    <3>4. z = [tail |-> u.tail, cqHead |-> head, phase |-> u.phase, issued |-> u.issued,
               reaped |-> Append(u.reaped, cid)]
      BY <3>2, <3>3
    <3>5. PICK turned : turned = IF head = 0 THEN 1 - u.phase ELSE u.phase
      OBVIOUS
    <3>6. x = [tail |-> u.tail, cqHead |-> head, phase |-> turned, issued |-> u.issued,
               reaped |-> Append(u.reaped, cid)]
      BY <1>9, <3>5
    <3>7. PICK v : v = [z EXCEPT !.phase = turned]
      OBVIOUS
    <3>8. v = [tail |-> u.tail, cqHead |-> head, phase |-> turned, issued |-> u.issued,
               reaped |-> Append(u.reaped, cid)]
      BY <3>4, <3>7
    <3> QED BY <3>1, <3>2, <3>5, <3>6, <3>7, <3>8
  <2> QED BY <2>1, <2>2, <2>3
<1>11. /\ x.tail = u.tail /\ x.cqHead = head /\ x.phase = (IF head = 0 THEN 1 - u.phase ELSE u.phase)
       /\ x.issued = u.issued /\ x.reaped = Append(u.reaped, cid)
  BY <1>9
<1> HIDE DEF size, u
<1>12. Fields'
  <2>1. x.phase \in Phases
    BY <1>4, <1>11 DEF Phases
  <2>2. x.reaped \in Seq(CidsOrNone)
    BY <1>4, <1>6, <1>11
  <2>3. x \in [tail : Places, cqHead : Places, phase : Phases, issued : 0 .. MaxSubmits, reaped : Seq(CidsOrNone)]
    BY <1>4, <1>8, <1>9, <2>1, <2>2
  <2>4. host' \in [Qids -> [tail : Places, cqHead : Places, phase : Phases, issued : 0 .. MaxSubmits,
                            reaped : Seq(CidsOrNone)]]
    BY <1>10, <2>3 DEF Fields
  <2> QED BY <1>10, <2>4 DEF Fields
<1>13. QueueInv(q)'
  <2>1. CqTracked(Cq(q), size, x, w, h)
    <3>1. CqTracked(Cq(q), size, u, w, h)
      BY <1>3 DEF CqTracks, size, u
    <3>2. Cq(q).entries[u.cqHead].phase = u.phase /\ Cq(q).entries[u.cqHead].cid = cid
      BY <1>1, <1>5 DEF Cq
    <3>3. x.cqHead = (u.cqHead + 1) % size /\ x.phase = (IF x.cqHead = 0 THEN 1 - u.phase ELSE u.phase)
      BY <1>7, <1>11
    <3>4. size \in Sizes /\ u.reaped \in Seq(CidsOrNone)
      BY <1>2, <1>4
    <3>5. Cq(q).entries[u.cqHead].cid \in CidsOrNone /\ x.reaped = Append(u.reaped, Cq(q).entries[u.cqHead].cid)
      BY <1>6, <1>11, <3>2
    <3> QED BY <1>4, <1>11, <3>1, <3>2, <3>3, <3>4, <3>5, ReapTracked
  <2>2. /\ host'[q] = x /\ sq'[q] = sq[q] /\ Doorbells'[q] = Doorbells[q] /\ IoSq'[q] = IoSq[q]
        /\ IoCq'[q] = IoCq[q] /\ sqDesc'[q] = sqDesc[q] /\ Cq(q)' = Cq(q) /\ owed'[q] = owed[q]
    BY <1>10 DEF Fields, Cq
  <2>3. CqTracks(q, w, h)'
    BY <2>1, <2>2 DEF CqTracks, size
  <2>4. ASSUME NEW b, NEW f, SqTracks(q, h, b, f) PROVE SqTracks(q, h, b, f)'
    BY <1>11, <2>2, <2>4 DEF SqTracks, SqTracked, u
  <2>5. Accounts(q, w, h)'
    BY <1>3, <2>2, <2>4 DEF Accounts
  <2> QED BY <1>1, <1>2, <2>2, <2>3, <2>5 DEF QueueInv, size
<1>14. ASSUME NEW p \in Qids, p # q PROVE QueueInv(p)'
  <2>1. SameQueue(p)
    BY <1>10, <1>14 DEF SameQueue, Fields
  <2> QED BY <2>1, SameQueueKept DEF QueuesInv
<1> QED BY <1>12, <1>13, <1>14 DEF QueuesInv

-----------------------------------------------------------------------------
(* IoQueueCount counts the submission queues *)

CreatedSqs == {q \in Qids : IoSq[q].Created}
CountInv == IoQueueCount = Cardinality(CreatedSqs)

LEMMA CreatedSqsFinite ==
  /\ IsFiniteSet(CreatedSqs) /\ Cardinality(CreatedSqs) \in 0 .. MaxIoQueues
<1>1. IsFiniteSet(Qids) /\ Cardinality(Qids) = MaxIoQueues
  <2>1. 1 \in Int /\ MaxIoQueues \in Int /\ ~ (1 > MaxIoQueues) /\ MaxIoQueues - 1 + 1 = MaxIoQueues
    BY QueuesAssumption
  <2> QED BY <2>1, FS_Interval DEF Qids
<1>2. CreatedSqs \in SUBSET Qids
  BY DEF CreatedSqs
<1>3. IsFiniteSet(CreatedSqs) /\ Cardinality(CreatedSqs) <= MaxIoQueues
  BY <1>1, <1>2, FS_Subset
<1>4. Cardinality(CreatedSqs) \in Nat
  BY <1>3, FS_CardinalityType
<1> QED BY <1>3, <1>4, QueuesAssumption

LEMMA SameCount ==
  ASSUME CountInv, IoQueueCount' = IoQueueCount, \A q \in Qids : IoSq'[q].Created = IoSq[q].Created
  PROVE  CountInv'
<1>1. CreatedSqs' = CreatedSqs
  BY DEF CreatedSqs
<1> QED BY <1>1 DEF CountInv

LEMMA CountStep ==
  ASSUME Fields, SqInv, CountInv, [Next]_vars
  PROVE  CountInv'
<1>1. ASSUME NEW q, NEW size, NEW c, VnvmeCreateIoSubmissionQueue(q, size, c) PROVE CountInv'
  <2>1. q \in Qids /\ ~ IoSq[q].Created
    BY <1>1, ConfiguredExist DEF VnvmeCreateIoSubmissionQueue
  <2>2. /\ IoSq' = [IoSq EXCEPT ![q] = [Created |-> TRUE, Size |-> size, Head |-> 0, Tail |-> 0]]
        /\ IoQueueCount' = IoQueueCount + 1
    BY <1>1 DEF VnvmeCreateIoSubmissionQueue
  <2>3. CreatedSqs' = CreatedSqs \cup {q} /\ q \notin CreatedSqs
    BY <2>1, <2>2 DEF CreatedSqs, Fields
  <2>4. Cardinality(CreatedSqs \cup {q}) = Cardinality(CreatedSqs) + 1
    BY <2>3, CreatedSqsFinite, FS_AddElement
  <2> QED BY <2>2, <2>3, <2>4 DEF CountInv
<1>2. ASSUME NEW q, VnvmeDeleteIoSubmissionQueue(q) PROVE CountInv'
  <2>1. q \in Qids /\ IoSq[q].Created
    BY <1>2, ConfiguredExist DEF VnvmeDeleteIoSubmissionQueue
  <2>2. /\ IoSq' = [IoSq EXCEPT ![q] = ZeroSq]
        /\ IoQueueCount' = IF IoQueueCount > 0 THEN IoQueueCount - 1 ELSE 0
    BY <1>2 DEF VnvmeDeleteIoSubmissionQueue
  <2>3. CreatedSqs' = CreatedSqs \ {q} /\ q \in CreatedSqs
    BY <2>1, <2>2 DEF CreatedSqs, Fields, ZeroSq
  <2>4. Cardinality(CreatedSqs \ {q}) = Cardinality(CreatedSqs) - 1
    BY <2>3, CreatedSqsFinite, FS_RemoveElement
  <2>5. Cardinality(CreatedSqs) # 0
    BY <2>3, CreatedSqsFinite, FS_EmptySet
  <2>6. IoQueueCount > 0 /\ IoQueueCount = Cardinality(CreatedSqs)
    BY <2>5, CreatedSqsFinite DEF CountInv
  <2> QED BY <2>2, <2>3, <2>4, <2>6 DEF CountInv
<1>3. ASSUME NEW q, NEW size, VnvmeCreateIoCompletionQueue(q, size) PROVE CountInv'
  BY <1>3, SameCount DEF VnvmeCreateIoCompletionQueue
<1>4. ASSUME NEW q, VnvmeDeleteIoCompletionQueue(q) PROVE CountInv'
  BY <1>4, SameCount DEF VnvmeDeleteIoCompletionQueue
<1>5. ASSUME ForwardIo PROVE CountInv'
  <2>1. ASSUME NEW q \in Qids PROVE IoSq'[q].Created = IoSq[q].Created
    <3>1. IsSq(IoSq[q])
      BY DEF SqInv, SqShape
    <3>2. IoSq'[q] = IF q \in Rung THEN Tailed(IoSq[q], Doorbells[q]) ELSE IoSq[q]
      BY <1>5 DEF ForwardIo, Tailed
    <3> QED BY <3>1, <3>2, MovedSq DEF KeptSq
  <2>2. IoQueueCount' = IoQueueCount
    BY <1>5 DEF ForwardIo
  <2> QED BY <2>1, <2>2, SameCount
<1>6. ASSUME VnvmeProcessIoCommands PROVE CountInv'
  <2>1. ASSUME NEW q \in Qids PROVE IoSq'[q].Created = IoSq[q].Created
    <3>1. IsSq(IoSq[q])
      BY DEF SqInv, SqShape
    <3>2. \E x : IoSq'[q] = IF q \in Rung THEN Tailed(Headed(IoSq[q], x), Doorbells[q]) ELSE IoSq[q]
      BY <1>6 DEF VnvmeProcessIoCommands, Tailed, Headed
    <3> QED BY <3>1, <3>2, MovedSqTwice DEF KeptSq
  <2>2. IoQueueCount' = IoQueueCount
    BY <1>6 DEF VnvmeProcessIoCommands
  <2> QED BY <2>1, <2>2, SameCount
<1>7. ASSUME NEW r \in Qids, FetchAndPost(r) PROVE CountInv'
  <2>1. ASSUME NEW q \in Qids PROVE IoSq'[q].Created = IoSq[q].Created
    <3>1. IsSq(IoSq[q])
      BY DEF SqInv, SqShape
    <3>2. \E x : IoSq'[q] = IF q = r THEN Headed(IoSq[q], x) ELSE IoSq[q]
      BY <1>7 DEF FetchAndPost, Headed, Fields
    <3> QED BY <3>1, <3>2, MovedSq DEF KeptSq
  <2>2. IoQueueCount' = IoQueueCount
    BY <1>7 DEF FetchAndPost
  <2> QED BY <2>1, <2>2, SameCount
<1>8. ASSUME ServiceReady \/ ServiceCrashes \/ (\E q \in Qids : HostSubmit(q) \/ HostReap(q)) \/ UNCHANGED vars
      PROVE  CountInv'
  BY <1>8, SameCount DEF ServiceReady, ServiceCrashes, HostSubmit, HostReap, vars
<1> QED BY <1>1, <1>2, <1>3, <1>4, <1>5, <1>6, <1>7, <1>8 DEF Next

-----------------------------------------------------------------------------
(* The whole invariant, and the theorems *)

IInv == SqInv /\ CqInv /\ Fields /\ QueuesInv /\ CountInv

LEMMA InitIInv == Init => IInv
<1> SUFFICES ASSUME Init PROVE IInv
  OBVIOUS
<1>1. SqInv /\ CqInv
  BY TablesInit
<1>2. 0 \in Places /\ 0 \in Phases /\ 1 \in Phases /\ 0 \in Numbers /\ 0 \in 0 .. MaxSubmits
  BY ZeroIsPlace, SizesAssumption DEF Phases, Numbers
<1>3. Fields
  <2>1. /\ IoSq \in [Qids -> [Created : BOOLEAN, Size : Numbers, Head : Places, Tail : Places]]
        /\ IoCq \in [Qids -> [Created : BOOLEAN, Size : Numbers, Tail : Places, Phase : Phases]]
    BY <1>2 DEF Init, ZeroSq, ZeroCq
  <2>2. /\ sqDesc \in [Qids -> [Valid : BOOLEAN, Capacity : Numbers, Head : Places, Tail : Places]]
        /\ cqDesc \in [Qids -> [Valid : BOOLEAN, Capacity : Numbers, Tail : Places, Phase : Phases]]
    BY <1>2 DEF Init
  <2>3. sq \in [Qids -> [Places -> CidsOrNone]]
    BY DEF Init, ClearSq, CidsOrNone
  <2>4. cq \in [Qids -> Entries]
    <3>1. [cid |-> NoCommand, phase |-> 0] \in [cid : CidsOrNone, phase : Phases]
      BY <1>2 DEF CidsOrNone
    <3>2. ClearCq \in Entries
      BY <3>1 DEF ClearCq, Entries
    <3> QED BY <3>2 DEF Init
  <2>5. Doorbells \in [Qids -> Places] /\ DOMAIN owed = Qids /\ owed = [q \in Qids |-> owed[q]]
    BY <1>2 DEF Init
  <2>6. fdo \in [UserReady : BOOLEAN, UserCrashed : BOOLEAN, Mode : {"USER", "KERNEL"}]
    BY DEF Init
  <2>7. NewHost \in [tail : Places, cqHead : Places, phase : Phases, issued : 0 .. MaxSubmits,
                     reaped : Seq(CidsOrNone)]
    BY <1>2 DEF NewHost
  <2>8. host \in [Qids -> [tail : Places, cqHead : Places, phase : Phases, issued : 0 .. MaxSubmits,
                           reaped : Seq(CidsOrNone)]]
    BY <2>7 DEF Init
  <2> QED BY <2>1, <2>2, <2>3, <2>4, <2>5, <2>6, <2>8 DEF Fields
<1>4. QueuesInv
  BY DEF Init, ZeroSq, ZeroCq, QueuesInv, QueueInv
<1>5. CountInv
  <2>1. CreatedSqs = {}
    BY DEF Init, ZeroSq, CreatedSqs
  <2> QED BY <2>1, FS_EmptySet DEF CountInv, Init
<1> QED BY <1>1, <1>3, <1>4, <1>5 DEF IInv

LEMMA StepIInv ==
  ASSUME Rewound, IInv, [Next]_vars
  PROVE  IInv'
<1>1. SqInv /\ CqInv /\ Fields /\ QueuesInv /\ CountInv
  BY DEF IInv
<1>2. SqInv' /\ CqInv'
  BY <1>1, TablesStep
<1>3. CountInv'
  BY <1>1, CountStep
<1>4. QueuesInv' /\ Fields'
  <2>1. ASSUME NEW q, NEW size \in Sizes, VnvmeCreateIoCompletionQueue(q, size) PROVE QueuesInv' /\ Fields'
    BY <1>1, <2>1, CreateCqKeeps
  <2>2. ASSUME NEW q, NEW c, NEW size \in Sizes, VnvmeCreateIoSubmissionQueue(q, size, c)
        PROVE  QueuesInv' /\ Fields'
    BY <1>1, <2>2, CreateSqKeeps
  <2>3. ASSUME NEW q, VnvmeDeleteIoSubmissionQueue(q) PROVE QueuesInv' /\ Fields'
    BY <1>1, <2>3, DeleteSqKeeps
  <2>4. ASSUME NEW q, VnvmeDeleteIoCompletionQueue(q) PROVE QueuesInv' /\ Fields'
    BY <1>1, <2>4, DeleteCqKeeps
  <2>5. ASSUME ForwardIo PROVE QueuesInv' /\ Fields'
    BY <1>1, <2>5, ForwardKeeps
  <2>6. ASSUME VnvmeProcessIoCommands PROVE QueuesInv' /\ Fields'
    BY <1>1, <2>6, ProcessKeeps
  <2>7. ASSUME NEW q \in Qids, FetchAndPost(q) PROVE QueuesInv' /\ Fields'
    BY <1>1, <2>7, FetchKeeps
  <2>8. ASSUME ServiceCrashes PROVE QueuesInv' /\ Fields'
    BY <1>1, <2>8, CrashKeeps
  <2>9. ASSUME NEW q \in Qids, HostSubmit(q) PROVE QueuesInv' /\ Fields'
    BY <1>1, <2>9, SubmitKeeps
  <2>10. ASSUME NEW q \in Qids, HostReap(q) PROVE QueuesInv' /\ Fields'
    BY <1>1, <2>10, ReapKeeps
  <2>11. ASSUME ServiceReady \/ UNCHANGED vars PROVE QueuesInv' /\ Fields'
    <3>1. UNCHANGED <<IoSq, IoCq, sqDesc, cqDesc, sq, cq, Doorbells, host, owed>>
      BY <2>11 DEF ServiceReady, vars
    <3>2. fdo' \in [UserReady : BOOLEAN, UserCrashed : BOOLEAN, Mode : {"USER", "KERNEL"}]
      BY <1>1, <2>11 DEF ServiceReady, vars, Fields
    <3>3. Fields'
      BY <1>1, <3>1, <3>2 DEF Fields
    <3>4. ASSUME NEW q \in Qids PROVE QueueInv(q)'
      <4>1. SameQueue(q)
        BY <3>1 DEF SameQueue
      <4> QED BY <1>1, <4>1, SameQueueKept DEF QueuesInv
    <3> QED BY <3>3, <3>4 DEF QueuesInv
  <2> QED BY <2>1, <2>2, <2>3, <2>4, <2>5, <2>6, <2>7, <2>8, <2>9, <2>10, <2>11 DEF Next
<1> QED BY <1>2, <1>3, <1>4 DEF IInv

(* The indexes and entries of every queue are those of the counters: what  *)
(* was answered, taken, forwarded and issued.                              *)
THEOREM IInvCorrect ==
  ASSUME Rewound
  PROVE  Spec => []IInv
<1>1. IInv /\ [Next]_vars => IInv'
  BY StepIInv
<1> QED BY <1>1, InitIInv, PTL DEF Spec

(* The types of all the variables, if no submission queue is created under *)
(* a doorbell left by its predecessor.  In particular no index leaves its  *)
(* queue, IoQueueCount never exceeds the tables, and owed, from which a    *)
(* deletion subtracts, stays a count of issued commands.                   *)
THEOREM TypeCorrect ==
  ASSUME Rewound
  PROVE  Spec => []TypeOK
<1>1. IInv => TypeOK
  <2> SUFFICES ASSUME IInv PROVE TypeOK
    OBVIOUS
  <2>1. SqInv /\ CqInv /\ Fields /\ QueuesInv /\ CountInv
    BY DEF IInv
  <2>2. IoQueueCount \in 0 .. MaxIoQueues
    BY <2>1, CreatedSqsFinite DEF CountInv
  <2>3. ASSUME NEW q \in Qids PROVE owed[q] \in 0 .. MaxSubmits
    <3>1. QueueInv(q) /\ IsHost(host[q]) /\ MaxSubmits \in Nat
      BY <2>1, QueueTypes, SizesAssumption DEF QueuesInv
    <3>2. CASE ~ IoCq[q].Created
      BY <3>1, <3>2 DEF QueueInv
    <3>3. CASE IoCq[q].Created
      <4>1. PICK w, h : CqTracks(q, w, h) /\ Accounts(q, w, h)
        BY <3>1, <3>3 DEF QueueInv
      <4>2. h \in Nat /\ h <= host[q].issued /\ Len(w) \in Nat /\ Len(w) <= h
        BY <4>1 DEF CqTracks, CqTracked, Answers
      <4>3. host[q].issued \in 0 .. MaxSubmits
        BY <3>1 DEF IsHost
      <4>4. CASE ~ IoSq[q].Created
        <5>1. owed[q] = Len(w)
          BY <4>1, <4>4 DEF Accounts
        <5> QED BY <3>1, <4>2, <4>3, <5>1
      <4>5. CASE IoSq[q].Created
        <5>1. PICK b, f : SqTracks(q, h, b, f) /\ owed[q] = Len(w) + (f - h)
          BY <4>1, <4>5 DEF Accounts
        <5>2. f \in Nat /\ h <= f /\ f <= host[q].issued
          BY <5>1 DEF SqTracks, SqTracked
        <5> QED BY <3>1, <4>2, <4>3, <5>1, <5>2
      <4> QED BY <4>4, <4>5
    <3> QED BY <3>2, <3>3
  <2>4. owed \in [Qids -> 0 .. MaxSubmits]
    <3>1. owed = [q \in Qids |-> owed[q]]
      BY <2>1 DEF Fields
    <3> QED BY <2>3, <3>1
  <2> QED BY <2>1, <2>2, <2>4 DEF Fields, TypeOK, CidsOrNone, Entries
<1> QED BY <1>1, IInvCorrect, PTL

(* If no submission queue is created under a doorbell left by its          *)
(* predecessor (doorbell.c would take that for new commands):              *)
(* what the host reaps, whatever the sizes of the queues, however often    *)
(* they are created, deleted and wrapped, and whether the answers come     *)
(* from the kernel, a caller or the abort: its own commands, each once, in *)
(* the order it issued them.                                               *)
THEOREM ReapedOnceInOrderCorrect ==
  ASSUME Rewound
  PROVE  Spec => []ReapedOnceInOrder
<1>1. IInv => ReapedOnceInOrder
  <2> SUFFICES ASSUME IInv, NEW q \in Qids
               PROVE  /\ \A k \in 1 .. Len(host[q].reaped) : host[q].reaped[k] \in 1 .. host[q].issued
                      /\ \A j, k \in 1 .. Len(host[q].reaped) : j < k => host[q].reaped[j] < host[q].reaped[k]
    BY DEF ReapedOnceInOrder
  <2>1. QueueInv(q) /\ IsHost(host[q]) /\ MaxSubmits \in Nat
    BY QueueTypes, SizesAssumption DEF IInv, QueuesInv
  <2>2. CASE ~ IoCq[q].Created
    <3>1. host[q].reaped = << >>
      BY <2>1, <2>2 DEF QueueInv, NewHost
    <3>2. \A k \in 1 .. Len(<< >>) : FALSE
      OBVIOUS
    <3> QED BY <3>1, <3>2
  <2>3. CASE IoCq[q].Created
    <3>1. PICK w, h : CqTracks(q, w, h)
      BY <2>1, <2>3 DEF QueueInv
    <3>2. /\ h \in Nat /\ h <= host[q].issued /\ Answers(w, h) /\ Len(host[q].reaped) <= Len(w)
          /\ \A k \in 1 .. Len(host[q].reaped) : host[q].reaped[k] = w[k]
      BY <3>1 DEF CqTracks, CqTracked, HostHolds
    <3>3. host[q].issued \in Nat /\ Len(host[q].reaped) \in Nat /\ Len(w) \in Nat
      BY <2>1, <3>2 DEF IsHost, Answers
    <3>4. \A k \in 1 .. Len(host[q].reaped) : k \in 1 .. Len(w)
      BY <3>2, <3>3
    <3>5. 1 .. h \subseteq 1 .. host[q].issued
      BY <3>2, <3>3
    <3> QED BY <3>2, <3>4, <3>5 DEF Answers
  <2> QED BY <2>2, <2>3
<1> QED BY <1>1, IInvCorrect, PTL

(* Under the same condition on the doorbells, no forwarded command is lost *)
(* and no completion overwrites one that the host has not seen: the three  *)
(* places a command can be in add up.                                      *)
THEOREM ForwardedIsAccountedForCorrect ==
  ASSUME Rewound
  PROVE  Spec => []ForwardedIsAccountedFor
<1>1. IInv => ForwardedIsAccountedFor
  <2> SUFFICES ASSUME IInv, NEW q \in Qids, IoSq[q].Created, IoCq[q].Created
               PROVE  owed[q] = Pending(q) + Distance(host[q].cqHead, cqDesc[q].Tail, cqDesc[q].Capacity)
                                + Len(host[q].reaped)
    BY DEF ForwardedIsAccountedFor
  <2> DEFINE size == IoCq[q].Size
  <2> DEFINE r == Len(host[q].reaped)
  <2>1. /\ size \in Sizes /\ cqDesc[q].Capacity = size
        /\ \E w, h, b, f : /\ CqTracks(q, w, h) /\ owed[q] = Len(w) + (f - h)
                           /\ h \in Nat /\ Len(w) \in Nat /\ host[q].issued \in Nat
                           /\ Pending(q) = f - h /\ f - h \in Nat
    BY SqExists DEF IInv, QueuesInv
  <2>2. PICK w, h, f : /\ CqTracks(q, w, h) /\ owed[q] = Len(w) + (f - h)
                       /\ h \in Nat /\ Len(w) \in Nat /\ host[q].issued \in Nat
                       /\ Pending(q) = f - h /\ f - h \in Nat
    BY <2>1
  <2>3. /\ h <= host[q].issued /\ host[q].issued < r + size /\ r <= Len(w) /\ Len(w) <= h
        /\ host[q].cqHead = Place(r, size) /\ cqDesc[q].Tail = Place(Len(w), size)
    BY <2>2 DEF CqTracks, CqTracked, HostHolds, CqHolds, Answers, Cq
  <2>4. size \in Nat \ {0} /\ r \in Nat
    BY <2>1, SizeFits, QueueTypes DEF IInv, IsHost
  <2> HIDE DEF size, r
  <2>5. Len(w) < r + size
    BY <2>2, <2>3, <2>4
  <2>6. Distance(host[q].cqHead, cqDesc[q].Tail, cqDesc[q].Capacity) = Len(w) - r
    BY <2>1, <2>2, <2>3, <2>4, <2>5, PlaceDistance DEF Distance
  <2>7. Len(w) + (f - h) = (f - h) + (Len(w) - r) + r
    BY <2>2, <2>4
  <2> QED BY <2>2, <2>6, <2>7 DEF r
<1> QED BY <1>1, IInvCorrect, PTL
=============================================================================
