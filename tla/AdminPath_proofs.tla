--------------------------- MODULE AdminPath_proofs ---------------------------
(***************************************************************************)
(* Proofs about the admin command path, for any depth of the queues, any   *)
(* ring and any number of commands.                                        *)
(*                                                                         *)
(* The indexes of the queues wrap and a phase bit tells the laps apart.    *)
(* The proofs relate both to counters that never wrap: command or          *)
(* completion number k (from 0) has the place Pos(k) in its queue and,     *)
(* for a completion, the phase Ph(k).                                      *)
(***************************************************************************)
EXTENDS AdminPath, TLAPS

USE DepthAssumption

Pos(k) == k % Depth
Ph(k) == IF (k \div Depth) % 2 = 0 THEN 1 ELSE 0

-----------------------------------------------------------------------------
(* Counters, places and phases *)

LEMMA Division ==
  ASSUME NEW k \in Nat
  PROVE  /\ Pos(k) \in Slots
         /\ k \div Depth \in Nat
         /\ k = Depth * (k \div Depth) + Pos(k)
  BY DEF Pos, Slots

(* Quotient and remainder are unique. *)
LEMMA DivisionUnique ==
  ASSUME NEW k \in Nat, NEW n \in Nat, NEW r \in Slots, k = Depth * n + r
  PROVE  Pos(k) = r /\ k \div Depth = n
<1> DEFINE m == k \div Depth
<1>1. m \in Nat /\ Pos(k) \in Slots /\ k = Depth * m + Pos(k)
  BY Division
<1> HIDE DEF m
<1>2. ~ (m < n)
  <2> SUFFICES ASSUME m < n PROVE FALSE
    OBVIOUS
  <2>1. PICK d \in Nat : n = m + 1 + d
    BY <1>1
  <2>2. Depth * n = Depth * m + Depth + Depth * d
    BY <1>1, <2>1
  <2>3. Depth * d \in Nat
    BY <2>1
  <2> QED BY <1>1, <2>2, <2>3 DEF Slots
<1>3. ~ (n < m)
  <2> SUFFICES ASSUME n < m PROVE FALSE
    OBVIOUS
  <2>1. PICK d \in Nat : m = n + 1 + d
    BY <1>1
  <2>2. Depth * m = Depth * n + Depth + Depth * d
    BY <1>1, <2>1
  <2>3. Depth * d \in Nat
    BY <2>1
  <2> QED BY <1>1, <2>2, <2>3 DEF Slots
<1>4. m = n
  BY <1>1, <1>2, <1>3
<1>5. Pos(k) = r
  BY <1>1, <1>4 DEF Slots
<1> QED BY <1>4, <1>5 DEF m

LEMMA PosNext ==
  ASSUME NEW k \in Nat
  PROVE  /\ Next1(Pos(k)) = Pos(k + 1)
         /\ Flip(Ph(k), Pos(k + 1)) = Ph(k + 1)
<1> DEFINE n == k \div Depth
<1>1. n \in Nat /\ Pos(k) \in Slots /\ k = Depth * n + Pos(k)
  BY Division
<1> HIDE DEF n
<1>2. CASE Pos(k) + 1 < Depth
  <2>1. Pos(k) + 1 \in Slots /\ k + 1 = Depth * n + (Pos(k) + 1)
    BY <1>1, <1>2 DEF Slots
  <2>2. Pos(k + 1) = Pos(k) + 1 /\ (k + 1) \div Depth = n
    <3>1. PICK r, i : r = Pos(k) + 1 /\ i = k + 1
      OBVIOUS
    <3>2. r \in Slots /\ i \in Nat /\ n \in Nat /\ i = Depth * n + r
      BY <1>1, <2>1, <3>1
    <3>3. Pos(i) = r /\ i \div Depth = n
      BY <3>2, DivisionUnique
    <3> QED BY <3>1, <3>3
  <2>3. Next1(Pos(k)) = Pos(k) + 1
    BY <1>1, <1>2 DEF Next1, Slots
  <2>4. Ph(k + 1) = Ph(k)
    BY <2>2 DEF Ph, n
  <2> QED BY <1>1, <2>2, <2>3, <2>4 DEF Flip, Slots
<1>3. CASE Pos(k) + 1 = Depth
  <2>1. Depth * (n + 1) = Depth * n + Depth
    BY <1>1
  <2>2. 0 \in Slots /\ k + 1 = Depth * (n + 1) + 0 /\ n + 1 \in Nat
    BY <1>1, <1>3, <2>1 DEF Slots
  <2>3. Pos(k + 1) = 0 /\ (k + 1) \div Depth = n + 1
    <3>1. PICK m, i : m = n + 1 /\ i = k + 1
      OBVIOUS
    <3>2. m \in Nat /\ i \in Nat /\ i = Depth * m + 0
      BY <2>2, <3>1
    <3> QED BY <2>2, <3>1, <3>2, DivisionUnique
  <2>4. Next1(Pos(k)) = 0
    BY <1>1, <1>3 DEF Next1, Slots
  <2>5. Ph(k + 1) = IF (n + 1) % 2 = 0 THEN 1 ELSE 0
    BY <2>3 DEF Ph
  <2>6. Ph(k) = IF n % 2 = 0 THEN 1 ELSE 0
    BY DEF Ph, n
  <2>7. Ph(k + 1) = 1 - Ph(k)
    BY <1>1, <2>5, <2>6
  <2> QED BY <2>3, <2>4, <2>7 DEF Flip
<1> QED BY <1>1, <1>2, <1>3 DEF Slots

(* One lap later the place is the same and the phase the other one. *)
LEMMA PosLap ==
  ASSUME NEW k \in Nat
  PROVE  Pos(k + Depth) = Pos(k) /\ Ph(k + Depth) = 1 - Ph(k)
<1> DEFINE n == k \div Depth
<1>1. n \in Nat /\ Pos(k) \in Slots /\ k = Depth * n + Pos(k)
  BY Division
<1> HIDE DEF n
<1>2. Depth * (n + 1) = Depth * n + Depth
  BY <1>1
<1>3. k + Depth \in Nat /\ k + Depth = Depth * (n + 1) + Pos(k) /\ n + 1 \in Nat
  BY <1>1, <1>2 DEF Slots
<1>4. Pos(k + Depth) = Pos(k) /\ (k + Depth) \div Depth = n + 1
  <2>1. PICK m, i : m = n + 1 /\ i = k + Depth
    OBVIOUS
  <2>2. m \in Nat /\ i \in Nat /\ i = Depth * m + Pos(k)
    BY <1>3, <2>1
  <2> QED BY <1>1, <2>1, <2>2, DivisionUnique
<1>5. Ph(k + Depth) = IF (n + 1) % 2 = 0 THEN 1 ELSE 0
  BY <1>4 DEF Ph
<1>6. Ph(k) = IF n % 2 = 0 THEN 1 ELSE 0
  BY DEF Ph, n
<1> QED BY <1>1, <1>4, <1>5, <1>6

(* Numbers less than a lap apart have different places. *)
LEMMA PosInjective ==
  ASSUME NEW j \in Nat, NEW k \in Nat, j <= k, k < j + Depth, Pos(j) = Pos(k)
  PROVE  j = k
<1> DEFINE m == j \div Depth
<1> DEFINE n == k \div Depth
<1>1. m \in Nat /\ Pos(j) \in Slots /\ j = Depth * m + Pos(j)
  BY Division
<1>2. n \in Nat /\ k = Depth * n + Pos(k)
  BY Division
<1> HIDE DEF m, n
<1>3. ~ (m < n)
  <2> SUFFICES ASSUME m < n PROVE FALSE
    OBVIOUS
  <2>1. PICK d \in Nat : n = m + 1 + d
    BY <1>1, <1>2
  <2>2. Depth * n = Depth * m + Depth + Depth * d
    BY <1>1, <2>1
  <2>3. Depth * d \in Nat
    BY <2>1
  <2> QED BY <1>1, <1>2, <2>2, <2>3 DEF Slots
<1>4. ~ (n < m)
  <2> SUFFICES ASSUME n < m PROVE FALSE
    OBVIOUS
  <2>1. PICK d \in Nat : m = n + 1 + d
    BY <1>1, <1>2
  <2>2. Depth * m = Depth * n + Depth + Depth * d
    BY <1>2, <2>1
  <2>3. Depth * d \in Nat
    BY <2>1
  <2> QED BY <1>1, <1>2, <2>2, <2>3 DEF Slots
<1> QED BY <1>1, <1>2, <1>3, <1>4

(* The first lap *)
LEMMA FirstLap ==
  ASSUME NEW k \in Slots
  PROVE  k \in Nat /\ Pos(k) = k /\ Ph(k) = 1
<1>1. k \in Nat /\ k = Depth * 0 + k
  BY DEF Slots
<1>2. Pos(k) = k /\ k \div Depth = 0
  BY <1>1, DivisionUnique
<1> QED BY <1>1, <1>2 DEF Ph

LEMMA PhType == \A k : Ph(k) \in Phases
  BY DEF Ph, Phases

-----------------------------------------------------------------------------
(* Types *)

HostType == [issued : 0 .. MaxSubmits, tail : Slots, sqHead : Slots, cqHead : Slots, phase : Phases,
             reaped : Seq(Cids \cup {NoCommand})]
EntryType == [cid : Cids \cup {NoCommand}, sqhd : Slots, phase : Phases]
AbortType == [head : Slots, tail : Slots, cqTail : Slots, phase : Phases, any : BOOLEAN]
ServiceType == [pc : {"down", "hello", "loop", "take", "walk", "post"}, phase : Phases,
                limit : Nat, taken : Nat, sqHead : Slots, target : Slots, cqTail : Slots]

LEMMA IndexTypes ==
  /\ 0 \in Slots
  /\ \A i \in Slots : Next1(i) \in Slots
  /\ \A p \in Phases, i \in Slots : Flip(p, i) \in Phases
  BY DEF Slots, Next1, Flip, Phases

LEMMA DownTypes == ServiceDown \in ServiceType /\ NoAbort \in AbortType
  BY IndexTypes DEF ServiceDown, NoAbort, ServiceType, AbortType, Phases

(* What the steps of the engine make of its locals. *)
LEMMA Began ==
  ASSUME NEW r \in ServiceType, NEW n \in Nat, NEW m, m = [r EXCEPT !.pc = "take", !.limit = n, !.taken = 0]
  PROVE  m = [pc |-> "take", phase |-> r.phase, limit |-> n, taken |-> 0,
              sqHead |-> r.sqHead, target |-> r.target, cqTail |-> r.cqTail]
<1>1. PICK a : a = [r EXCEPT !.pc = "take"]
  OBVIOUS
<1>2. PICK b : b = [a EXCEPT !.limit = n]
  OBVIOUS
<1>3. m = [b EXCEPT !.taken = 0]
  BY <1>1, <1>2
<1>4. a = [pc |-> "take", phase |-> r.phase, limit |-> r.limit, taken |-> r.taken,
           sqHead |-> r.sqHead, target |-> r.target, cqTail |-> r.cqTail]
  BY <1>1 DEF ServiceType
<1>5. b = [pc |-> "take", phase |-> r.phase, limit |-> n, taken |-> r.taken,
           sqHead |-> r.sqHead, target |-> r.target, cqTail |-> r.cqTail]
  BY <1>2, <1>4
<1> QED BY <1>3, <1>5

LEMMA Ended ==
  ASSUME NEW r \in ServiceType, NEW m, m = [r EXCEPT !.pc = "loop", !.limit = 0, !.taken = 0]
  PROVE  m = [pc |-> "loop", phase |-> r.phase, limit |-> 0, taken |-> 0,
              sqHead |-> r.sqHead, target |-> r.target, cqTail |-> r.cqTail]
<1>1. PICK a : a = [r EXCEPT !.pc = "loop"]
  OBVIOUS
<1>2. PICK b : b = [a EXCEPT !.limit = 0]
  OBVIOUS
<1>3. m = [b EXCEPT !.taken = 0]
  BY <1>1, <1>2
<1>4. a = [pc |-> "loop", phase |-> r.phase, limit |-> r.limit, taken |-> r.taken,
           sqHead |-> r.sqHead, target |-> r.target, cqTail |-> r.cqTail]
  BY <1>1 DEF ServiceType
<1>5. b = [pc |-> "loop", phase |-> r.phase, limit |-> 0, taken |-> r.taken,
           sqHead |-> r.sqHead, target |-> r.target, cqTail |-> r.cqTail]
  BY <1>2, <1>4
<1> QED BY <1>3, <1>5

LEMMA Took ==
  ASSUME NEW r \in ServiceType, NEW x, NEW y, NEW m,
         m = [r EXCEPT !.pc = "walk", !.taken = @ + 1, !.sqHead = x, !.target = y]
  PROVE  m = [pc |-> "walk", phase |-> r.phase, limit |-> r.limit, taken |-> r.taken + 1,
              sqHead |-> x, target |-> y, cqTail |-> r.cqTail]
<1>1. PICK a : a = [r EXCEPT !.pc = "walk", !.taken = @ + 1]
  OBVIOUS
<1>2. PICK b : b = [a EXCEPT !.sqHead = x]
  OBVIOUS
<1>3. m = [b EXCEPT !.target = y]
  BY <1>1, <1>2
<1>4. a = [pc |-> "walk", phase |-> r.phase, limit |-> r.limit, taken |-> r.taken + 1,
           sqHead |-> r.sqHead, target |-> r.target, cqTail |-> r.cqTail]
  BY <1>1 DEF ServiceType
<1>5. b = [pc |-> "walk", phase |-> r.phase, limit |-> r.limit, taken |-> r.taken + 1,
           sqHead |-> x, target |-> r.target, cqTail |-> r.cqTail]
  BY <1>2, <1>4
<1> QED BY <1>3, <1>5

LEMMA TypeStep == TypeOK /\ [Next]_vars => TypeOK'
<1> SUFFICES ASSUME TypeOK, [Next]_vars PROVE TypeOK'
  OBVIOUS
<1> USE BoundsAssumption DEF TypeOK
<1>1. ASSUME HostToggleEnable \/ D0Entry \/ D0Exit \/ HeartbeatTimeout \/ TimerFindsServiceAlive
             \/ ServiceHeartbeat \/ UNCHANGED vars
      PROVE  TypeOK'
  BY ZenonT(40), <1>1 DEF HostToggleEnable, D0Entry, D0Exit, HeartbeatTimeout, TimerFindsServiceAlive,
              ServiceHeartbeat, driverVars, historyVars, vars
<1>2. ASSUME HostSubmit PROVE TypeOK'
  <2>1. host.issued + 1 \in 0 .. MaxSubmits /\ host.issued + 1 \in Cids
    BY <1>2 DEF HostSubmit, Cids
  <2>2. host' \in HostType
    BY <1>2, <2>1, IndexTypes DEF HostSubmit, HostType
  <2>3. sq' \in [Slots -> Cids \cup {NoCommand}]
    BY <1>2, <2>1 DEF HostSubmit
  <2> QED BY SMTT(30), <1>2, <2>2, <2>3 DEF HostSubmit, HostType, driverVars, historyVars
<1>3. ASSUME HostReap PROVE TypeOK'
  <2>1. cq[host.cqHead] \in EntryType
    BY DEF EntryType
  <2>2. Append(host.reaped, cq[host.cqHead].cid) \in Seq(Cids \cup {NoCommand})
    BY <2>1 DEF EntryType
  <2>3. host' \in HostType
    BY <1>3, <2>1, <2>2, IndexTypes DEF HostReap, HostType, EntryType
  <2> QED BY <1>3, <2>3 DEF HostReap, HostType, driverVars, historyVars
<1>4. ASSUME TimerDetectsCrash PROVE TypeOK'
  BY <1>4 DEF TimerDetectsCrash, historyVars
<1>5. ASSUME AbortOne PROVE TypeOK'
  <2>1. abort \in AbortType
    BY DEF AbortType
  <2>2. abort' \in AbortType
    BY <1>5, <2>1, IndexTypes DEF AbortOne, AbortType
  <2>3. cq' \in [Slots -> EntryType]
    BY <1>5, <2>1 DEF AbortOne, AbortType, EntryType
  <2>4. posted' \subseteq Cids \cup {NoCommand}
    BY <1>5, <2>1 DEF AbortOne, AbortType
  <2> QED BY <1>5, <2>2, <2>3, <2>4 DEF AbortOne, AbortType, EntryType
<1>6. ASSUME AbortEnd PROVE TypeOK'
  BY ZenonT(40), <1>6, DownTypes DEF AbortEnd, AbortType, historyVars
<1>7. ASSUME TimerDoorbells PROVE TypeOK'
  <2> DEFINE enabling == CcEn /\ ~ ctrl.CachedEN
             ready == CcEn /\ (enabling \/ ctrl.RDY)
             last == IF enabling THEN 0 ELSE ctrl.LastSqTail
             forward == ready /\ host.tail # last /\ fdo.Mode = "USER" /\ fdo.UserReady
             room == Len(queue) < RingCapacity
  <2>1. ctrl' = [RDY |-> ready, CachedEN |-> CcEn, LastSqTail |-> IF ready THEN host.tail ELSE last]
    BY <1>7 DEF TimerDoorbells
  <2>2. ctrl' \in [RDY : BOOLEAN, CachedEN : BOOLEAN, LastSqTail : Slots]
    BY <2>1, IndexTypes
  <2>3. shm' = (IF forward THEN [shm EXCEPT !.SqTail = host.tail] ELSE shm)
        /\ queue' = (IF forward /\ room THEN Append(queue, host.tail) ELSE queue)
        /\ forwarded' = (IF forward THEN host.issued ELSE forwarded)
        /\ refused' = (refused \/ (forward /\ ~ room))
        /\ timer' = "idle"
        /\ UNCHANGED <<host, CcEn, abort, fdo, late, sq, cq, service, crashes, posted, misjudged>>
    BY <1>7 DEF TimerDoorbells, PollingEnabled
  <2>4. queue' \in Seq(Slots) /\ Len(queue') <= RingCapacity /\ Len(queue) <= Len(queue')
    BY <2>3, RingCapacityAssumption
  <2>5. service'.limit <= Len(queue')
    BY <2>3, <2>4
  <2>6. refused' \in BOOLEAN
    BY <2>3
  <2>7. shm' \in [SqHead : Slots, SqTail : Slots, CqTail : Slots, CqPhase : Phases]
    BY <2>3
  <2>8. forwarded' \in 0 .. MaxSubmits
    BY <2>3
  <2> HIDE DEF forward, ready
  <2> QED BY <2>2, <2>3, <2>4, <2>5, <2>6, <2>7, <2>8
<1>8. ASSUME ServiceStart PROVE TypeOK'
  <2>1. service' \in ServiceType /\ service'.taken = 0 /\ service'.limit = 0
    BY <1>8, DownTypes DEF ServiceStart, ServiceDown, ServiceType
  <2> QED BY <1>8, <2>1 DEF ServiceStart, ServiceType, driverVars, historyVars
<1>9. ASSUME ServiceUserReady PROVE TypeOK'
  <2>1. service' \in ServiceType /\ service'.taken <= service'.limit /\ service'.limit <= Len(queue)
    <3>1. CASE SendsBuffers
      BY <1>9, <3>1 DEF ServiceUserReady, ServiceType
    <3>2. CASE ~ SendsBuffers
      BY <1>9, <3>2, DownTypes DEF ServiceUserReady, ServiceDown
    <3> QED BY <3>1, <3>2
  <2> QED BY <1>9, <2>1, ServiceAssumption DEF ServiceUserReady, ServiceType, historyVars
<1>10. ASSUME PollBegin PROVE TypeOK'
  <2>1. service \in ServiceType /\ Len(queue) \in Nat
    BY DEF ServiceType
  <2>2. service' = [pc |-> "take", phase |-> service.phase, limit |-> Len(queue), taken |-> 0,
                    sqHead |-> service.sqHead, target |-> service.target, cqTail |-> service.cqTail]
    BY <1>10, <2>1, Began DEF PollBegin
  <2>3. service' \in ServiceType /\ service'.taken = 0 /\ service'.limit = Len(queue)
    BY <2>1, <2>2 DEF ServiceType
  <2> QED BY <1>10, <2>1, <2>3 DEF PollBegin, ServiceType, driverVars, historyVars
<1>11. ASSUME TakeNotification PROVE TypeOK'
  <2>1. service \in ServiceType
    BY DEF ServiceType
  <2>2. queue[service.taken + 1] \in Slots
    BY <1>11 DEF TakeNotification
  <2>3. service' \in ServiceType /\ service'.taken = service.taken + 1 /\ service'.limit = service.limit
    <3>1. service' = [pc |-> "walk", phase |-> service.phase, limit |-> service.limit,
                      taken |-> service.taken + 1, sqHead |-> shm.SqHead,
                      target |-> queue[service.taken + 1], cqTail |-> service.cqTail]
      BY <1>11, <2>1, Took DEF TakeNotification
    <3> QED BY <2>1, <2>2, <3>1 DEF ServiceType
  <2> QED BY <1>11, <2>3 DEF TakeNotification, ServiceType, driverVars, historyVars
<1>12. ASSUME ExecuteCommand PROVE TypeOK'
  <2>1. cq' \in [Slots -> EntryType]
    BY <1>12 DEF ExecuteCommand, EntryType
  <2>2. service' \in ServiceType /\ service'.taken = service.taken /\ service'.limit = service.limit
    BY <1>12, IndexTypes DEF ExecuteCommand, ServiceType
  <2> QED BY <1>12, <2>1, <2>2 DEF ExecuteCommand, EntryType, ServiceType, driverVars
<1>13. ASSUME PostAdvance PROVE TypeOK'
  <2>1. service' \in ServiceType /\ service'.taken = service.taken /\ service'.limit = service.limit
    BY <1>13, IndexTypes DEF PostAdvance, ServiceType
  <2>2. shm' \in [SqHead : Slots, SqTail : Slots, CqTail : Slots, CqPhase : Phases]
    BY <1>13 DEF PostAdvance
  <2> QED BY <1>13, <2>1, <2>2 DEF PostAdvance, ServiceType, driverVars, historyVars
<1>14. ASSUME StoreHead PROVE TypeOK'
  BY SMTT(30), <1>14 DEF StoreHead, driverVars, historyVars
<1>15. ASSUME PollEnd PROVE TypeOK'
  <2>1. queue' = SubSeq(queue, service.limit + 1, Len(queue))
    BY <1>15 DEF PollEnd
  <2>2. queue' \in Seq(Slots) /\ Len(queue') <= Len(queue)
    BY <2>1
  <2>3. service' \in ServiceType /\ service'.taken = 0 /\ service'.limit = 0
    <3>1. service \in ServiceType
      BY DEF ServiceType
    <3>2. service' = [pc |-> "loop", phase |-> service.phase, limit |-> 0, taken |-> 0,
                      sqHead |-> service.sqHead, target |-> service.target, cqTail |-> service.cqTail]
      BY <1>15, <3>1, Ended DEF PollEnd
    <3> QED BY <3>1, <3>2 DEF ServiceType
  <2>4. Len(queue') <= RingCapacity /\ service'.limit <= Len(queue') /\ service'.taken <= service'.limit
    BY <2>2, <2>3, RingCapacityAssumption
  <2>5. UNCHANGED <<host, CcEn, ctrl, timer, abort, fdo, late, sq, cq, shm, crashes, forwarded, posted,
                    misjudged, refused>>
    BY <1>15 DEF PollEnd, driverVars, historyVars
  <2> QED BY <2>2, <2>3, <2>4, <2>5 DEF ServiceType
<1>16. ASSUME ServiceDies PROVE TypeOK'
  BY <1>16, DownTypes DEF ServiceDies, ServiceDown, ServiceType, driverVars
<1> QED BY <1>1, <1>2, <1>3, <1>4, <1>5, <1>6, <1>7, <1>8, <1>9, <1>10, <1>11, <1>12, <1>13,
           <1>14, <1>15, <1>16 DEF Next, Host, Timer, Service, Engine

(* Every index stays in its queue, and the number of entries a poll means  *)
(* to take is never more than the ring holds, through stalls, deaths and   *)
(* restarts of the service.                                                *)
THEOREM TypeCorrect == Spec => []TypeOK
<1>1. Init => TypeOK
  <2> SUFFICES ASSUME Init PROVE TypeOK
    OBVIOUS
  <2>1. << >> \in Seq(Slots) /\ << >> \in Seq(Cids \cup {NoCommand}) /\ Len(<< >>) = 0
    OBVIOUS
  <2> QED BY <2>1, DownTypes, IndexTypes, BoundsAssumption, RingCapacityAssumption
          DEF Init, TypeOK, NoAbort, AbortType, ServiceDown, ServiceType, Phases
<1> QED BY <1>1, TypeStep, PTL DEF Spec
-----------------------------------------------------------------------------
(* The inductive invariant.  Its parameters are counters that never wrap:  *)
(*   done   completions the service has written                            *)
(*   seen   commands up to LastAdminSqTail                                 *)
(*   head   commands up to AdminSQ.Head                                    *)
(*   told   for each notification in the ring, the commands it announces   *)
(*   over   notifications a poll has taken and not released                *)
(*   at     for each completion, the SQ head it reports                    *)
(*   known  the SQ head the host knows of                                  *)

Reaped == Len(host.reaped)

(* Who is ahead of whom, and that the host respects the size of the queue. *)
Order(done, seen, head) ==
  /\ done \in Nat /\ seen \in Nat /\ head \in Nat
  /\ Reaped <= done /\ done <= forwarded /\ forwarded <= seen /\ seen <= host.issued
  /\ head <= done
  /\ host.issued < Reaped + Depth

HostAt ==
  /\ host.tail = Pos(host.issued)
  /\ host.cqHead = Pos(Reaped) /\ host.phase = Ph(Reaped)

InOrder == \A k \in 1 .. Reaped : host.reaped[k] = k

(* Commands are issued only to a controller whose enabling was noticed. *)
Enabled(seen) ==
  /\ ctrl.LastSqTail = Pos(seen)
  /\ ctrl.RDY => ctrl.CachedEN
  /\ host.issued > 0 => CcEn /\ ctrl.RDY

(* The last lap of commands is in the submission queue, *)
SqHolds == \A j \in 0 .. host.issued - 1 : host.issued <= j + Depth => sq[Pos(j)] = j + 1

(* and the last lap of completions in the completion queue. *)
CqPhases(end) ==
  /\ \A j \in 0 .. end - 1 : end <= j + Depth => cq[Pos(j)].phase = Ph(j)
  /\ \A i \in Slots : end <= i => cq[i].phase = 0
CqCids(done) == \A j \in 0 .. done - 1 : done <= j + Depth => cq[Pos(j)].cid = j + 1
CqHeads(end, at) == \A j \in 0 .. end - 1 : end <= j + Depth => cq[Pos(j)].sqhd = Pos(at[j])

(* Notifications announce more and more commands; those that a poll has    *)
(* not taken announce commands that are not executed yet.                  *)
Ring(done, over, told) ==
  /\ over \in 0 .. Len(queue) /\ over < Depth
  /\ told \in [1 .. Len(queue) -> Nat]
  /\ \A i \in 1 .. Len(queue) : /\ queue[i] = Pos(told[i]) /\ told[i] <= forwarded
                                /\ over < i => done < told[i]
  /\ \A i, j \in 1 .. Len(queue) : i <= j => told[i] + (j - i) <= told[j]

(* The descriptors.  A service that dies may leave AdminCQ.Tail one behind. *)
Descriptors(done, head) ==
  /\ shm.SqHead = Pos(head) /\ shm.SqTail = Pos(forwarded) /\ shm.CqPhase = 1
  /\ shm.CqTail = Pos(done) \/ (head < done /\ shm.CqTail = Pos(done - 1))

(* Where the engine of a service that has not died is. *)
EngineAt(done, head, over, told) ==
  /\ service.taken = over
  /\ service.pc \in {"down", "hello"} =>
       forwarded = 0 /\ ~ fdo.UserReady /\ queue = << >> /\ service.phase = 1
  /\ service.pc \notin {"walk", "post"} => head = done
  /\ service.pc \notin {"take", "walk", "post"} => over = 0
  /\ service.pc \in {"take", "walk", "post"} => service.limit < Depth
  /\ service.pc # "post" => shm.CqTail = Pos(done) /\ service.phase = Ph(done)
  /\ service.pc \in {"walk", "post"} =>
       1 <= over /\ done <= told[over] /\ service.target = Pos(told[over])
  /\ service.pc = "walk" => service.sqHead = Pos(done)
  /\ service.pc = "post" => /\ head < done /\ shm.CqTail = Pos(done - 1)
                            /\ service.cqTail = Pos(done)
                            /\ service.phase = Ph(done - 1) /\ service.sqHead = Pos(done - 1)

(* All this holds until a crash is detected. *)
Tracking(done, seen, head, over, told) ==
  /\ Order(done, seen, head) /\ HostAt /\ InOrder /\ Enabled(seen)
  /\ SqHolds /\ CqPhases(done) /\ CqCids(done) /\ posted = 1 .. done
  /\ Ring(done, over, told) /\ Descriptors(done, head)
  /\ crashes = 0 => EngineAt(done, head, over, told)
  /\ crashes > 0 => service.pc = "down"
  /\ fdo.Mode = "USER" /\ timer # "abort"
  /\ NeverRefused

(* What a host that honours SQHD knows of AdminSQ.Head is never too much. *)
Heads(end, head, at, known) ==
  /\ at \in [0 .. end - 1 -> Nat] /\ known \in Nat
  /\ CqHeads(end, at)
  /\ host.sqHead = Pos(known) /\ known <= head /\ host.issued < known + Depth
  /\ \A j \in 0 .. end - 1 : Reaped <= j => known <= at[j] /\ at[j] <= head
  /\ \A i, j \in 0 .. end - 1 : Reaped <= i /\ i <= j => at[i] <= at[j]

(* The abort.  It starts at completion number first and has come to        *)
(* command number next; the phase it started with is right or wrong        *)
(* throughout.  With the right one the host may see completions beyond     *)
(* those of the service; with the wrong one it sees none of them.          *)
Written(head, next, first) == first + (next - head)
Frontier(done, head, next, first) ==
  IF Written(head, next, first) < done THEN done ELSE Written(head, next, first)

AbortAt(done, head, next, first) ==
  /\ done \in Nat /\ head \in Nat /\ next \in Nat /\ first \in Nat
  /\ head <= next /\ next <= forwarded /\ forwarded < head + Depth
  /\ first <= done /\ done <= first + 1 /\ head <= first /\ done <= forwarded
  /\ forwarded <= host.issued
  /\ abort.head = Pos(next) /\ abort.tail = Pos(forwarded)
  /\ abort.cqTail = Pos(Written(head, next, first))
  /\ 1 .. done \subseteq posted /\ 1 .. next \subseteq posted

RightPhase(done, head, next, first, at, known) ==
  LET end == Frontier(done, head, next, first)
  IN  /\ abort.phase = Ph(Written(head, next, first))
      /\ Reaped <= end /\ end < Reaped + 2 * Depth
      /\ CqPhases(end) /\ Heads(end, next, at, known)

WrongPhase(done, head, next, first) ==
  /\ abort.phase = 1 - Ph(Written(head, next, first))
  /\ Reaped <= done /\ cq[Pos(done)].phase # Ph(done)

Aborting(done, head, next, first, at, known) ==
  /\ AbortAt(done, head, next, first)
  /\ HostAt /\ SqHolds /\ host.issued < Reaped + Depth
  /\ service.pc = "down" /\ crashes > 0
  /\ \/ RightPhase(done, head, next, first, at, known)
     \/ WrongPhase(done, head, next, first)

-----------------------------------------------------------------------------
(* What the counters say *)

(* The place of the next completion still shows the phase of the last lap. *)
LEMMA NotYetWritten ==
  ASSUME NEW end \in Nat, CqPhases(end)
  PROVE  cq[Pos(end)].phase # Ph(end)
<1>1. CASE end < Depth
  <2>1. end \in Slots
    BY <1>1 DEF Slots
  <2>2. Pos(end) = end /\ Ph(end) = 1
    BY <2>1, FirstLap
  <2>3. cq[end].phase = 0
    BY <2>1 DEF CqPhases
  <2> QED BY <2>2, <2>3
<1>2. CASE end >= Depth
  <2>1. PICK j \in Nat : end = j + Depth
    BY <1>2
  <2>2. Pos(end) = Pos(j) /\ Ph(end) = 1 - Ph(j)
    BY <2>1, PosLap
  <2>3. cq[Pos(j)].phase = Ph(j)
    BY <2>1 DEF CqPhases
  <2> QED BY <2>2, <2>3, PhType DEF Phases
<1> QED BY <1>1, <1>2

(* The host takes an entry for new only if it is the next completion and   *)
(* none was written over it.                                               *)
LEMMA ReapsNext ==
  ASSUME TypeOK, NEW end \in Nat, CqPhases(end), HostAt, Reaped <= end, end < Reaped + 2 * Depth,
         cq[host.cqHead].phase = host.phase
  PROVE  Reaped < end /\ end <= Reaped + Depth
<1>0. Reaped \in Nat
  BY DEF TypeOK, Reaped
<1>1. cq[Pos(Reaped)].phase = Ph(Reaped)
  BY DEF HostAt
<1>2. Reaped # end
  BY <1>1, NotYetWritten
<1>3. ~ (Reaped + Depth < end)
  <2> SUFFICES ASSUME Reaped + Depth < end PROVE FALSE
    OBVIOUS
  <2>1. PICK j \in Nat : j = Reaped + Depth
    BY <1>0
  <2>2. Pos(j) = Pos(Reaped) /\ Ph(j) = 1 - Ph(Reaped)
    BY <1>0, <2>1, PosLap
  <2>3. cq[Pos(j)].phase = Ph(j)
    BY <1>0, <2>1 DEF CqPhases
  <2> QED BY <1>1, <2>2, <2>3, PhType DEF Phases
<1> QED BY <1>0, <1>2, <1>3

(* The notifications that were not taken yet announce different commands. *)
LEMMA RingCount ==
  ASSUME TypeOK, NEW done \in Nat, NEW over, NEW told, Ring(done, over, told), done <= forwarded
  PROVE  Len(queue) + done <= forwarded + over
<1>0. Len(queue) \in Nat /\ forwarded \in Nat /\ over \in 0 .. Len(queue)
  BY BoundsAssumption DEF TypeOK, Ring
<1>1. CASE over = Len(queue)
  BY <1>0, <1>1
<1>2. CASE over < Len(queue)
  <2>1. over + 1 \in 1 .. Len(queue) /\ Len(queue) \in 1 .. Len(queue)
    BY <1>0, <1>2
  <2>2. told[over + 1] \in Nat /\ told[Len(queue)] \in Nat
    BY <2>1 DEF Ring
  <2>3. done < told[over + 1] /\ told[Len(queue)] <= forwarded
    BY <1>0, <2>1 DEF Ring
  <2>4. told[over + 1] + (Len(queue) - (over + 1)) <= told[Len(queue)]
    BY <1>0, <1>2, <2>1 DEF Ring
  <2> QED BY <1>0, <2>2, <2>3, <2>4
<1> QED BY <1>0, <1>1, <1>2

(* A further command in the submission queue. *)
LEMMA SubmitHolds ==
  ASSUME TypeOK, SqHolds, host.tail = Pos(host.issued), HostSubmit
  PROVE  SqHolds'
<1>1. host.issued \in Nat /\ host'.issued = host.issued + 1 /\ sq' = [sq EXCEPT ![Pos(host.issued)] = host.issued + 1]
  BY DEF HostSubmit, TypeOK
<1>2. ASSUME NEW j \in 0 .. host'.issued - 1, host'.issued <= j + Depth PROVE sq'[Pos(j)] = j + 1
  <2>1. j \in Nat /\ Pos(j) \in Slots
    BY <1>1, Division
  <2>2. CASE j = host.issued
    BY <1>1, <2>1, <2>2 DEF TypeOK
  <2>3. CASE j # host.issued
    <3>1. j < host.issued /\ host.issued < j + Depth /\ j \in 0 .. host.issued - 1 /\ host.issued <= j + Depth
      BY <1>1, <1>2, <2>1, <2>3
    <3>2. Pos(j) # Pos(host.issued)
      BY <1>1, <2>1, <2>3, <3>1, PosInjective
    <3>3. sq[Pos(j)] = j + 1
      BY <3>1 DEF SqHolds
    <3> QED BY <1>1, <2>1, <3>2, <3>3 DEF TypeOK
  <2> QED BY <2>2, <2>3
<1> QED BY <1>2 DEF SqHolds

(* The host submits only as far as the SQ head it knows allows. *)
LEMMA SubmitKnows ==
  ASSUME TypeOK, HonoursSqhd, HostSubmit, host.tail = Pos(host.issued),
         NEW known \in Nat, host.sqHead = Pos(known), host.issued < known + Depth
  PROVE  host'.issued < known + Depth
<1>1. host.issued \in Nat /\ host'.issued = host.issued + 1
  BY DEF HostSubmit, TypeOK
<1>2. Pos(host.issued + 1) # Pos(known)
  BY <1>1, PosNext DEF HostSubmit
<1>3. host.issued + 1 # known + Depth
  BY <1>2, PosLap
<1> QED BY <1>1, <1>3

(* A completion written at the end, or once more at the last place, leaves *)
(* the others of the lap alone.                                            *)
LEMMA WritePhases ==
  ASSUME TypeOK, NEW end \in Nat, CqPhases(end), NEW w \in Nat, w = end \/ w + 1 = end,
         NEW e, e.phase = Ph(w), cq' = [cq EXCEPT ![Pos(w)] = e]
  PROVE  CqPhases(w + 1)'
<1>0. Pos(w) \in Slots /\ DOMAIN cq = Slots
  BY Division DEF TypeOK
<1>1. ASSUME NEW j \in 0 .. w, w + 1 <= j + Depth PROVE cq'[Pos(j)].phase = Ph(j)
  <2>1. j \in Nat /\ Pos(j) \in Slots
    BY Division
  <2>2. CASE j = w
    BY <1>0, <2>2
  <2>3. CASE j # w
    <3>1. j <= w /\ w < j + Depth /\ j \in 0 .. end - 1 /\ end <= j + Depth
      BY <1>1, <2>1, <2>3
    <3>2. Pos(j) # Pos(w)
      BY <2>1, <2>3, <3>1, PosInjective
    <3>3. cq[Pos(j)].phase = Ph(j)
      BY <2>1, <3>1 DEF CqPhases
    <3> QED BY <1>0, <2>1, <3>2, <3>3
  <2> QED BY <2>2, <2>3
<1>2. ASSUME NEW i \in Slots, w + 1 <= i PROVE cq'[i].phase = 0
  <2>1. w \in Slots /\ w # i /\ end <= i
    BY <1>2 DEF Slots
  <2>2. Pos(w) = w
    BY <2>1, FirstLap
  <2>3. cq[i].phase = 0
    BY <2>1 DEF CqPhases
  <2> QED BY <1>0, <2>1, <2>2, <2>3
<1>3. (w + 1) - 1 = w
  OBVIOUS
<1> QED BY <1>1, <1>2, <1>3 DEF CqPhases

(* The same for the SQ heads that the completions report. *)
LEMMA WriteHeads ==
  ASSUME TypeOK, host' = host,
         NEW end \in Nat, NEW head \in Nat, NEW at, NEW known, Heads(end, head, at, known),
         NEW w \in Nat, w = end \/ w + 1 = end,
         NEW v \in Nat, NEW next \in Nat, head <= v, v <= next,
         NEW e, e.sqhd = Pos(v), cq' = [cq EXCEPT ![Pos(w)] = e]
  PROVE  \E new : Heads(w + 1, next, new, known)'
<1>0. Pos(w) \in Slots /\ DOMAIN cq = Slots /\ (w + 1) - 1 = w
  BY Division DEF TypeOK
<1>1. PICK new : new = [j \in 0 .. w |-> IF j = w THEN v ELSE at[j]]
  OBVIOUS
<1>2. at \in [0 .. end - 1 -> Nat] /\ known \in Nat /\ known <= head
  BY DEF Heads
<1>3. ASSUME NEW j \in 0 .. w, j # w
      PROVE  j \in 0 .. end - 1 /\ new[j] = at[j] /\ at[j] \in Nat
  <2>1. j \in 0 .. end - 1
    BY <1>3
  <2> QED BY <1>1, <1>2, <1>3, <2>1
<1>4. new[w] = v
  BY <1>1
<1>5. new \in [0 .. w -> Nat]
  BY <1>1, <1>2, <1>3
<1>6. ASSUME NEW j \in 0 .. w, w + 1 <= j + Depth PROVE cq'[Pos(j)].sqhd = Pos(new[j])
  <2>1. j \in Nat /\ Pos(j) \in Slots
    BY Division
  <2>2. CASE j = w
    BY <1>0, <1>4, <2>2
  <2>3. CASE j # w
    <3>1. j <= w /\ w < j + Depth /\ end <= j + Depth
      BY <1>6, <2>1, <2>3
    <3>2. Pos(j) # Pos(w)
      BY <2>1, <2>3, <3>1, PosInjective
    <3>3. cq[Pos(j)].sqhd = Pos(at[j])
      BY <1>3, <2>3, <3>1 DEF Heads, CqHeads
    <3> QED BY <1>0, <1>3, <2>1, <2>3, <3>2, <3>3
  <2> QED BY <2>2, <2>3
<1>7. ASSUME NEW j \in 0 .. w, Reaped <= j PROVE known <= new[j] /\ new[j] <= next
  <2>1. CASE j = w
    BY <1>2, <1>4, <2>1
  <2>2. CASE j # w
    <3>1. known <= at[j] /\ at[j] <= head
      BY <1>3, <1>7, <2>2 DEF Heads
    <3> QED BY <1>2, <1>3, <2>2, <3>1
  <2> QED BY <2>1, <2>2
<1>8. ASSUME NEW i \in 0 .. w, NEW j \in 0 .. w, Reaped <= i, i <= j PROVE new[i] <= new[j]
  <2>1. CASE j # w
    <3>1. i # w
      BY <1>8, <2>1
    <3>2. at[i] <= at[j]
      BY <1>3, <1>8, <2>1, <3>1 DEF Heads
    <3> QED BY <1>3, <2>1, <3>1, <3>2
  <2>2. CASE j = w /\ i # w
    <3>1. at[i] <= head
      BY <1>3, <1>8, <2>2 DEF Heads
    <3> QED BY <1>3, <1>4, <2>2, <3>1
  <2>3. CASE j = w /\ i = w
    BY <1>4, <2>3
  <2> QED BY <2>1, <2>2, <2>3
<1>9. host'.sqHead = Pos(known) /\ known <= next /\ host'.issued < known + Depth /\ Reaped' = Reaped
  BY <1>2 DEF Heads, Reaped
<1>10. CqHeads(w + 1, new)'
  BY <1>0, <1>6 DEF CqHeads
<1> QED BY <1>0, <1>2, <1>5, <1>7, <1>8, <1>9, <1>10 DEF Heads

(* The host learns a later SQ head from each completion. *)
LEMMA ReapHeads ==
  ASSUME TypeOK, HostReap, HostAt,
         NEW end \in Nat, NEW head \in Nat, NEW at, NEW known, Heads(end, head, at, known),
         Reaped < end, end <= Reaped + Depth
  PROVE  \E more : Heads(end, head, at, more)'
<1>0. Reaped \in Nat /\ Reaped \in 0 .. end - 1 /\ host.issued \in Nat
  BY DEF TypeOK, Reaped
<1>1. PICK more : more = at[Reaped]
  OBVIOUS
<1>2. /\ host'.issued = host.issued /\ host'.sqHead = cq[host.cqHead].sqhd /\ cq' = cq
      /\ Reaped' = Reaped + 1
  <2>1. host'.reaped = Append(host.reaped, cq[host.cqHead].cid)
        /\ host.reaped \in Seq(Cids \cup {NoCommand})
    BY DEF HostReap, TypeOK
  <2>2. Reaped' = Reaped + 1
    BY <2>1 DEF Reaped
  <2> QED BY <2>2 DEF HostReap, TypeOK
<1>3. host'.sqHead = Pos(more)
  BY <1>0, <1>1, <1>2 DEF Heads, CqHeads, HostAt
<1>4. more \in Nat /\ known \in Nat /\ known <= more /\ more <= head /\ at \in [0 .. end - 1 -> Nat]
  BY <1>0, <1>1 DEF Heads
<1>5. host.issued < more + Depth
  BY <1>0, <1>4 DEF Heads
<1>6. ASSUME NEW j \in 0 .. end - 1, Reaped + 1 <= j PROVE more <= at[j] /\ at[j] <= head
  BY <1>0, <1>1, <1>6 DEF Heads
<1>7. ASSUME NEW i \in 0 .. end - 1, NEW j \in 0 .. end - 1, Reaped + 1 <= i, i <= j
      PROVE  at[i] <= at[j]
  BY <1>0, <1>7 DEF Heads
<1>8. CqHeads(end, at)'
  BY <1>2 DEF Heads, CqHeads
<1> QED BY <1>2, <1>3, <1>4, <1>5, <1>6, <1>7, <1>8 DEF Heads

LEMMA WriteCids ==
  ASSUME TypeOK, NEW done \in Nat, CqCids(done), NEW e, e.cid = done + 1,
         cq' = [cq EXCEPT ![Pos(done)] = e]
  PROVE  CqCids(done + 1)'
<1>0. Pos(done) \in Slots /\ DOMAIN cq = Slots
  BY Division DEF TypeOK
<1>1. ASSUME NEW j \in 0 .. done, done + 1 <= j + Depth PROVE cq'[Pos(j)].cid = j + 1
  <2>1. j \in Nat /\ Pos(j) \in Slots
    BY Division
  <2>2. CASE j = done
    BY <1>0, <2>2
  <2>3. CASE j # done
    <3>1. j <= done /\ done < j + Depth /\ j \in 0 .. done - 1
      BY <1>1, <2>1, <2>3
    <3>2. Pos(j) # Pos(done)
      BY <2>1, <2>3, <3>1, PosInjective
    <3>3. cq[Pos(j)].cid = j + 1
      BY <2>1, <3>1 DEF CqCids
    <3> QED BY <1>0, <2>1, <3>2, <3>3
  <2> QED BY <2>2, <2>3
<1>2. (done + 1) - 1 = done
  OBVIOUS
<1> QED BY <1>1, <1>2 DEF CqCids

-----------------------------------------------------------------------------
(* One lemma per action: the counters after it. *)

LEMMA QuietTracks ==
  ASSUME NEW done, NEW seen, NEW head, NEW over, NEW told, Tracking(done, seen, head, over, told),
         UNCHANGED <<host, CcEn, ctrl, fdo, sq, cq, shm, queue, service, crashes, forwarded, posted, refused>>,
         timer' # "abort"
  PROVE  Tracking(done, seen, head, over, told)'
  BY SMTT(30) DEF Tracking, Order, HostAt, InOrder, Enabled, SqHolds, CqPhases, CqCids, Ring, Descriptors,
         EngineAt, NeverRefused, Reaped

LEMMA ToggleTracks ==
  ASSUME NEW done, NEW seen, NEW head, NEW over, NEW told, Tracking(done, seen, head, over, told),
         HostToggleEnable
  PROVE  Tracking(done, seen, head, over, told)'
<1>1. /\ host.issued = 0
      /\ UNCHANGED <<host, ctrl, timer, fdo, sq, cq, shm, queue, service, crashes, forwarded, posted, refused>>
  BY DEF HostToggleEnable, historyVars
<1>2. Enabled(seen)'
  BY <1>1 DEF Tracking, Enabled
<1> QED BY ZenonT(40), <1>1, <1>2
    DEF Tracking, Order, HostAt, InOrder, SqHolds, CqPhases, CqCids, Ring, Descriptors,
         EngineAt, NeverRefused, Reaped

LEMMA SubmitTracks ==
  ASSUME TypeOK,
         NEW done, NEW seen, NEW head, NEW over, NEW told, Tracking(done, seen, head, over, told),
         HostSubmit
  PROVE  Tracking(done, seen, head, over, told)'
<1>1. /\ host'.issued = host.issued + 1 /\ host'.tail = Next1(host.tail)
      /\ host'.cqHead = host.cqHead /\ host'.phase = host.phase /\ host'.reaped = host.reaped
  BY DEF HostSubmit, TypeOK
<1>2. UNCHANGED <<CcEn, ctrl, timer, fdo, cq, shm, queue, service, crashes, forwarded, posted, refused>>
  BY DEF HostSubmit, driverVars, historyVars
<1>3. host.issued \in Nat /\ Reaped \in Nat
  BY DEF TypeOK, Reaped
<1>4. Order(done, seen, head)'
  <2>1. host.issued - Reaped < Depth - 1
    BY DEF HostSubmit, Reaped
  <2> QED BY <1>1, <1>2, <1>3, <2>1 DEF Tracking, Order, Reaped
<1>5. HostAt'
  BY <1>1, <1>3, PosNext DEF Tracking, HostAt, Reaped
<1>6. InOrder' /\ NeverRefused'
  BY <1>1, <1>2 DEF Tracking, InOrder, Reaped, NeverRefused
<1>7. Enabled(seen)'
  BY <1>2 DEF Tracking, Enabled, HostSubmit
<1>8. SqHolds'
  BY SubmitHolds DEF Tracking, HostAt
<1>9. CqPhases(done)' /\ CqCids(done)'
  BY <1>2 DEF Tracking, CqPhases, CqCids
<1>10. Ring(done, over, told)' /\ Descriptors(done, head)'
  BY <1>2 DEF Tracking, Ring, Descriptors
<1>11. crashes' = 0 => EngineAt(done, head, over, told)'
  BY <1>2 DEF Tracking, EngineAt
<1> QED BY <1>2, <1>4, <1>5, <1>6, <1>7, <1>8, <1>9, <1>10, <1>11 DEF Tracking

LEMMA ReapTracks ==
  ASSUME TypeOK,
         NEW done, NEW seen, NEW head, NEW over, NEW told, Tracking(done, seen, head, over, told),
         HostReap
  PROVE  /\ Reaped < done /\ done <= Reaped + Depth
         /\ Tracking(done, seen, head, over, told)'
<1>1. /\ host'.issued = host.issued /\ host'.tail = host.tail
      /\ host'.cqHead = Next1(host.cqHead) /\ host'.phase = Flip(host.phase, Next1(host.cqHead))
      /\ host'.reaped = Append(host.reaped, cq[host.cqHead].cid)
  BY DEF HostReap, TypeOK
<1>2. UNCHANGED <<CcEn, ctrl, timer, fdo, sq, cq, shm, queue, service, crashes, forwarded, posted, refused>>
  BY DEF HostReap, driverVars, historyVars
<1>3. host.issued \in Nat /\ Reaped \in Nat /\ done \in Nat /\ seen \in Nat /\ forwarded \in Nat
      /\ host.reaped \in Seq(Cids \cup {NoCommand})
  BY BoundsAssumption DEF TypeOK, Reaped, Tracking, Order
<1>4. Reaped < done /\ done <= Reaped + Depth
  <2>1. Reaped <= done /\ done < Reaped + 2 * Depth
    BY <1>3 DEF Tracking, Order
  <2> QED BY <1>3, <2>1, ReapsNext DEF Tracking, HostReap
<1>5. cq[host.cqHead].cid = Reaped + 1
  BY <1>3, <1>4 DEF Tracking, HostAt, CqCids
<1>6. Reaped' = Reaped + 1
  BY <1>1, <1>3 DEF Reaped
<1>7. Order(done, seen, head)'
  BY <1>1, <1>2, <1>3, <1>4, <1>6 DEF Tracking, Order
<1>8. HostAt'
  BY <1>1, <1>3, <1>6, PosNext DEF Tracking, HostAt
<1>9. InOrder'
  <2>1. ASSUME NEW k \in 1 .. Reaped + 1 PROVE host'.reaped[k] = k
    <3>1. CASE k = Reaped + 1
      BY <1>1, <1>3, <1>5, <3>1 DEF Reaped
    <3>2. CASE k # Reaped + 1
      <4>1. k \in 1 .. Reaped
        BY <1>3, <3>2
      <4>2. host'.reaped[k] = host.reaped[k]
        BY <1>1, <1>3, <4>1 DEF Reaped
      <4> QED BY <4>1, <4>2 DEF Tracking, InOrder
    <3> QED BY <3>1, <3>2
  <2> QED BY <1>6, <2>1 DEF InOrder
<1>10. Enabled(seen)' /\ SqHolds' /\ NeverRefused'
  BY <1>1, <1>2 DEF Tracking, Enabled, SqHolds, NeverRefused
<1>11. CqPhases(done)' /\ CqCids(done)'
  BY <1>2 DEF Tracking, CqPhases, CqCids
<1>12. Ring(done, over, told)' /\ Descriptors(done, head)'
  BY <1>2 DEF Tracking, Ring, Descriptors
<1>13. crashes' = 0 => EngineAt(done, head, over, told)'
  BY <1>2 DEF Tracking, EngineAt
<1> QED BY <1>2, <1>4, <1>7, <1>8, <1>9, <1>10, <1>11, <1>12, <1>13 DEF Tracking

(* The notification of a new tail: it announces more than all before it,   *)
(* and a ring of twice the queue has room for it.                          *)
LEMMA PushTracks ==
  ASSUME TypeOK, NEW done \in Nat, NEW over, NEW told, Ring(done, over, told),
         done <= forwarded, forwarded < host.issued, host.issued < done + Depth,
         forwarded' = host.issued, host.tail = Pos(host.issued),
         queue' = IF Len(queue) < RingCapacity THEN Append(queue, host.tail) ELSE queue
  PROVE  /\ \E new : Ring(done, over, new)' /\ \A i \in 1 .. Len(queue) : new[i] = told[i]
         /\ 2 * (Depth - 1) <= RingCapacity => Len(queue) < RingCapacity
<1> DEFINE n == Len(queue)
<1>0. n \in Nat /\ forwarded \in Nat /\ host.issued \in Nat /\ queue \in Seq(Slots)
      /\ over \in 0 .. n /\ over < Depth /\ told \in [1 .. n -> Nat]
  BY BoundsAssumption DEF TypeOK, Ring
<1>1. n + done <= forwarded + over
  BY RingCount
<1>2. 2 * (Depth - 1) <= RingCapacity => n < RingCapacity
  BY <1>0, <1>1, RingCapacityAssumption
<1>4. PICK new : new = [i \in 1 .. Len(queue') |-> IF i <= n THEN told[i] ELSE host.issued]
  OBVIOUS
<1>3. Ring(done, over, new)' /\ \A i \in 1 .. n : new[i] = told[i]
  <2>1. CASE n < RingCapacity
    <3>1. queue' = Append(queue, host.tail)
      BY <2>1
    <3>2. Len(queue') = n + 1 /\ queue'[n + 1] = host.tail /\ \A i \in 1 .. n : queue'[i] = queue[i]
      BY <1>0, <3>1
    <3>3. over \in 0 .. Len(queue') /\ new \in [1 .. Len(queue') -> Nat]
          /\ new[n + 1] = host.issued /\ \A i \in 1 .. n : new[i] = told[i]
      BY <1>0, <1>4, <3>2
    <3>4. ASSUME NEW i \in 1 .. Len(queue')
          PROVE  /\ queue'[i] = Pos(new[i]) /\ new[i] <= forwarded'
                 /\ over < i => done < new[i]
      <4>1. CASE i <= n
        <5>1. i \in 1 .. n
          BY <1>0, <3>2, <4>1
        <5>2. queue[i] = Pos(told[i]) /\ told[i] <= forwarded /\ (over < i => done < told[i])
          BY <5>1 DEF Ring
        <5>3. told[i] \in Nat
          BY <1>0, <5>1
        <5> QED BY <1>0, <3>2, <3>3, <5>1, <5>2, <5>3
      <4>2. CASE i = n + 1
        BY <1>0, <3>2, <3>3, <4>2
      <4> QED BY <1>0, <3>2, <4>1, <4>2
    <3>5. ASSUME NEW i \in 1 .. Len(queue'), NEW j \in 1 .. Len(queue'), i <= j
          PROVE  new[i] + (j - i) <= new[j]
      <4>1. CASE j <= n
        <5>1. i \in 1 .. n /\ j \in 1 .. n
          BY <1>0, <3>2, <3>5, <4>1
        <5> QED BY <3>2, <3>3, <3>5, <5>1 DEF Ring
      <4>2. CASE j = n + 1 /\ i <= n
        <5>1. i \in 1 .. n /\ n \in 1 .. n
          BY <1>0, <4>2
        <5>2. told[i] + (n - i) <= told[n] /\ told[n] <= forwarded
          BY <1>0, <5>1 DEF Ring
        <5>3. told[i] \in Nat /\ told[n] \in Nat
          BY <1>0, <5>1
        <5> QED BY <1>0, <3>2, <3>3, <4>2, <5>1, <5>2, <5>3
      <4>3. CASE i = n + 1 /\ j = n + 1
        BY <1>0, <3>2, <3>3, <4>3
      <4> QED BY <1>0, <3>2, <3>5, <4>1, <4>2, <4>3
    <3>6. Ring(done, over, new)'
      BY <1>0, <3>3, <3>4, <3>5 DEF Ring
    <3> QED BY <3>3, <3>6
  <2>2. CASE ~ (n < RingCapacity)
    <3>1. queue' = queue
      BY <2>2
    <3>2. new = told
      BY <1>0, <1>4, <3>1
    <3>3. ASSUME NEW i \in 1 .. n
          PROVE  queue[i] = Pos(told[i]) /\ told[i] <= forwarded' /\ (over < i => done < told[i])
      <4>1. told[i] \in Nat /\ told[i] <= forwarded /\ queue[i] = Pos(told[i])
            /\ (over < i => done < told[i])
        BY <1>0 DEF Ring
      <4> QED BY <1>0, <4>1
    <3> QED BY <1>0, <3>1, <3>2, <3>3 DEF Ring
  <2> QED BY <2>1, <2>2
<1> QED BY <1>2, <1>3

LEMMA DoorbellsTrack ==
  ASSUME TypeOK,
         NEW done, NEW seen, NEW head, NEW over, NEW told, Tracking(done, seen, head, over, told),
         TimerDoorbells
  PROVE  \E new \in Nat : \E notes : Tracking(done, new, head, over, notes)'
<1>0. /\ host.issued \in Nat /\ Reaped \in Nat /\ done \in Nat /\ seen \in Nat /\ forwarded \in Nat
      /\ Reaped <= done /\ done <= forwarded /\ forwarded <= seen /\ seen <= host.issued
      /\ host.issued < Reaped + Depth /\ host.tail = Pos(host.issued)
  BY BoundsAssumption DEF TypeOK, Reaped, Tracking, Order, HostAt
<1> DEFINE enabling == CcEn /\ ~ ctrl.CachedEN
           ready == CcEn /\ (enabling \/ ctrl.RDY)
           last == IF enabling THEN 0 ELSE ctrl.LastSqTail
           forward == ready /\ host.tail # last /\ fdo.Mode = "USER" /\ fdo.UserReady
           room == Len(queue) < RingCapacity
<1>1. /\ ctrl' = [RDY |-> ready, CachedEN |-> CcEn, LastSqTail |-> IF ready THEN host.tail ELSE last]
      /\ shm' = (IF forward THEN [shm EXCEPT !.SqTail = host.tail] ELSE shm)
      /\ queue' = (IF forward /\ room THEN Append(queue, host.tail) ELSE queue)
      /\ forwarded' = (IF forward THEN host.issued ELSE forwarded)
      /\ refused' = (refused \/ (forward /\ ~ room))
      /\ timer' = "idle"
      /\ UNCHANGED <<host, CcEn, abort, fdo, late, sq, cq, service, crashes, posted>>
  BY DEF TimerDoorbells, PollingEnabled
<1>2. ctrl.LastSqTail = Pos(seen) /\ (ctrl.RDY => ctrl.CachedEN) /\ (host.issued > 0 => CcEn /\ ctrl.RDY)
  BY DEF Tracking, Enabled
<1>3. Pos(0) = 0
  BY FirstLap DEF Slots
<1>4. ctrl'.LastSqTail = Pos(host.issued) /\ (ctrl'.RDY => ctrl'.CachedEN)
      /\ (host.issued > 0 => CcEn /\ ctrl'.RDY)
  <2>1. CASE host.issued = 0
    <3>1. seen = 0
      BY <1>0, <2>1
    <3>2. host.tail = 0 /\ last = 0
      BY <1>0, <1>2, <1>3, <2>1, <3>1
    <3>3. ctrl'.LastSqTail = 0
      BY <1>1, <3>2
    <3>4. ctrl'.RDY => ctrl'.CachedEN
      BY <1>1
    <3> QED BY <1>0, <1>3, <2>1, <3>3, <3>4
  <2>2. CASE host.issued > 0
    BY <1>0, <1>1, <1>2, <2>2
  <2> QED BY <1>0, <2>1, <2>2
<1>5. forward => seen < host.issued /\ fdo.UserReady
  <2> SUFFICES ASSUME forward, host.issued = seen PROVE FALSE
    BY <1>0
  <2>1. last # Pos(seen)
    BY <1>0
  <2>2. last = 0 /\ enabling
    BY <1>2, <2>1
  <2>3. host.issued = 0
    BY <1>0, <1>2, <2>2
  <2> QED BY <1>0, <1>3, <2>1, <2>2, <2>3
<1> HIDE DEF forward, ready, last, enabling
<1>6. PICK notes : /\ Ring(done, over, notes)' /\ \A i \in 1 .. Len(queue) : notes[i] = told[i]
                   /\ forward /\ ~ room => ~ (2 * (Depth - 1) <= RingCapacity)
  <2>1. CASE forward
    <3>1. forwarded' = host.issued /\ queue' = IF Len(queue) < RingCapacity THEN Append(queue, host.tail) ELSE queue
      BY <1>1, <2>1
    <3>2. forwarded < host.issued /\ host.issued < done + Depth /\ Ring(done, over, told)
      BY <1>0, <1>5, <2>1 DEF Tracking
    <3>3. /\ \E new : Ring(done, over, new)' /\ \A i \in 1 .. Len(queue) : new[i] = told[i]
          /\ 2 * (Depth - 1) <= RingCapacity => Len(queue) < RingCapacity
      BY <1>0, <3>1, <3>2, PushTracks
    <3> QED BY <3>3
  <2>2. CASE ~ forward
    <3>1. queue' = queue /\ forwarded' = forwarded
      BY <1>1, <2>2
    <3>2. Ring(done, over, told)'
      BY <3>1 DEF Tracking, Ring
    <3> QED BY <2>2, <3>2
  <2> QED BY <2>1, <2>2
<1>7. Order(done, host.issued, head)'
  <2>1. done <= forwarded' /\ forwarded' <= host.issued /\ forwarded' \in Nat
    BY <1>0, <1>1
  <2> QED BY <1>0, <1>1, <2>1 DEF Tracking, Order, Reaped
<1>8. Enabled(host.issued)'
  BY <1>1, <1>4 DEF Enabled
<1>9. Descriptors(done, head)'
  <2>1. shm'.SqTail = Pos(forwarded')
    <3>1. CASE forward
      BY <1>0, <1>1, <3>1 DEF TypeOK
    <3>2. CASE ~ forward
      BY <1>1, <3>2 DEF Tracking, Descriptors
    <3> QED BY <3>1, <3>2
  <2>2. shm'.SqHead = shm.SqHead /\ shm'.CqTail = shm.CqTail /\ shm'.CqPhase = shm.CqPhase
    BY <1>1 DEF TypeOK
  <2> QED BY <2>1, <2>2 DEF Tracking, Descriptors
<1>10. crashes' = 0 => EngineAt(done, head, over, notes)'
  <2> SUFFICES ASSUME crashes = 0 PROVE EngineAt(done, head, over, notes)'
    BY <1>1
  <2>1. EngineAt(done, head, over, told)
    BY DEF Tracking
  <2>2. service.pc \in {"down", "hello"} => ~ forward
    BY <1>5, <2>1 DEF EngineAt
  <2>3. service.pc \in {"down", "hello"} => forwarded' = 0 /\ queue' = << >>
    BY <1>1, <2>1, <2>2 DEF EngineAt
  <2>4. shm'.CqTail = shm.CqTail
    BY <1>1 DEF TypeOK
  <2>5. 1 <= over => notes[over] = told[over]
    BY <1>6 DEF Tracking, Ring
  <2> QED BY <1>1, <2>1, <2>3, <2>4, <2>5 DEF EngineAt
<1>11. HostAt' /\ InOrder' /\ SqHolds'
  BY <1>1 DEF Tracking, HostAt, InOrder, SqHolds, Reaped
<1>12. CqPhases(done)' /\ CqCids(done)'
  BY <1>1 DEF Tracking, CqPhases, CqCids
<1>13. NeverRefused'
  BY <1>1, <1>6 DEF Tracking, NeverRefused
<1>14. PICK new \in Nat : new = host.issued
  BY <1>0
<1>15. host'.issued = new
  BY <1>1, <1>14
<1>16. Tracking(done, new, head, over, notes)'
  BY <1>1, <1>6, <1>7, <1>8, <1>9, <1>10, <1>11, <1>12, <1>13, <1>15
     DEF Tracking, Order, Enabled
<1> QED BY <1>14, <1>16

(* The service changes nothing of the host, the doorbells and the mode. *)
LEMMA ServiceLeaves ==
  ASSUME NEW done, NEW seen, NEW head, NEW over, NEW told, Tracking(done, seen, head, over, told),
         UNCHANGED <<host, CcEn, ctrl, timer, sq, forwarded, refused>>, fdo'.Mode = fdo.Mode
  PROVE  /\ HostAt' /\ InOrder' /\ Enabled(seen)' /\ SqHolds'
         /\ fdo'.Mode = "USER" /\ timer' # "abort" /\ NeverRefused'
  BY DEF Tracking, HostAt, InOrder, Enabled, SqHolds, NeverRefused, Reaped

(* Steps of the service that touch neither the completion queue nor the ring *)
LEMMA LocalTracks ==
  ASSUME NEW done, NEW seen, NEW head, NEW over, NEW told, Tracking(done, seen, head, over, told),
         UNCHANGED <<host, CcEn, ctrl, timer, sq, cq, shm, queue, forwarded, posted, refused>>,
         fdo'.Mode = fdo.Mode,
         crashes' = 0 => EngineAt(done, head, over, told)',
         crashes' > 0 => service'.pc = "down"
  PROVE  Tracking(done, seen, head, over, told)'
<1>1. /\ HostAt' /\ InOrder' /\ Enabled(seen)' /\ SqHolds'
      /\ fdo'.Mode = "USER" /\ timer' # "abort" /\ NeverRefused'
  BY ServiceLeaves
<1>2. Order(done, seen, head)' /\ CqPhases(done)' /\ CqCids(done)' /\ posted' = 1 .. done
  BY DEF Tracking, Order, CqPhases, CqCids, Reaped
<1>3. Ring(done, over, told)' /\ Descriptors(done, head)'
  BY DEF Tracking, Ring, Descriptors
<1> QED BY <1>1, <1>2, <1>3 DEF Tracking

LEMMA StartTracks ==
  ASSUME TypeOK, NEW done, NEW seen, NEW head, NEW over, NEW told, Tracking(done, seen, head, over, told),
         crashes = 0 \/ ~ Restarts, ServiceStart
  PROVE  Tracking(done, seen, head, over, told)'
<1>1. /\ crashes = 0 /\ service.pc = "down" /\ service'.pc = "hello" /\ service'.phase = 1
      /\ service'.taken = 0
      /\ UNCHANGED <<host, CcEn, ctrl, timer, fdo, sq, cq, shm, queue, crashes, forwarded, posted, refused>>
  BY DEF ServiceStart, ServiceDown, driverVars, historyVars
<1>2. EngineAt(done, head, over, told)'
  BY <1>1 DEF Tracking, EngineAt
<1> QED BY <1>1, <1>2, LocalTracks

LEMMA ReadyTracks ==
  ASSUME TypeOK, NEW done, NEW seen, NEW head, NEW over, NEW told, Tracking(done, seen, head, over, told),
         ServiceUserReady
  PROVE  Tracking(done, seen, head, over, told)'
<1>1. /\ service.pc = "hello"
      /\ UNCHANGED <<host, CcEn, ctrl, timer, sq, cq, shm, queue, crashes, forwarded, posted, refused>>
  BY DEF ServiceUserReady, historyVars
<1>2. crashes = 0
  BY <1>1 DEF Tracking, TypeOK
<1>3. EngineAt(done, head, over, told)' /\ fdo'.Mode = fdo.Mode
  <2>1. CASE SendsBuffers
    <3>1. /\ service'.pc = "loop" /\ service'.phase = service.phase /\ service'.taken = service.taken
          /\ fdo'.Mode = fdo.Mode
      BY <2>1 DEF ServiceUserReady, TypeOK
    <3> QED BY <1>1, <1>2, <3>1 DEF Tracking, EngineAt
  <2>2. CASE ~ SendsBuffers
    <3>1. service'.pc = "down" /\ service'.phase = 1 /\ service'.taken = 0 /\ fdo' = fdo
      BY <2>2 DEF ServiceUserReady, ServiceDown
    <3> QED BY <1>1, <1>2, <3>1 DEF Tracking, EngineAt
  <2> QED BY <2>1, <2>2
<1> QED BY <1>1, <1>2, <1>3, LocalTracks

LEMMA BeginTracks ==
  ASSUME TypeOK, NEW done, NEW seen, NEW head, NEW over, NEW told, Tracking(done, seen, head, over, told),
         PollBegin
  PROVE  Tracking(done, seen, head, over, told)'
<1>1. /\ service.pc = "loop"
      /\ UNCHANGED <<host, CcEn, ctrl, timer, fdo, sq, cq, shm, queue, crashes, forwarded, posted, refused>>
  BY DEF PollBegin, driverVars, historyVars
<1>2. crashes = 0
  BY <1>1 DEF Tracking, TypeOK
<1>3. /\ service'.pc = "take" /\ service'.phase = service.phase /\ service'.taken = 0
      /\ service'.limit = Len(queue)
  <2>1. service \in ServiceType /\ Len(queue) \in Nat
    BY DEF TypeOK, ServiceType
  <2>2. service' = [pc |-> "take", phase |-> service.phase, limit |-> Len(queue), taken |-> 0,
                    sqHead |-> service.sqHead, target |-> service.target, cqTail |-> service.cqTail]
    BY <2>1, Began DEF PollBegin
  <2> QED BY <2>2
<1>4. Len(queue) < Depth
  <2>1. /\ over = 0 /\ Len(queue) \in Nat /\ done \in Nat /\ forwarded \in Nat /\ Reaped \in Nat
        /\ host.issued \in Nat /\ done <= forwarded
    BY <1>1, <1>2, BoundsAssumption DEF Tracking, EngineAt, Order, TypeOK, Reaped
  <2>2. Len(queue) + done <= forwarded + over
    BY <2>1, RingCount DEF Tracking
  <2> QED BY <2>1, <2>2 DEF Tracking, Order
<1>5. EngineAt(done, head, over, told)'
  BY <1>1, <1>2, <1>3, <1>4 DEF Tracking, EngineAt
<1> QED BY <1>1, <1>2, <1>5, LocalTracks

LEMMA TakeTracks ==
  ASSUME TypeOK, NEW done, NEW seen, NEW head, NEW over, NEW told, Tracking(done, seen, head, over, told),
         TakeNotification
  PROVE  Tracking(done, seen, head, over + 1, told)'
<1>1. /\ service.pc = "take" /\ service.taken < service.limit
      /\ UNCHANGED <<host, CcEn, ctrl, timer, fdo, sq, cq, shm, queue, crashes, forwarded, posted, refused>>
  BY DEF TakeNotification, driverVars, historyVars
<1>2. crashes = 0
  BY <1>1 DEF Tracking, TypeOK
<1>3. /\ service'.pc = "walk" /\ service'.phase = service.phase /\ service'.taken = service.taken + 1
      /\ service'.limit = service.limit /\ service'.sqHead = shm.SqHead
      /\ service'.target = queue[service.taken + 1]
  <2>1. service \in ServiceType
    BY DEF TypeOK, ServiceType
  <2>2. service' = [pc |-> "walk", phase |-> service.phase, limit |-> service.limit,
                    taken |-> service.taken + 1, sqHead |-> shm.SqHead,
                    target |-> queue[service.taken + 1], cqTail |-> service.cqTail]
    BY <2>1, Took DEF TakeNotification
  <2> QED BY <2>2
<1>4. /\ over = service.taken /\ head = done /\ service.limit < Depth /\ service.limit <= Len(queue)
      /\ over \in Nat /\ Len(queue) \in Nat /\ done \in Nat
      /\ shm.CqTail = Pos(done) /\ service.phase = Ph(done) /\ shm.SqHead = Pos(head)
  BY <1>1, <1>2 DEF Tracking, EngineAt, TypeOK, Order, Descriptors
<1>5. over + 1 \in 1 .. Len(queue) /\ over + 1 < Depth
  BY <1>1, <1>4, <1>3 DEF TypeOK
<1>6. queue[over + 1] = Pos(told[over + 1]) /\ done < told[over + 1] /\ told[over + 1] \in Nat
  BY <1>4, <1>5 DEF Tracking, Ring
<1>7. Ring(done, over + 1, told)'
  <2>1. \A i \in 1 .. Len(queue) : over + 1 < i => over < i
    BY <1>4
  <2>2. over + 1 \in 0 .. Len(queue)
    BY <1>4, <1>5
  <2> QED BY <1>1, <1>5, <2>1, <2>2 DEF Tracking, Ring
<1>8. EngineAt(done, head, over + 1, told)'
  BY <1>1, <1>3, <1>4, <1>5, <1>6 DEF EngineAt
<1>9. /\ HostAt' /\ InOrder' /\ Enabled(seen)' /\ SqHolds'
      /\ fdo'.Mode = "USER" /\ timer' # "abort" /\ NeverRefused'
  BY <1>1, ServiceLeaves
<1>10. Order(done, seen, head)' /\ CqPhases(done)' /\ CqCids(done)' /\ posted' = 1 .. done
       /\ Descriptors(done, head)'
  BY <1>1 DEF Tracking, Order, CqPhases, CqCids, Reaped, Descriptors
<1> QED BY <1>1, <1>2, <1>7, <1>8, <1>9, <1>10 DEF Tracking

LEMMA ExecuteTracks ==
  ASSUME TypeOK, NEW done, NEW seen, NEW head, NEW over, NEW told, Tracking(done, seen, head, over, told),
         ExecuteCommand
  PROVE  /\ head <= done /\ done < forwarded
         /\ cq' = [cq EXCEPT ![Pos(done)] = [cid |-> done + 1, sqhd |-> Pos(head), phase |-> Ph(done)]]
         /\ Tracking(done + 1, seen, head, over, told)'
<1>1. /\ service.pc = "walk" /\ service.sqHead # service.target
      /\ UNCHANGED <<host, CcEn, ctrl, timer, fdo, sq, shm, queue, crashes, forwarded, refused>>
  BY DEF ExecuteCommand, driverVars
<1>2. crashes = 0
  BY <1>1 DEF Tracking, TypeOK
<1>3. /\ service'.pc = "post" /\ service'.cqTail = Next1(shm.CqTail) /\ service'.phase = service.phase
      /\ service'.taken = service.taken /\ service'.limit = service.limit
      /\ service'.sqHead = service.sqHead /\ service'.target = service.target
  BY DEF ExecuteCommand, TypeOK
<1>4. /\ done \in Nat /\ seen \in Nat /\ head \in Nat /\ forwarded \in Nat /\ host.issued \in Nat
      /\ Reaped \in Nat /\ Len(queue) \in Nat /\ over \in 1 .. Len(queue) /\ over = service.taken
      /\ told[over] \in Nat /\ done <= told[over] /\ told[over] <= forwarded
      /\ service.sqHead = Pos(done) /\ service.target = Pos(told[over]) /\ service.limit < Depth
      /\ shm.CqTail = Pos(done) /\ service.phase = Ph(done) /\ shm.SqHead = Pos(head)
      /\ head <= done
  <2>1. EngineAt(done, head, over, told) /\ Order(done, seen, head) /\ Ring(done, over, told)
        /\ Descriptors(done, head)
    BY <1>2 DEF Tracking
  <2>2. over \in 1 .. Len(queue) /\ Len(queue) \in Nat
    BY <1>1, <2>1 DEF EngineAt, Ring, TypeOK
  <2>3. told[over] \in Nat /\ told[over] <= forwarded
    BY <2>1, <2>2 DEF Ring
  <2> QED BY <1>1, <2>1, <2>2, <2>3, BoundsAssumption DEF EngineAt, Order, Descriptors, TypeOK, Reaped
<1>5. done < told[over] /\ done < forwarded /\ done < host.issued /\ host.issued <= done + Depth
  <2>1. done # told[over]
    BY <1>1, <1>4
  <2>2. done < told[over]
    BY <1>4, <2>1
  <2>3. done < forwarded
    BY <1>4, <2>2
  <2>4. /\ forwarded <= seen /\ seen <= host.issued /\ host.issued < Reaped + Depth /\ Reaped <= done
    BY DEF Tracking, Order
  <2> QED BY <1>4, <2>2, <2>3, <2>4
<1>6. sq[Pos(done)] = done + 1
  <2>1. SqHolds
    BY DEF Tracking
  <2>2. done \in 0 .. host.issued - 1
    BY <1>4, <1>5
  <2> QED BY <1>5, <2>1, <2>2 DEF SqHolds
<1>7. PICK e : e = [cid |-> done + 1, sqhd |-> Pos(head), phase |-> Ph(done)]
  OBVIOUS
<1>8. cq' = [cq EXCEPT ![Pos(done)] = e] /\ e.cid = done + 1 /\ e.phase = Ph(done)
  BY <1>4, <1>6, <1>7 DEF ExecuteCommand
<1>9. CqPhases(done + 1)'
  <2>1. CqPhases(done)
    BY DEF Tracking
  <2> QED BY <1>4, <1>8, <2>1, WritePhases
<1>10. CqCids(done + 1)'
  BY <1>4, <1>8, WriteCids DEF Tracking
<1>11. posted' = 1 .. (done + 1)
  BY <1>4, <1>6 DEF ExecuteCommand, Tracking
<1>12. Ring(done + 1, over, told)'
  <2>1. ASSUME NEW i \in 1 .. Len(queue), over < i PROVE done + 1 < told[i]
    <3>1. told[over] + (i - over) <= told[i] /\ told[i] \in Nat
      BY <1>4, <2>1 DEF Tracking, Ring
    <3> QED BY SMTT(30), <1>4, <1>5, <2>1, <3>1
  <2> QED BY <1>1, <2>1 DEF Tracking, Ring
<1>13. Descriptors(done + 1, head)' /\ Order(done + 1, seen, head)'
  BY <1>1, <1>4, <1>5 DEF Tracking, Descriptors, Order, Reaped
<1>14. EngineAt(done + 1, head, over, told)'
  <2>1. service'.cqTail = Pos(done + 1)
    BY <1>3, <1>4, PosNext
  <2>2. done + 1 <= told[over] /\ head < done + 1 /\ (done + 1) - 1 = done /\ 1 <= over
    BY SMTT(30), <1>4, <1>5
  <2> QED BY <1>1, <1>3, <1>4, <2>1, <2>2 DEF EngineAt
<1>15. /\ HostAt' /\ InOrder' /\ Enabled(seen)' /\ SqHolds'
       /\ fdo'.Mode = "USER" /\ timer' # "abort" /\ NeverRefused'
  BY <1>1, ServiceLeaves
<1>16. Tracking(done + 1, seen, head, over, told)'
  BY <1>1, <1>2, <1>9, <1>10, <1>11, <1>12, <1>13, <1>14, <1>15 DEF Tracking
<1> QED BY <1>4, <1>5, <1>7, <1>8, <1>16

LEMMA AdvanceTracks ==
  ASSUME TypeOK, NEW done, NEW seen, NEW head, NEW over, NEW told, Tracking(done, seen, head, over, told),
         PostAdvance
  PROVE  Tracking(done, seen, head, over, told)'
<1>1. /\ service.pc = "post"
      /\ UNCHANGED <<host, CcEn, ctrl, timer, fdo, sq, cq, queue, crashes, forwarded, posted, refused>>
  BY DEF PostAdvance, driverVars, historyVars
<1>2. crashes = 0
  BY <1>1 DEF Tracking, TypeOK
<1>3. /\ service'.pc = "walk" /\ service'.sqHead = Next1(service.sqHead)
      /\ service'.phase = Flip(service.phase, service.cqTail)
      /\ service'.taken = service.taken /\ service'.limit = service.limit
      /\ service'.target = service.target
      /\ shm'.CqTail = service.cqTail /\ shm'.SqHead = shm.SqHead /\ shm'.SqTail = shm.SqTail
      /\ shm'.CqPhase = shm.CqPhase
  BY DEF PostAdvance, TypeOK
<1>4. EngineAt(done, head, over, told) /\ done \in Nat /\ head \in Nat /\ head < done
  BY <1>1, <1>2 DEF Tracking, Order, EngineAt
<1>5. PICK k \in Nat : done = k + 1 /\ done - 1 = k
  BY <1>4
<1>6. service'.sqHead = Pos(done) /\ service'.phase = Ph(done) /\ shm'.CqTail = Pos(done)
  BY <1>1, <1>3, <1>4, <1>5, PosNext DEF EngineAt
<1>7. EngineAt(done, head, over, told)'
  BY <1>1, <1>3, <1>4, <1>6 DEF EngineAt
<1>8. Descriptors(done, head)'
  BY <1>1, <1>3, <1>6 DEF Tracking, Descriptors
<1>9. /\ HostAt' /\ InOrder' /\ Enabled(seen)' /\ SqHolds'
      /\ fdo'.Mode = "USER" /\ timer' # "abort" /\ NeverRefused'
  BY <1>1, ServiceLeaves
<1>10. Order(done, seen, head)' /\ CqPhases(done)' /\ CqCids(done)' /\ posted' = 1 .. done
       /\ Ring(done, over, told)'
  BY <1>1 DEF Tracking, Order, CqPhases, CqCids, Reaped, Ring
<1> QED BY <1>1, <1>2, <1>7, <1>8, <1>9, <1>10 DEF Tracking

LEMMA StoreTracks ==
  ASSUME TypeOK, NEW done, NEW seen, NEW head, NEW over, NEW told, Tracking(done, seen, head, over, told),
         StoreHead
  PROVE  Tracking(done, seen, done, over, told)'
<1>1. /\ service.pc = "walk"
      /\ UNCHANGED <<host, CcEn, ctrl, timer, fdo, sq, cq, queue, crashes, forwarded, posted, refused>>
  BY DEF StoreHead, driverVars, historyVars
<1>2. crashes = 0
  BY <1>1 DEF Tracking, TypeOK
<1>3. /\ service'.pc = "take" /\ service'.phase = service.phase
      /\ service'.taken = service.taken /\ service'.limit = service.limit
      /\ shm'.CqTail = shm.CqTail /\ shm'.SqHead = service.sqHead /\ shm'.SqTail = shm.SqTail
      /\ shm'.CqPhase = shm.CqPhase
  BY DEF StoreHead, TypeOK
<1>4. EngineAt(done, head, over, told)
  BY <1>2 DEF Tracking
<1>5. EngineAt(done, done, over, told)' /\ Descriptors(done, done)'
  BY <1>1, <1>3, <1>4 DEF Tracking, EngineAt, Descriptors
<1>6. /\ HostAt' /\ InOrder' /\ Enabled(seen)' /\ SqHolds'
      /\ fdo'.Mode = "USER" /\ timer' # "abort" /\ NeverRefused'
  BY <1>1, ServiceLeaves
<1>7. CqPhases(done)' /\ CqCids(done)' /\ posted' = 1 .. done /\ Ring(done, over, told)'
  BY <1>1 DEF Tracking, CqPhases, CqCids, Ring
<1>8. Order(done, seen, done)'
  BY <1>1 DEF Tracking, Order, Reaped
<1> QED BY <1>1, <1>2, <1>5, <1>6, <1>7, <1>8 DEF Tracking

LEMMA EndTracks ==
  ASSUME TypeOK, NEW done, NEW seen, NEW head, NEW over, NEW told, Tracking(done, seen, head, over, told),
         PollEnd
  PROVE  \E rest : Tracking(done, seen, head, 0, rest)'
<1>1. /\ service.pc = "take" /\ service.taken = service.limit
      /\ queue' = SubSeq(queue, service.limit + 1, Len(queue))
      /\ UNCHANGED <<host, CcEn, ctrl, timer, fdo, sq, cq, shm, crashes, forwarded, posted, refused>>
  BY DEF PollEnd, driverVars, historyVars
<1>2. crashes = 0
  BY <1>1 DEF Tracking, TypeOK
<1>3. service'.pc = "loop" /\ service'.phase = service.phase /\ service'.taken = 0
  <2>1. service \in ServiceType
    BY DEF TypeOK, ServiceType
  <2>2. service' = [pc |-> "loop", phase |-> service.phase, limit |-> 0, taken |-> 0,
                    sqHead |-> service.sqHead, target |-> service.target, cqTail |-> service.cqTail]
    BY <2>1, Ended DEF PollEnd
  <2> QED BY <2>2
<1>4. EngineAt(done, head, over, told) /\ Ring(done, over, told)
  BY <1>2 DEF Tracking
<1>5. /\ over = service.limit /\ over \in Nat /\ Len(queue) \in Nat /\ over <= Len(queue)
      /\ queue \in Seq(Slots) /\ told \in [1 .. Len(queue) -> Nat] /\ done \in Nat
  BY <1>1, <1>4 DEF EngineAt, TypeOK, Ring, Tracking, Order
<1>6. PICK m \in Nat : m = Len(queue) - over
  BY <1>5
<1>7. Len(queue') = m /\ \A i \in 1 .. m : queue'[i] = queue[i + over]
  BY SMTT(30), <1>1, <1>5, <1>6
<1>8. PICK rest : rest = [i \in 1 .. m |-> told[i + over]]
  OBVIOUS
<1>9. \A i \in 1 .. m : i + over \in 1 .. Len(queue) /\ over < i + over
  BY <1>5, <1>6
<1>10. rest \in [1 .. m -> Nat]
  BY <1>5, <1>8, <1>9
<1>11. Ring(done, 0, rest)'
  <2>1. ASSUME NEW i \in 1 .. m
        PROVE  queue'[i] = Pos(rest[i]) /\ rest[i] <= forwarded' /\ done < rest[i]
    BY <1>1, <1>4, <1>7, <1>8, <1>9 DEF Ring
  <2>2. ASSUME NEW i \in 1 .. m, NEW j \in 1 .. m, i <= j PROVE rest[i] + (j - i) <= rest[j]
    <3>1. PICK a \in 1 .. Len(queue), b \in 1 .. Len(queue) :
            a = i + over /\ b = j + over /\ a <= b /\ b - a = j - i
      BY <1>5, <1>9, <2>2
    <3>2. told[a] + (b - a) <= told[b]
      BY <1>4, <3>1 DEF Ring
    <3> QED BY <1>8, <3>1, <3>2
  <2>3. 0 \in 0 .. Len(queue') /\ 0 < Depth
    BY <1>7
  <2> QED BY <1>7, <1>10, <2>1, <2>2, <2>3 DEF Ring
<1>12. EngineAt(done, head, 0, rest)'
  BY <1>1, <1>3, <1>4 DEF EngineAt
<1>13. /\ HostAt' /\ InOrder' /\ Enabled(seen)' /\ SqHolds'
       /\ fdo'.Mode = "USER" /\ timer' # "abort" /\ NeverRefused'
  BY <1>1, ServiceLeaves
<1>14. Order(done, seen, head)' /\ CqPhases(done)' /\ CqCids(done)' /\ posted' = 1 .. done
       /\ Descriptors(done, head)'
  BY <1>1 DEF Tracking, Order, CqPhases, CqCids, Reaped, Descriptors
<1>15. Tracking(done, seen, head, 0, rest)'
  BY <1>1, <1>2, <1>11, <1>12, <1>13, <1>14 DEF Tracking
<1> QED BY <1>15

LEMMA DeathTracks ==
  ASSUME TypeOK, NEW done, NEW seen, NEW head, NEW over, NEW told, Tracking(done, seen, head, over, told),
         ServiceDies
  PROVE  Tracking(done, seen, head, over, told)'
<1>1. /\ service'.pc = "down" /\ crashes' = crashes + 1 /\ crashes \in Nat
      /\ UNCHANGED <<host, CcEn, ctrl, timer, fdo, sq, cq, shm, queue, forwarded, posted, refused>>
  BY BoundsAssumption DEF ServiceDies, ServiceDown, driverVars, TypeOK
<1> QED BY <1>1, LocalTracks

-----------------------------------------------------------------------------
(* The counters exist until a crash is detected *)

Tracked == \E done, seen, head, over, told : Tracking(done, seen, head, over, told)

(* A detected crash stays detected, and a second service a second service. *)
LEMMA UndisturbedBefore ==
  ASSUME TypeOK, [Next]_vars, Undisturbed'
  PROVE  Undisturbed /\ ~ TimerDetectsCrash
<1>1. ASSUME TimerDetectsCrash PROVE FALSE
  BY <1>1 DEF TimerDetectsCrash, Undisturbed, TypeOK
<1>2. CASE fdo' = fdo /\ crashes' = crashes
  BY <1>1, <1>2 DEF Undisturbed
<1>3. CASE AbortEnd
  <2>1. fdo'.UserCrashed = fdo.UserCrashed /\ crashes' = crashes
    BY <1>3 DEF AbortEnd, historyVars, TypeOK
  <2> QED BY <1>1, <2>1 DEF Undisturbed
<1>4. CASE ServiceUserReady
  <2>1. fdo'.UserCrashed = fdo.UserCrashed /\ crashes' = crashes
    BY <1>4 DEF ServiceUserReady, historyVars, TypeOK
  <2> QED BY <1>1, <2>1 DEF Undisturbed
<1>5. CASE ServiceDies
  <2>1. fdo' = fdo /\ crashes' = crashes + 1 /\ crashes \in Nat
    BY <1>5, BoundsAssumption DEF ServiceDies, driverVars, TypeOK
  <2> QED BY <1>1, <2>1 DEF Undisturbed
<1> QED BY <1>1, <1>2, <1>3, <1>4, <1>5
        DEF Next, Host, Timer, Service, Engine, vars, driverVars, historyVars, HostToggleEnable,
            HostSubmit, HostReap, D0Entry, D0Exit, HeartbeatTimeout, TimerFindsServiceAlive,
            AbortOne, TimerDoorbells, ServiceStart, ServiceHeartbeat, PollBegin, TakeNotification,
            ExecuteCommand, PostAdvance, StoreHead, PollEnd

LEMMA TrackedStep ==
  ASSUME TypeOK, [Next]_vars, Undisturbed => Tracked
  PROVE  Undisturbed' => Tracked'
<1> SUFFICES ASSUME Undisturbed' PROVE Tracked'
  OBVIOUS
<1>1. Undisturbed /\ ~ TimerDetectsCrash
  BY UndisturbedBefore
<1>2. PICK done, seen, head, over, told : Tracking(done, seen, head, over, told)
  BY <1>1 DEF Tracked
<1>3. crashes = 0 \/ ~ Restarts
  BY <1>1 DEF Undisturbed
<1>4. ~ AbortOne /\ ~ AbortEnd
  BY <1>2 DEF AbortOne, AbortEnd, Tracking
<1>5. CASE D0Entry \/ D0Exit \/ HeartbeatTimeout \/ TimerFindsServiceAlive \/ ServiceHeartbeat
           \/ UNCHANGED vars
  <2>1. UNCHANGED <<host, CcEn, ctrl, fdo, sq, cq, shm, queue, service, crashes, forwarded, posted, refused>>
        /\ timer' # "abort"
    BY <1>2, <1>5 DEF D0Entry, D0Exit, HeartbeatTimeout, TimerFindsServiceAlive, ServiceHeartbeat,
       vars, driverVars, historyVars, Tracking
  <2> QED BY <1>2, <2>1, QuietTracks DEF Tracked
<1>6. CASE HostToggleEnable
  BY <1>2, <1>6, ToggleTracks DEF Tracked
<1>7. CASE HostSubmit
  BY <1>2, <1>7, SubmitTracks DEF Tracked
<1>8. CASE HostReap
  BY <1>2, <1>8, ReapTracks DEF Tracked
<1>9. CASE TimerDoorbells
  BY <1>2, <1>9, DoorbellsTrack DEF Tracked
<1>10. CASE ServiceStart
  BY <1>2, <1>3, <1>10, StartTracks DEF Tracked
<1>11. CASE ServiceUserReady
  BY <1>2, <1>11, ReadyTracks DEF Tracked
<1>12. CASE PollBegin
  BY <1>2, <1>12, BeginTracks DEF Tracked
<1>13. CASE TakeNotification
  BY <1>2, <1>13, TakeTracks DEF Tracked
<1>14. CASE ExecuteCommand
  BY <1>2, <1>14, ExecuteTracks DEF Tracked
<1>15. CASE PostAdvance
  BY <1>2, <1>15, AdvanceTracks DEF Tracked
<1>16. CASE StoreHead
  BY <1>2, <1>16, StoreTracks DEF Tracked
<1>17. CASE PollEnd
  BY <1>2, <1>17, EndTracks DEF Tracked
<1>18. CASE ServiceDies
  BY <1>2, <1>18, DeathTracks DEF Tracked
<1> QED BY <1>1, <1>4, <1>5, <1>6, <1>7, <1>8, <1>9, <1>10, <1>11, <1>12, <1>13, <1>14, <1>15, <1>16,
           <1>17, <1>18 DEF Next, Host, Timer, Service, Engine

LEMMA TrackedInit == Init => Tracking(0, 0, 0, 0, << >>)
<1> SUFFICES ASSUME Init PROVE Tracking(0, 0, 0, 0, << >>)
  OBVIOUS
<1>1. Pos(0) = 0 /\ Ph(0) = 1
  BY FirstLap DEF Slots
<1>2. /\ host.issued = 0 /\ host.tail = 0 /\ host.cqHead = 0 /\ host.phase = 1 /\ host.reaped = << >>
      /\ Reaped = 0 /\ forwarded = 0 /\ queue = << >> /\ posted = {} /\ ~ refused
  BY DEF Init, Reaped
<1>3. Order(0, 0, 0) /\ HostAt /\ InOrder /\ Enabled(0) /\ SqHolds
  BY <1>1, <1>2 DEF Order, HostAt, InOrder, Enabled, SqHolds, Init
<1>4. CqPhases(0) /\ CqCids(0) /\ posted = 1 .. 0
  BY <1>2 DEF CqPhases, CqCids, Init
<1>5. Ring(0, 0, << >>)
  BY <1>2 DEF Ring
<1>6. Descriptors(0, 0)
  BY <1>1, <1>2 DEF Descriptors, Init
<1>7. EngineAt(0, 0, 0, << >>)
  BY <1>1, <1>2 DEF EngineAt, Init, ServiceDown
<1>8. crashes = 0 /\ fdo.Mode = "USER" /\ timer # "abort" /\ NeverRefused
  BY DEF Init, NeverRefused
<1> QED BY <1>3, <1>4, <1>5, <1>6, <1>7, <1>8 DEF Tracking

(* Until a crash is detected the host reaps exactly one completion for     *)
(* each command, in the order of submission, whatever the depth of the     *)
(* queues and however the steps of host, timer and CmdEnginePoll           *)
(* interleave, also when the service stalls or dies.                       *)
THEOREM CompletedOnceInOrderCorrect == Spec => []CompletedOnceInOrder
<1>1. Init => Tracked
  BY TrackedInit DEF Tracked
<1>2. TypeOK /\ (Undisturbed => Tracked) /\ [Next]_vars => (Undisturbed => Tracked)'
  BY TrackedStep
<1>3. TypeOK /\ (Undisturbed => Tracked) => CompletedOnceInOrder
  <2> SUFFICES ASSUME TypeOK, Undisturbed, Tracked
               PROVE  Reaped <= host.issued /\ \A k \in 1 .. Reaped : host.reaped[k] = k
    BY DEF CompletedOnceInOrder, Reaped
  <2>1. PICK done, seen, head, over, told : Tracking(done, seen, head, over, told)
    BY DEF Tracked
  <2>2. Order(done, seen, head) /\ InOrder
    BY <2>1 DEF Tracking
  <2>3. Reaped \in Nat /\ host.issued \in Nat /\ forwarded \in Nat
    BY BoundsAssumption DEF TypeOK, Reaped
  <2> QED BY <2>2, <2>3 DEF Order, InOrder
<1> QED BY <1>1, <1>2, <1>3, TypeCorrect, PTL DEF Spec

(* The timer switches to kernel mode before it looks at the doorbells again. *)
SwitchesMode == fdo.UserCrashed => timer = "abort" \/ fdo.Mode = "KERNEL"

LEMMA SwitchesModeStep ==
  ASSUME TypeOK, [Next]_vars, SwitchesMode
  PROVE  SwitchesMode' /\ (fdo.UserCrashed => refused' = refused)
<1> USE DEF SwitchesMode
<1>1. CASE fdo' = fdo /\ timer' = timer /\ refused' = refused
  BY <1>1
<1>2. CASE D0Entry \/ D0Exit \/ TimerFindsServiceAlive
  BY <1>2 DEF D0Entry, D0Exit, TimerFindsServiceAlive, historyVars
<1>3. CASE TimerDetectsCrash
  BY <1>3 DEF TimerDetectsCrash, historyVars
<1>4. CASE AbortEnd
  <2>1. fdo'.Mode = "KERNEL" /\ refused' = refused
    BY <1>4 DEF AbortEnd, historyVars, TypeOK
  <2> QED BY <2>1
<1>5. CASE TimerDoorbells
  <2>1. fdo' = fdo /\ timer = "doorbells"
    BY <1>5 DEF TimerDoorbells
  <2>2. fdo.Mode # "USER" => refused' = refused
    BY <1>5 DEF TimerDoorbells, TypeOK
  <2> QED BY <2>1, <2>2
<1>6. CASE ServiceUserReady
  <2>1. /\ fdo'.Mode = fdo.Mode /\ fdo'.UserCrashed = fdo.UserCrashed
        /\ timer' = timer /\ refused' = refused
    BY <1>6 DEF ServiceUserReady, historyVars, TypeOK
  <2> QED BY <2>1
<1> QED BY <1>1, <1>2, <1>3, <1>4, <1>5, <1>6
        DEF Next, Host, Timer, Service, Engine, vars, driverVars, historyVars, HostToggleEnable,
            HostSubmit, HostReap, HeartbeatTimeout, AbortOne, ServiceStart, ServiceHeartbeat,
            PollBegin, TakeNotification, ExecuteCommand, PostAdvance, StoreHead, PollEnd, ServiceDies

(* A ring of twice the queue never drops a notification, whenever the      *)
(* service dies: the notifications in it announce different commands, but  *)
(* for those a poll has executed and not released yet.                     *)
THEOREM NeverRefusedCorrect ==
  ASSUME ~ Restarts
  PROVE  Spec => []NeverRefused
<1> DEFINE IInv == (Undisturbed => Tracked) /\ SwitchesMode /\ NeverRefused
<1>1. Init => IInv
  BY TrackedInit DEF Tracked, Init, SwitchesMode, NeverRefused
<1>2. TypeOK /\ IInv /\ [Next]_vars => IInv'
  <2> SUFFICES ASSUME TypeOK, IInv, [Next]_vars PROVE IInv'
    OBVIOUS
  <2>1. Undisturbed' => Tracked'
    BY TrackedStep
  <2>2. SwitchesMode' /\ (fdo.UserCrashed => refused' = refused)
    BY SwitchesModeStep
  <2>3. NeverRefused'
    <3>1. CASE Undisturbed'
      BY <2>1, <3>1 DEF Tracked, Tracking
    <3>2. CASE ~ Undisturbed'
      <4>1. refused' = refused
        <5>1. fdo'.UserCrashed
          BY <3>2 DEF Undisturbed
        <5>2. CASE fdo.UserCrashed
          BY <2>2, <5>2
        <5>3. CASE ~ fdo.UserCrashed
          BY <5>1, <5>3 DEF TypeOK, Next, Host, Timer, Service, Engine, vars, driverVars, historyVars, HostToggleEnable,
            HostSubmit, HostReap, HeartbeatTimeout, AbortOne, ServiceStart, ServiceHeartbeat,
            PollBegin, TakeNotification, ExecuteCommand, PostAdvance, StoreHead, PollEnd, ServiceDies,
            ServiceUserReady, TimerDoorbells, TimerDetectsCrash, TimerFindsServiceAlive, AbortEnd, D0Entry, D0Exit
        <5> QED BY <5>2, <5>3
      <4> QED BY <4>1 DEF NeverRefused
    <3> QED BY <3>1, <3>2
  <2> QED BY <2>1, <2>2, <2>3
<1>3. IInv => NeverRefused
  OBVIOUS
<1> QED BY <1>1, <1>2, <1>3, TypeCorrect, PTL DEF Spec

-----------------------------------------------------------------------------
(* The abort of pending commands, when the host honours SQHD and the       *)
(* service is dead when it is taken for dead                               *)

Watched ==
  \E done, seen, head, over, told, at, known :
    Tracking(done, seen, head, over, told) /\ Heads(done, head, at, known)

LEMMA WatchedStep ==
  ASSUME TypeOK, HonoursSqhd, [Next]_vars, Undisturbed', Watched
  PROVE  Watched'
<1>1. Undisturbed /\ ~ TimerDetectsCrash
  BY UndisturbedBefore
<1>2. PICK done, seen, head, over, told, at, known :
        Tracking(done, seen, head, over, told) /\ Heads(done, head, at, known)
  BY DEF Watched
<1>3. crashes = 0 \/ ~ Restarts
  BY <1>1 DEF Undisturbed
<1>4. ~ AbortOne /\ ~ AbortEnd
  BY <1>2 DEF AbortOne, AbortEnd, Tracking
<1>5. done \in Nat /\ head \in Nat
  BY <1>2 DEF Tracking, Order
<1>7. ASSUME UNCHANGED <<host, cq>> PROVE Heads(done, head, at, known)'
  BY <1>2, <1>7 DEF Heads, CqHeads, Reaped
<1> SUFFICES \E a, b, c, d, e, f, g : Tracking(a, b, c, d, e)' /\ Heads(a, c, f, g)'
  BY DEF Watched
<1>8. CASE D0Entry \/ D0Exit \/ HeartbeatTimeout \/ TimerFindsServiceAlive \/ ServiceHeartbeat
           \/ UNCHANGED vars
  <2>1. UNCHANGED <<host, CcEn, ctrl, fdo, sq, cq, shm, queue, service, crashes, forwarded, posted, refused>>
        /\ timer' # "abort"
    BY <1>2, <1>8 DEF D0Entry, D0Exit, HeartbeatTimeout, TimerFindsServiceAlive, ServiceHeartbeat,
       vars, driverVars, historyVars, Tracking
  <2> QED BY <1>2, <1>7, <2>1, QuietTracks
<1>9. CASE HostToggleEnable
  <2>1. UNCHANGED <<host, cq>>
    BY <1>9 DEF HostToggleEnable
  <2> QED BY <1>2, <1>7, <1>9, <2>1, ToggleTracks
<1>10. CASE HostSubmit
  <2>1. host'.sqHead = host.sqHead /\ host'.reaped = host.reaped /\ cq' = cq
    BY <1>10 DEF HostSubmit, TypeOK
  <2>2. host'.issued < known + Depth
    BY <1>2, <1>10, SubmitKnows DEF Tracking, HostAt, Heads
  <2>3. Heads(done, head, at, known)'
    BY <1>2, <2>1, <2>2 DEF Heads, CqHeads, Reaped
  <2> QED BY <1>2, <1>10, <2>3, SubmitTracks
<1>11. CASE HostReap
  <2>1. Reaped < done /\ done <= Reaped + Depth /\ Tracking(done, seen, head, over, told)'
    BY <1>2, <1>11, ReapTracks
  <2>2. \E more : Heads(done, head, at, more)'
    BY <1>2, <1>5, <1>11, <2>1, ReapHeads DEF Tracking
  <2> QED BY <2>1, <2>2
<1>12. CASE TimerDoorbells
  <2>1. UNCHANGED <<host, cq>>
    BY <1>12 DEF TimerDoorbells
  <2> QED BY <1>2, <1>7, <1>12, <2>1, DoorbellsTrack
<1>13. CASE ServiceStart
  <2>1. UNCHANGED <<host, cq>>
    BY <1>13 DEF ServiceStart
  <2> QED BY <1>2, <1>3, <1>7, <1>13, <2>1, StartTracks
<1>14. CASE ServiceUserReady
  <2>1. UNCHANGED <<host, cq>>
    BY <1>14 DEF ServiceUserReady
  <2> QED BY <1>2, <1>7, <1>14, <2>1, ReadyTracks
<1>15. CASE PollBegin
  <2>1. UNCHANGED <<host, cq>>
    BY <1>15 DEF PollBegin
  <2> QED BY <1>2, <1>7, <1>15, <2>1, BeginTracks
<1>16. CASE TakeNotification
  <2>1. UNCHANGED <<host, cq>>
    BY <1>16 DEF TakeNotification
  <2> QED BY <1>2, <1>7, <1>16, <2>1, TakeTracks
<1>17. CASE ExecuteCommand
  <2>1. PICK e : e = [cid |-> done + 1, sqhd |-> Pos(head), phase |-> Ph(done)]
    OBVIOUS
  <2>2. cq' = [cq EXCEPT ![Pos(done)] = e] /\ Tracking(done + 1, seen, head, over, told)'
    BY <1>2, <1>17, <2>1, ExecuteTracks
  <2>3. e.sqhd = Pos(head) /\ host' = host
    BY <1>17, <2>1 DEF ExecuteCommand
  <2>4. \E new : Heads(done + 1, head, new, known)'
    <3>1. head <= head /\ Heads(done, head, at, known)
      BY <1>2, <1>5
    <3> QED BY <1>5, <2>2, <2>3, <3>1, WriteHeads
  <2> QED BY <2>2, <2>4
<1>18. CASE PostAdvance
  <2>1. UNCHANGED <<host, cq>>
    BY <1>18 DEF PostAdvance
  <2> QED BY <1>2, <1>7, <1>18, <2>1, AdvanceTracks
<1>19. CASE StoreHead
  <2>1. UNCHANGED <<host, cq>>
    BY <1>19 DEF StoreHead
  <2>2. Tracking(done, seen, done, over, told)'
    BY <1>2, <1>19, StoreTracks
  <2>3. Heads(done, done, at, known)'
    <3>1. at \in [0 .. done - 1 -> Nat] /\ known \in Nat /\ head <= done
      BY <1>2 DEF Heads, Tracking, Order
    <3>2. \A j \in 0 .. done - 1 : at[j] <= head => at[j] <= done
      BY <1>5, <3>1
    <3> QED BY <1>2, <1>5, <2>1, <3>1, <3>2 DEF Heads, CqHeads, Reaped
  <2> QED BY <2>2, <2>3
<1>20. CASE PollEnd
  <2>1. UNCHANGED <<host, cq>>
    BY <1>20 DEF PollEnd
  <2> QED BY <1>2, <1>7, <1>20, <2>1, EndTracks
<1>21. CASE ServiceDies
  <2>1. UNCHANGED <<host, cq>>
    BY <1>21 DEF ServiceDies
  <2> QED BY <1>2, <1>7, <1>21, <2>1, DeathTracks
<1> QED BY <1>1, <1>4, <1>8, <1>9, <1>10, <1>11, <1>12, <1>13, <1>14, <1>15, <1>16, <1>17, <1>18,
           <1>19, <1>20, <1>21 DEF Next, Host, Timer, Service, Engine

(* The abort begins where the service stopped, or one completion earlier   *)
(* if it died before it stored AdminCQ.Tail.                               *)
LEMMA AbortStarts ==
  ASSUME TypeOK, Watched, TimerDetectsCrash, ~ misjudged'
  PROVE  \E done, head, next, first, at, known : Aborting(done, head, next, first, at, known)'
<1>1. PICK done, seen, head, over, told, at, known :
        Tracking(done, seen, head, over, told) /\ Heads(done, head, at, known)
  BY DEF Watched
<1>2. /\ UNCHANGED <<host, sq, cq, shm, service, crashes, forwarded, posted>>
      /\ fdo.UserReady /\ service.pc = "down"
      /\ abort'.head = shm.SqHead /\ abort'.tail = shm.SqTail /\ abort'.cqTail = shm.CqTail
      /\ abort'.phase = shm.CqPhase
  BY DEF TimerDetectsCrash
<1>3. crashes > 0 /\ service.pc = "down"
  BY <1>1, <1>2, BoundsAssumption DEF Tracking, EngineAt, TypeOK
<1>4. /\ done \in Nat /\ head \in Nat /\ forwarded \in Nat /\ host.issued \in Nat /\ Reaped \in Nat
      /\ known \in Nat /\ head <= done /\ done <= forwarded /\ forwarded <= host.issued
      /\ host.issued < known + Depth /\ known <= head /\ Reaped <= done /\ seen \in Nat
      /\ host.issued < Reaped + Depth
  BY <1>1, BoundsAssumption DEF Tracking, Order, Heads, TypeOK, Reaped
<1>5. /\ shm.SqHead = Pos(head) /\ shm.SqTail = Pos(forwarded) /\ shm.CqPhase = 1
      /\ shm.CqTail = Pos(done) \/ (head < done /\ shm.CqTail = Pos(done - 1))
  BY <1>1 DEF Tracking, Descriptors
<1>6. PICK first \in Nat : first <= done /\ done <= first + 1 /\ head <= first /\ shm.CqTail = Pos(first)
  <2>1. CASE shm.CqTail = Pos(done)
    BY <1>4, <2>1
  <2>2. CASE head < done /\ shm.CqTail = Pos(done - 1)
    <3>1. done - 1 \in Nat /\ done - 1 <= done /\ done <= (done - 1) + 1 /\ head <= done - 1
      BY <1>4, <2>2
    <3> QED BY <2>2, <3>1
  <2> QED BY <1>5, <2>1, <2>2
<1>7. Written(head, head, first) = first /\ Frontier(done, head, head, first) = done
  BY <1>4, <1>6 DEF Written, Frontier
<1>8. AbortAt(done, head, head, first)'
  <2>1. 1 .. done \subseteq posted /\ 1 .. head \subseteq posted
    BY <1>1, <1>4 DEF Tracking
  <2> QED BY <1>2, <1>4, <1>5, <1>6, <1>7, <2>1 DEF AbortAt
<1>9. HostAt' /\ SqHolds' /\ Reaped' = Reaped
  BY <1>1, <1>2 DEF Tracking, HostAt, SqHolds, Reaped
<1>10. CqPhases(done)' /\ Heads(done, head, at, known)'
  BY <1>1, <1>2 DEF Tracking, CqPhases, Heads, CqHeads, Reaped
<1>11. CASE Ph(first) = 1
  <2>1. RightPhase(done, head, head, first, at, known)'
    BY <1>2, <1>4, <1>5, <1>7, <1>9, <1>10, <1>11 DEF RightPhase
  <2> QED BY <1>2, <1>3, <1>4, <1>8, <1>9, <2>1 DEF Aborting
<1>12. CASE Ph(first) = 0
  <2>1. cq[Pos(done)].phase # Ph(done)
    BY <1>1, <1>4, NotYetWritten DEF Tracking
  <2>2. WrongPhase(done, head, head, first)'
    BY <1>2, <1>4, <1>5, <1>7, <1>9, <1>12, <2>1 DEF WrongPhase
  <2> QED BY <1>2, <1>3, <1>4, <1>8, <1>9, <2>2 DEF Aborting
<1> QED BY <1>11, <1>12, PhType DEF Phases

LEMMA FlipWrong == \A p \in Phases : \A i : Flip(1 - p, i) = 1 - Flip(p, i)
  BY DEF Flip, Phases

(* One round of the abort: the command at its head is pending and still in *)
(* its slot, or was completed by the service.                              *)
LEMMA AbortGoesOn ==
  ASSUME TypeOK, AbortOne,
         NEW done, NEW head, NEW next, NEW first, NEW at, NEW known,
         Aborting(done, head, next, first, at, known)
  PROVE  \E new : Aborting(done, head, next + 1, first, new, known)'
<1> DEFINE w == Written(head, next, first)
<1>1. /\ done \in Nat /\ head \in Nat /\ next \in Nat /\ first \in Nat /\ forwarded \in Nat
      /\ head <= next /\ next <= forwarded /\ forwarded < head + Depth
      /\ first <= done /\ done <= first + 1 /\ head <= first /\ done <= forwarded
      /\ forwarded <= host.issued /\ host.issued \in Nat /\ Reaped \in Nat
      /\ host.issued < Reaped + Depth
      /\ abort.head = Pos(next) /\ abort.tail = Pos(forwarded) /\ abort.cqTail = Pos(w)
      /\ 1 .. done \subseteq posted /\ 1 .. next \subseteq posted
      /\ HostAt /\ SqHolds /\ service.pc = "down" /\ crashes > 0
  BY BoundsAssumption DEF Aborting, AbortAt, TypeOK, Reaped
<1>2. /\ abort.head # abort.tail
      /\ abort'.head = Next1(abort.head) /\ abort'.tail = abort.tail
      /\ abort'.cqTail = Next1(abort.cqTail)
      /\ abort'.phase = Flip(abort.phase, Next1(abort.cqTail))
      /\ posted' = posted \cup {sq[abort.head]}
      /\ UNCHANGED <<host, sq, service, crashes, forwarded>>
  BY DEF AbortOne, TypeOK
<1>3. next < forwarded
  BY <1>1, <1>2
<1>4. /\ w \in Nat /\ w + 1 <= first + (forwarded - head) /\ first <= w
      /\ Written(head, next + 1, first) = w + 1
  BY <1>1, <1>3 DEF Written
<1> DEFINE end == Frontier(done, head, next, first)
<1>5. /\ end \in Nat /\ (w = end \/ w + 1 = end) /\ done <= w + 1
      /\ Frontier(done, head, next + 1, first) = w + 1
  BY <1>1, <1>4 DEF Frontier
<1> HIDE DEF w, end
<1>6. abort'.cqTail = Pos(w + 1) /\ abort'.head = Pos(next + 1) /\ Next1(abort.cqTail) = Pos(w + 1)
  BY <1>1, <1>2, <1>4, PosNext
<1>7. PICK e : e = [cid |-> sq[abort.head], sqhd |-> abort.head, phase |-> abort.phase]
  OBVIOUS
<1>8. cq' = [cq EXCEPT ![Pos(w)] = e] /\ e.phase = abort.phase /\ e.sqhd = Pos(next)
  BY <1>1, <1>7 DEF AbortOne
<1>9. ASSUME done <= next => host.issued <= next + Depth
      PROVE  AbortAt(done, head, next + 1, first)'
  <2>1. next + 1 \in posted'
    <3>1. CASE next < done
      BY <1>1, <1>2, <3>1
    <3>2. CASE done <= next
      <4>1. sq[Pos(next)] = next + 1
        BY <1>1, <1>3, <1>9, <3>2 DEF SqHolds
      <4> QED BY <1>1, <1>2, <4>1
    <3> QED BY <1>1, <3>1, <3>2
  <2>2. 1 .. (next + 1) \subseteq posted' /\ 1 .. done \subseteq posted'
    BY <1>1, <1>2, <2>1
  <2>3. next + 1 \in Nat /\ head <= next + 1 /\ next + 1 <= forwarded
    BY <1>1, <1>3
  <2> QED BY <1>1, <1>2, <1>4, <1>6, <2>2, <2>3 DEF AbortAt
<1>10. /\ HostAt' /\ SqHolds' /\ Reaped' = Reaped /\ host'.issued < Reaped' + Depth
       /\ service'.pc = "down" /\ crashes' > 0
  BY <1>1, <1>2 DEF HostAt, SqHolds, Reaped
<1>11. CASE RightPhase(done, head, next, first, at, known)
  <2>1. /\ abort.phase = Ph(w) /\ Reaped <= end /\ CqPhases(end) /\ Heads(end, next, at, known)
    BY <1>11 DEF RightPhase, w, end
  <2>2. abort'.phase = Ph(w + 1)
    BY <1>2, <1>4, <1>6, <2>1, PosNext
  <2>3. CqPhases(w + 1)'
    BY <1>4, <1>5, <1>8, <2>1, WritePhases
  <2>4. PICK new : Heads(w + 1, next + 1, new, known)'
    <3>1. next <= next /\ next <= next + 1 /\ next + 1 \in Nat /\ host' = host
      BY <1>1, <1>2
    <3> QED BY <1>1, <1>4, <1>5, <1>8, <2>1, <3>1, WriteHeads
  <2>5. done <= next => host.issued <= next + Depth
    BY <1>1, <2>1 DEF Heads
  <2>6. Reaped <= w + 1 /\ w + 1 < Reaped + 2 * Depth
    BY <1>1, <1>4, <1>5, <2>1
  <2>7. RightPhase(done, head, next + 1, first, new, known)'
    BY <1>4, <1>5, <1>10, <2>2, <2>3, <2>4, <2>6 DEF RightPhase
  <2> QED BY <1>9, <1>10, <2>5, <2>7 DEF Aborting
<1>12. CASE WrongPhase(done, head, next, first)
  <2>1. abort.phase = 1 - Ph(w) /\ Reaped <= done /\ cq[Pos(done)].phase # Ph(done)
    BY <1>12 DEF WrongPhase, w
  <2>2. abort'.phase = 1 - Ph(w + 1)
    BY <1>2, <1>4, <1>6, <2>1, PosNext, FlipWrong, PhType
  <2>3. cq'[Pos(done)].phase # Ph(done)
    <3>1. Pos(done) \in Slots /\ DOMAIN cq = Slots
      BY <1>1, Division DEF TypeOK
    <3>2. CASE Pos(w) = Pos(done)
      <4>1. w = done
        <5>1. CASE done <= w
          <6>1. w < done + Depth
            BY <1>1, <1>4
          <6> QED BY <1>1, <1>4, <3>2, <5>1, <6>1, PosInjective
        <5>2. CASE w <= done
          <6>1. done < w + Depth
            BY <1>1, <1>4, <1>5
          <6> QED BY <1>1, <1>4, <3>2, <5>2, <6>1, PosInjective
        <5> QED BY <1>1, <1>4, <5>1, <5>2
      <4>2. cq'[Pos(done)].phase = 1 - Ph(done)
        BY <1>8, <2>1, <3>1, <4>1
      <4> QED BY <4>2, PhType DEF Phases
    <3>3. CASE Pos(w) # Pos(done)
      BY <1>8, <2>1, <3>1, <3>3
    <3> QED BY <3>2, <3>3
  <2>4. done <= next => host.issued <= next + Depth
    BY <1>1, <2>1
  <2>5. WrongPhase(done, head, next + 1, first)'
    BY <1>4, <1>10, <2>1, <2>2, <2>3 DEF WrongPhase
  <2> QED BY <1>9, <1>10, <2>4, <2>5 DEF Aborting
<1> QED BY <1>11, <1>12 DEF Aborting

(* What the host does beside the abort. *)
LEMMA AbortBesideHost ==
  ASSUME TypeOK, HonoursSqhd, HostSubmit \/ HostReap,
         NEW done, NEW head, NEW next, NEW first, NEW at, NEW known,
         Aborting(done, head, next, first, at, known)
  PROVE  \E more : Aborting(done, head, next, first, at, more)'
<1> DEFINE end == Frontier(done, head, next, first)
<1>1. /\ done \in Nat /\ next \in Nat /\ head \in Nat /\ first \in Nat /\ head <= next
      /\ HostAt /\ SqHolds /\ host.issued \in Nat
      /\ Reaped \in Nat /\ host.issued < Reaped + Depth /\ end \in Nat
  BY DEF Aborting, AbortAt, TypeOK, Reaped, Frontier, Written
<1>2. UNCHANGED <<abort, cq, service, crashes, forwarded, posted>>
  BY DEF HostSubmit, HostReap, driverVars, historyVars
<1>3. ASSUME host.issued <= host'.issued, host'.issued \in Nat PROVE AbortAt(done, head, next, first)'
  <2>1. forwarded \in Nat
    BY BoundsAssumption DEF TypeOK
  <2> QED BY <1>1, <1>2, <1>3, <2>1 DEF Aborting, AbortAt
<1> HIDE DEF end
<1>4. CASE HostSubmit
  <2>1. /\ host'.issued = host.issued + 1 /\ host'.tail = Next1(host.tail) /\ host'.sqHead = host.sqHead
        /\ host'.cqHead = host.cqHead /\ host'.phase = host.phase /\ host'.reaped = host.reaped
    BY <1>4 DEF HostSubmit, TypeOK
  <2>2. Reaped' = Reaped /\ host.issued - Reaped < Depth - 1
    BY <1>4, <2>1 DEF HostSubmit, Reaped
  <2>3. HostAt' /\ host'.issued < Reaped' + Depth
    BY <1>1, <2>1, <2>2, PosNext DEF HostAt
  <2>4. SqHolds'
    BY <1>1, <1>4, SubmitHolds DEF HostAt
  <2>5. AbortAt(done, head, next, first)'
    BY <1>1, <1>3, <2>1
  <2>6. CASE RightPhase(done, head, next, first, at, known)
    <3>1. Heads(end, next, at, known)
      BY <2>6 DEF RightPhase, end
    <3>2. host'.issued < known + Depth
      BY <1>1, <1>4, <3>1, SubmitKnows DEF HostAt, Heads
    <3>3. Heads(end, next, at, known)'
      BY <1>2, <2>1, <2>2, <3>1, <3>2 DEF Heads, CqHeads
    <3>4. RightPhase(done, head, next, first, at, known)'
      BY <1>2, <2>2, <2>6, <3>3 DEF RightPhase, CqPhases, end
    <3> QED BY <1>2, <2>3, <2>4, <2>5, <3>4 DEF Aborting
  <2>7. CASE WrongPhase(done, head, next, first)
    <3>1. WrongPhase(done, head, next, first)'
      BY <1>2, <2>2, <2>7 DEF WrongPhase
    <3> QED BY <1>2, <2>3, <2>4, <2>5, <3>1 DEF Aborting
  <2> QED BY <2>6, <2>7 DEF Aborting
<1>5. CASE HostReap
  <2>1. /\ host'.issued = host.issued /\ host'.tail = host.tail /\ sq' = sq
        /\ host'.cqHead = Next1(host.cqHead) /\ host'.phase = Flip(host.phase, Next1(host.cqHead))
        /\ host'.reaped = Append(host.reaped, cq[host.cqHead].cid)
        /\ host.reaped \in Seq(Cids \cup {NoCommand})
    BY <1>5 DEF HostReap, TypeOK
  <2>2. Reaped' = Reaped + 1
    BY <2>1 DEF Reaped
  <2>3. HostAt' /\ SqHolds' /\ host'.issued < Reaped' + Depth
    <3>1. HostAt'
      BY <1>1, <2>1, <2>2, PosNext DEF HostAt
    <3>2. SqHolds'
      BY <1>1, <2>1 DEF SqHolds
    <3>3. host'.issued < Reaped' + Depth
      BY <1>1, <2>1, <2>2
    <3> QED BY <3>1, <3>2, <3>3
  <2>4. AbortAt(done, head, next, first)'
    BY <1>1, <1>3, <2>1
  <2>5. CASE RightPhase(done, head, next, first, at, known)
    <3>1. /\ Heads(end, next, at, known) /\ CqPhases(end) /\ Reaped <= end /\ end < Reaped + 2 * Depth
      BY <2>5 DEF RightPhase, end
    <3>2. Reaped < end /\ end <= Reaped + Depth
      BY <1>1, <1>5, <3>1, ReapsNext DEF HostReap
    <3>3. PICK more : Heads(end, next, at, more)'
      BY <1>1, <1>5, <3>1, <3>2, ReapHeads
    <3>4. Reaped' <= end /\ end < Reaped' + 2 * Depth
      BY <1>1, <2>2, <3>1, <3>2
    <3>5. RightPhase(done, head, next, first, at, more)'
      BY <1>2, <2>5, <3>1, <3>3, <3>4 DEF RightPhase, CqPhases, end
    <3> QED BY <1>2, <2>3, <2>4, <3>5 DEF Aborting
  <2>6. CASE WrongPhase(done, head, next, first)
    <3>1. Reaped # done
      BY <1>5, <1>1, <2>6 DEF WrongPhase, HostReap, HostAt
    <3>2. Reaped' <= done
      BY <1>1, <2>2, <2>6, <3>1 DEF WrongPhase
    <3>3. WrongPhase(done, head, next, first)'
      BY <1>2, <2>6, <3>2 DEF WrongPhase
    <3> QED BY <1>2, <2>3, <2>4, <3>3 DEF Aborting
  <2> QED BY <2>5, <2>6 DEF Aborting
<1> QED BY <1>4, <1>5

(* Watched until a crash is detected, then aborting until the mode is      *)
(* switched, then covered.                                                 *)
AbortInv ==
  /\ ~ fdo.UserCrashed => Watched
  /\ fdo.UserCrashed /\ ~ misjudged /\ fdo.Mode = "USER" =>
       /\ timer = "abort"
       /\ \E done, head, next, first, at, known : Aborting(done, head, next, first, at, known)
  /\ fdo.UserCrashed /\ ~ misjudged /\ fdo.Mode = "KERNEL" => 1 .. forwarded \subseteq posted

LEMMA AbortInvStep ==
  ASSUME TypeOK, ~ Restarts, HonoursSqhd, [Next]_vars, AbortInv
  PROVE  AbortInv'
<1>0. fdo.UserCrashed \in BOOLEAN /\ fdo.Mode \in {"USER", "KERNEL"}
  BY DEF TypeOK
<1>6. fdo.UserCrashed => fdo'.UserCrashed /\ misjudged' = misjudged
  <2>1. CASE fdo' = fdo /\ misjudged' = misjudged
    BY <2>1
  <2>2. CASE TimerDetectsCrash \/ AbortEnd \/ ServiceUserReady
    BY <2>2 DEF TimerDetectsCrash, AbortEnd, ServiceUserReady, historyVars, TypeOK
  <2> QED BY <2>1, <2>2
          DEF Next, Host, Timer, Service, Engine, vars, driverVars, historyVars, HostToggleEnable,
              HostSubmit, HostReap, HeartbeatTimeout, AbortOne, ServiceStart, ServiceHeartbeat,
              PollBegin, TakeNotification, ExecuteCommand, PostAdvance, StoreHead, PollEnd, ServiceDies,
              TimerDoorbells, TimerFindsServiceAlive, D0Entry, D0Exit
<1>7. CASE fdo'.UserCrashed /\ misjudged'
  BY <1>7 DEF AbortInv
<1>1. CASE ~ fdo'.UserCrashed
  <2>1. Undisturbed'
    BY <1>1 DEF Undisturbed
  <2>2. Undisturbed
    BY <2>1, UndisturbedBefore
  <2>3. Watched
    BY <2>2 DEF Undisturbed, AbortInv
  <2>4. Watched'
    BY <2>1, <2>3, WatchedStep
  <2> QED BY <1>1, <2>4 DEF AbortInv
<1>2. CASE TimerDetectsCrash /\ ~ misjudged'
  <2>1. Watched /\ timer' = "abort" /\ fdo'.UserCrashed /\ fdo'.Mode = "USER"
    BY <1>2 DEF TimerDetectsCrash, AbortInv, TypeOK
  <2>2. \E done, head, next, first, at, known : Aborting(done, head, next, first, at, known)'
    BY <1>2, <2>1, AbortStarts
  <2> QED BY <2>1, <2>2 DEF AbortInv
<1>3. CASE fdo'.UserCrashed /\ ~ fdo.UserCrashed /\ ~ TimerDetectsCrash
  BY SMTT(30), <1>3 DEF TypeOK, Next, Host, Timer, Service, Engine, vars, driverVars, historyVars, HostToggleEnable,
     HostSubmit, HostReap, HeartbeatTimeout, AbortOne, ServiceStart, ServiceHeartbeat,
     PollBegin, TakeNotification, ExecuteCommand, PostAdvance, StoreHead, PollEnd, ServiceDies,
     ServiceUserReady, TimerDoorbells, TimerFindsServiceAlive, AbortEnd, D0Entry, D0Exit
<1>4. CASE fdo.UserCrashed /\ ~ misjudged /\ fdo.Mode = "USER"
  <2>1. PICK done, head, next, first, at, known : Aborting(done, head, next, first, at, known)
    BY <1>4 DEF AbortInv
  <2>2. timer = "abort" /\ service.pc = "down" /\ crashes > 0
    BY <1>4, <2>1 DEF AbortInv, Aborting
  <2>3. CASE HostSubmit \/ HostReap
    <3>1. \E more : Aborting(done, head, next, first, at, more)'
      BY <2>1, <2>3, AbortBesideHost
    <3>2. timer' = timer /\ fdo' = fdo
      BY <2>3 DEF HostSubmit, HostReap, driverVars
    <3> QED BY <1>6, <1>4, <2>2, <3>1, <3>2 DEF AbortInv
  <2>4. CASE AbortOne
    <3>1. \E new : Aborting(done, head, next + 1, first, new, known)'
      BY <2>1, <2>4, AbortGoesOn
    <3>2. timer' = timer /\ fdo' = fdo
      BY <2>4 DEF AbortOne
    <3> QED BY <1>6, <1>4, <2>2, <3>1, <3>2 DEF AbortInv
  <2>5. CASE AbortEnd
    <3>1. /\ head \in Nat /\ next \in Nat /\ head <= next /\ next <= forwarded /\ forwarded < head + Depth
          /\ abort.head = Pos(next) /\ abort.tail = Pos(forwarded) /\ 1 .. next \subseteq posted
          /\ forwarded \in Nat
      BY <2>1, BoundsAssumption DEF Aborting, AbortAt, TypeOK
    <3>2. next = forwarded
      <4>1. Pos(next) = Pos(forwarded)
        BY <2>5, <3>1 DEF AbortEnd
      <4>2. forwarded < next + Depth
        BY <3>1
      <4> QED BY <3>1, <4>1, <4>2, PosInjective
    <3>3. fdo'.Mode = "KERNEL" /\ fdo'.UserCrashed /\ forwarded' = forwarded /\ posted' = posted
      BY <1>4, <2>5 DEF AbortEnd, historyVars, TypeOK
    <3> QED BY <1>6, <1>4, <3>1, <3>2, <3>3 DEF AbortInv
  <2>6. CASE HostToggleEnable \/ HeartbeatTimeout \/ UNCHANGED vars
    <3>1. UNCHANGED <<host, timer, abort, fdo, sq, cq, service, crashes, forwarded, posted>>
      BY <2>6 DEF HostToggleEnable, HeartbeatTimeout, vars, driverVars, historyVars
    <3>2. Aborting(done, head, next, first, at, known)'
      BY <2>1, <3>1 DEF Aborting, AbortAt, HostAt, SqHolds, RightPhase, WrongPhase, CqPhases, Heads,
         CqHeads, Reaped
    <3> QED BY <1>6, <1>4, <2>2, <3>1, <3>2 DEF AbortInv
  <2> QED BY <2>2, <2>3, <2>4, <2>5, <2>6
          DEF Next, Host, Timer, Service, Engine, D0Entry, D0Exit, TimerDetectsCrash,
              TimerFindsServiceAlive, TimerDoorbells, ServiceStart, ServiceUserReady, ServiceHeartbeat,
              PollBegin, TakeNotification, ExecuteCommand, PostAdvance, StoreHead, PollEnd, ServiceDies
<1>5. CASE fdo.UserCrashed /\ ~ misjudged /\ fdo.Mode = "KERNEL"
  <2>1. fdo'.UserCrashed /\ fdo'.Mode = "KERNEL"
    <3>1. CASE fdo' = fdo
      BY <1>5, <3>1
    <3>2. CASE AbortEnd
      BY <1>5, <3>2 DEF AbortEnd, TypeOK
    <3>3. CASE ServiceUserReady
      BY <1>5, <3>3 DEF ServiceUserReady, TypeOK
    <3> QED BY <1>5, <3>1, <3>2, <3>3
            DEF Next, Host, Timer, Service, Engine, vars, driverVars, HostToggleEnable,
                HostSubmit, HostReap, HeartbeatTimeout, AbortOne, ServiceStart, ServiceHeartbeat,
                PollBegin, TakeNotification, ExecuteCommand, PostAdvance, StoreHead, PollEnd, ServiceDies,
                TimerDoorbells, TimerFindsServiceAlive, D0Entry, D0Exit, TimerDetectsCrash
  <2>2. forwarded' = forwarded /\ posted \subseteq posted'
    <3>1. CASE TimerDoorbells
      BY <1>5, <3>1 DEF TimerDoorbells
    <3>2. CASE AbortOne \/ ExecuteCommand
      BY <3>2 DEF AbortOne, ExecuteCommand
    <3> QED BY <3>1, <3>2
            DEF Next, Host, Timer, Service, Engine, vars, historyVars, HostToggleEnable,
                HostSubmit, HostReap, HeartbeatTimeout, ServiceStart, ServiceHeartbeat,
                PollBegin, TakeNotification, PostAdvance, StoreHead, PollEnd, ServiceDies,
                TimerFindsServiceAlive, D0Entry, D0Exit, TimerDetectsCrash, AbortEnd, ServiceUserReady
  <2> QED BY <1>6, <1>5, <2>1, <2>2 DEF AbortInv
<1> QED BY <1>0, <1>6, <1>7, <1>1, <1>2, <1>3, <1>4, <1>5

(* When the driver has switched to kernel mode, VnvmeAbortPendingUser-     *)
(* Commands has left no forwarded command without a completion, wherever   *)
(* the service died and whatever the host does meanwhile, if the service   *)
(* was dead when it was taken for dead.  Both hypotheses are needed:       *)
(* without HonoursSqhd the host may reuse a slot that the abort has still  *)
(* to read; a restarted service completes old commands again beside the    *)
(* abort, which frees their slots once more.                               *)
THEOREM AbortCoversForwardedCorrect ==
  ASSUME ~ Restarts, HonoursSqhd
  PROVE  Spec => []AbortCoversForwarded
<1>1. Init => AbortInv
  <2> SUFFICES ASSUME Init PROVE AbortInv
    OBVIOUS
  <2>1. Tracking(0, 0, 0, 0, << >>)
    BY TrackedInit
  <2>2. PICK at : at = [j \in 0 .. 0 - 1 |-> 0]
    OBVIOUS
  <2>3. Heads(0, 0, at, 0)
    <3>1. Pos(0) = 0
      BY FirstLap DEF Slots
    <3>2. \A j \in 0 .. 0 - 1 : FALSE
      OBVIOUS
    <3>3. at \in [0 .. 0 - 1 -> Nat]
      BY <2>2
    <3>4. host.sqHead = 0 /\ host.issued = 0
      BY DEF Init
    <3> QED BY <3>1, <3>2, <3>3, <3>4 DEF Heads, CqHeads
  <2> QED BY <2>1, <2>3 DEF AbortInv, Watched, Init
<1>2. TypeOK /\ AbortInv /\ [Next]_vars => AbortInv'
  BY AbortInvStep
<1>3. TypeOK /\ AbortInv => AbortCoversForwarded
  <2> SUFFICES ASSUME TypeOK, AbortInv, fdo.Mode = "KERNEL", ~ misjudged PROVE 1 .. forwarded \subseteq posted
    BY DEF AbortCoversForwarded
  <2>1. fdo.UserCrashed
    BY DEF AbortInv, Watched, Tracking, TypeOK
  <2> QED BY <2>1 DEF AbortInv
<1> QED BY <1>1, <1>2, <1>3, TypeCorrect, PTL DEF Spec
=============================================================================
