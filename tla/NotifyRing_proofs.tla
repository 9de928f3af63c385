--------------------------- MODULE NotifyRing_proofs ---------------------------
(***************************************************************************)
(* Proofs about the notification ring, for any ring size, any entries, any *)
(* number of service crashes and, where only one controller pushes, any    *)
(* interleaving of NotifyRingPush with CmdEnginePoll.                      *)
(***************************************************************************)
EXTENDS NotifyRing, SequenceTheorems, TLAPS

(* Only one timer pushes: the case NotifyRingPush is written for. *)
SingleProducer == \A p, q \in Producers : p = q

(* Succ goes to the next slot and from the last one to the first. *)
LEMMA SuccWraps == \A i \in Slots : /\ Succ(i) \in Slots
                                    /\ Succ(i) = IF i + 1 = Size THEN 0 ELSE i + 1
  BY SizeAssumption DEF Succ, Slots

(* The zeroed entry has the shape of an entry. *)
LEMMA ZeroEntryType == ZeroEntry \in Entry
  BY EntryAssumption DEF ZeroEntry, Entry

(* The records of a push and of a poll that is not under way. *)
LEMMA IdleTypes == IdlePush \in PushState /\ IdlePoll \in PollState
  BY ZeroEntryType, SizeAssumption DEF IdlePush, IdlePoll, PushState, PollState, Slots

(* Every memory access of the two sides keeps all indexes in the ring. *)
LEMMA TypeStep == TypeOK /\ [Next]_vars => TypeOK'
<1> SUFFICES ASSUME TypeOK, [Next]_vars PROVE TypeOK'
  OBVIOUS
<1> USE DEF TypeOK
<1>1. ASSUME NEW p \in Producers, NEW q \in QueueIds, NEW i \in Indexes,
             PushReadTail(p, [QueueId |-> q, Index |-> i])
      PROVE  TypeOK'
  <2>1. [pc |-> "check", tail |-> RingTail, entry |-> [QueueId |-> q, Index |-> i]] \in PushState
    BY DEF PushState, Entry
  <2> QED
    BY <1>1, <2>1 DEF PushReadTail
<1>2. ASSUME NEW p \in Producers, PushFull(p) PROVE TypeOK'
  BY <1>2, IdleTypes DEF PushFull
<1>3. ASSUME NEW p \in Producers, PushWriteQueueId(p) PROVE TypeOK'
  <2>1. pushing[p] \in PushState
    OBVIOUS
  <2>2. [Entries[pushing[p].tail] EXCEPT !.QueueId = pushing[p].entry.QueueId] \in Entry
    BY <2>1 DEF PushState, Entry
  <2>3. Entries' \in [Slots -> Entry]
    BY <1>3, <2>2 DEF PushWriteQueueId
  <2>4. [pushing[p] EXCEPT !.pc = "index"] \in PushState
    BY <2>1 DEF PushState
  <2>5. pushing' \in [Producers -> PushState]
    BY <1>3, <2>4 DEF PushWriteQueueId
  <2> QED
    BY <1>3, <2>3, <2>5 DEF PushWriteQueueId
<1>4. ASSUME NEW p \in Producers, PushWriteIndex(p) PROVE TypeOK'
  <2>1. pushing[p] \in PushState
    OBVIOUS
  <2>2. [Entries[pushing[p].tail] EXCEPT !.Index = pushing[p].entry.Index] \in Entry
    BY <2>1 DEF PushState, Entry
  <2>3. Entries' \in [Slots -> Entry]
    BY <1>4, <2>2 DEF PushWriteIndex
  <2>4. [pushing[p] EXCEPT !.pc = "publish"] \in PushState
    BY <2>1 DEF PushState
  <2>5. pushing' \in [Producers -> PushState]
    BY <1>4, <2>4 DEF PushWriteIndex
  <2> QED
    BY <1>4, <2>3, <2>5 DEF PushWriteIndex
<1>5. ASSUME NEW p \in Producers, PushPublish(p) PROVE TypeOK'
  <2>1. pushing[p].tail \in Slots
    BY DEF PushState
  <2>2. RingTail' \in Slots
    BY <1>5, <2>1, SuccWraps DEF PushPublish
  <2> QED
    BY <1>5, <2>2, IdleTypes DEF PushPublish
<1>6. CASE PollBegin
  <2>1. [pc |-> "walk", head |-> RingHead, tail |-> RingTail] \in PollState
    BY DEF PollState
  <2> QED
    BY <1>6, <2>1 DEF PollBegin
<1>7. CASE PollTake
  <2>1. polling.head \in Slots
    BY DEF PollState
  <2>2. [polling EXCEPT !.head = Succ(@)] \in PollState
    BY <2>1, SuccWraps DEF PollState
  <2>3. Entries[polling.head] \in Entry
    BY <2>1
  <2> QED
    BY <1>7, <2>2, <2>3 DEF PollTake
<1>8. CASE PollEnd
  <2>1. polling.head \in Slots
    BY DEF PollState
  <2> QED
    BY <1>8, <2>1, IdleTypes DEF PollEnd
<1>9. CASE ServiceRestart
  <2>1. crashes' \in 0 .. MaxCrashes
    BY <1>9, MaxCrashesAssumption DEF ServiceRestart
  <2> QED
    BY <1>9, <2>1, IdleTypes DEF ServiceRestart
<1>10. CASE UNCHANGED vars
  BY <1>10 DEF vars
<1> QED
  BY <1>1, <1>2, <1>3, <1>4, <1>5, <1>6, <1>7, <1>8, <1>9, <1>10 DEF Next, Push

(* The initial ring is well-formed. *)
LEMMA TypeInit == Init => TypeOK
  BY ZeroEntryType, IdleTypes, SizeAssumption, MaxCrashesAssumption DEF Init, TypeOK, Slots

(* No index of the ring ever leaves it, with any number of producers. *)
THEOREM TypeCorrect == Spec => []TypeOK
  BY TypeInit, TypeStep, PTL DEF Spec

-----------------------------------------------------------------------------
(* A single producer finds the tail it has read unchanged until it stores  *)
(* the new one: nobody else writes it.  This is what fails with two.       *)
TailIsMine == \A p \in Producers : pushing[p].pc # "idle" => pushing[p].tail = RingTail

(* With one producer no step of the other side moves the tail. *)
LEMMA TailStep ==
  ASSUME SingleProducer
  PROVE  TypeOK /\ TailIsMine /\ [Next]_vars => TailIsMine'
<1> SUFFICES ASSUME TypeOK, TailIsMine, [Next]_vars PROVE TailIsMine'
  OBVIOUS
<1> USE DEF TypeOK, TailIsMine, IdlePush
<1>1. ASSUME NEW p \in Producers, NEW e, PushReadTail(p, e) PROVE TailIsMine'
  BY <1>1 DEF PushReadTail
<1>2. ASSUME NEW p \in Producers, PushFull(p) PROVE TailIsMine'
  BY <1>2 DEF PushFull
<1>3. ASSUME NEW p \in Producers, PushWriteQueueId(p) PROVE TailIsMine'
  BY <1>3 DEF PushWriteQueueId, PushState
<1>4. ASSUME NEW p \in Producers, PushWriteIndex(p) PROVE TailIsMine'
  BY <1>4 DEF PushWriteIndex, PushState
<1>5. ASSUME NEW p \in Producers, PushPublish(p) PROVE TailIsMine'
  <2>1. pushing'[p].pc = "idle" /\ \A q \in Producers : q = p
    BY <1>5, SingleProducer DEF PushPublish, SingleProducer
  <2> QED
    BY <2>1
<1>6. CASE UNCHANGED <<pushing, RingTail>>
  BY <1>6
<1> QED
  BY <1>1, <1>2, <1>3, <1>4, <1>5, <1>6
  DEF Next, Push, PollBegin, PollTake, PollEnd, ServiceRestart, vars

(* The tail a single producer has read is the tail of the ring. *)
LEMMA TailCorrect == ASSUME SingleProducer PROVE Spec => []TailIsMine
<1>1. Init => TailIsMine
  BY DEF Init, TailIsMine, IdlePush
<1> QED
  BY <1>1, TailStep, TypeInit, TypeStep, PTL DEF Spec

(* With one controller CmdEnginePoll never reads an entry that             *)
(* NotifyRingPush has only half written, for every ring size.              *)
THEOREM SingleProducerNeverTears == ASSUME SingleProducer PROVE Spec => []NoTornRead
<1>1. TypeOK /\ TailIsMine => NoTornRead
  <2> SUFFICES ASSUME TypeOK, TailIsMine, NEW p \in Producers, pushing[p].pc \in {"index", "publish"}
               PROVE  ~ InWindow(pushing[p].tail, RingHead, RingTail)
    BY DEF NoTornRead
  <2>1. pushing[p].tail = RingTail
    BY DEF TailIsMine
  <2>2. Distance(RingHead, RingTail) \in Nat
    BY SizeAssumption DEF TypeOK, Slots, Distance
  <2> QED
    BY <2>1, <2>2 DEF InWindow
<1> QED
  BY <1>1, TailCorrect, TypeCorrect, PTL

(* With one controller a notification is refused only when Size - 1        *)
(* notifications are waiting: no slot of the ring is wasted but the one    *)
(* that tells full from empty.                                             *)
THEOREM SingleProducerRefusesOnlyWhenFull == ASSUME SingleProducer PROVE Spec => RefusesOnlyWhenFull
<1>1. TypeOK /\ TailIsMine /\ [Next]_vars =>
        [\A p \in Producers :
            (~ refused[p] /\ refused'[p]) => Distance(RingHead, RingTail) = Size - 1]_vars
  <2> SUFFICES ASSUME TypeOK, TailIsMine, Next,
                      NEW p \in Producers, ~ refused[p], refused'[p]
               PROVE  Distance(RingHead, RingTail) = Size - 1
    OBVIOUS
  <2>1. PICK q \in Producers : PushFull(q)
    BY DEF TypeOK, Next, Push, PushReadTail, PushWriteQueueId, PushWriteIndex, PushPublish, PollBegin,
           PollTake, PollEnd, ServiceRestart
  <2>2. Succ(RingTail) = RingHead
    BY <2>1 DEF PushFull, TailIsMine
  <2> QED
    BY <2>2, SuccWraps, SizeAssumption DEF TypeOK, Slots, Distance
<1> QED
  BY <1>1, TailCorrect, TypeCorrect, PTL DEF Spec, RefusesOnlyWhenFull

-----------------------------------------------------------------------------
(* The refinement of NotifyQueue: the entries from Head to Tail are the    *)
(* queue.                                                                  *)

(* An index less than two laps away is brought back into the ring. *)
LEMMA Lap == \A x \in 0 .. 2 * Size - 1 : x % Size = IF x < Size THEN x ELSE x - Size
  BY SizeAssumption

(* The k-th slot after a is b exactly when k is the distance from a to b. *)
LEMMA DistanceIsSteps ==
  ASSUME NEW a \in Slots, NEW b \in Slots
  PROVE  /\ Distance(a, b) \in Slots
         /\ (a + Distance(a, b)) % Size = b
         /\ \A k \in Slots : (a + k) % Size \in Slots /\ ((a + k) % Size = b => k = Distance(a, b))
<1>1. Distance(a, b) \in Slots
  BY SizeAssumption DEF Slots, Distance
<1>2. \A k \in Slots : (a + k) % Size = IF a + k < Size THEN a + k ELSE a + k - Size
  BY Lap, SizeAssumption DEF Slots
<1> QED
  BY <1>1, <1>2, SizeAssumption DEF Slots, Distance

(* A slot further on is a step further away, unless the walk is complete. *)
LEMMA DistanceSucc ==
  ASSUME NEW a \in Slots, NEW b \in Slots
  PROVE  /\ Distance(a, a) = 0
         /\ Distance(a, b) = 0 => a = b
         /\ Distance(a, b) = Size - 1 <=> Succ(b) = a
         /\ Succ(b) # a => Distance(a, Succ(b)) = Distance(a, b) + 1
  BY SuccWraps, SizeAssumption DEF Slots, Distance

(* From a slot inside the window the rest of the window is that much shorter. *)
LEMMA DistanceSplit ==
  ASSUME NEW a \in Slots, NEW b \in Slots, NEW c \in Slots, Distance(a, b) <= Distance(a, c)
  PROVE  Distance(b, c) = Distance(a, c) - Distance(a, b)
  BY SizeAssumption DEF Slots, Distance

Window(h, t, es) == [k \in 1 .. Distance(h, t) |-> es[(h + k - 1) % Size]]

LEMMA WindowIsSeq ==
  ASSUME NEW h \in Slots, NEW t \in Slots, NEW es \in [Slots -> Entry]
  PROVE  /\ Window(h, t, es) \in Seq(Entry)
         /\ Len(Window(h, t, es)) = Distance(h, t)
         /\ \A k \in 1 .. Distance(h, t) : Window(h, t, es)[k] = es[(h + (k - 1)) % Size]
<1> DEFINE n == Distance(h, t)
<1>1. n \in Nat /\ n <= Size - 1
  BY DistanceIsSteps DEF Slots
<1>2. \A k \in 1 .. n : h + k - 1 = h + (k - 1) /\ k - 1 \in Slots
  BY <1>1, SizeAssumption DEF Slots
<1>3. \A k \in 1 .. n : (h + k - 1) % Size \in Slots
  BY <1>2, DistanceIsSteps
<1>4. \A k \in 1 .. n : es[(h + k - 1) % Size] \in Entry
  BY <1>3
<1>5. Window(h, t, es) \in [1 .. n -> Entry]
  BY <1>4 DEF Window
<1> HIDE DEF n
<1>6. Window(h, t, es) \in Seq(Entry)
  BY <1>1, <1>5, SeqDef
<1>7. Len(Window(h, t, es)) = n
  <2>1. DOMAIN Window(h, t, es) = 1 .. n /\ DOMAIN Window(h, t, es) = 1 .. Len(Window(h, t, es))
    BY <1>5, <1>6, LenProperties
  <2>2. Len(Window(h, t, es)) \in Nat
    BY <1>6, LenProperties
  <2> QED
    BY <1>1, <2>1, <2>2
<1>8. \A k \in 1 .. n : Window(h, t, es)[k] = es[(h + (k - 1)) % Size]
  BY <1>2 DEF Window, n
<1> QED
  BY <1>6, <1>7, <1>8 DEF n

(* What a push has written is in its slot, and the slot was free.          *)
Written ==
  \A p \in Producers :
    /\ pushing[p].pc = "index" => Entries[RingTail].QueueId = pushing[p].entry.QueueId
    /\ pushing[p].pc = "publish" => Entries[RingTail] = pushing[p].entry
    /\ pushing[p].pc \in {"index", "publish"} => Succ(RingTail) # RingHead

(* A walk goes from Head to the tail it has read, which Tail may have left *)
(* behind since.                                                           *)
Walk ==
  polling.pc = "walk" =>
    /\ Distance(RingHead, polling.head) <= Distance(RingHead, polling.tail)
    /\ Distance(RingHead, polling.tail) <= Distance(RingHead, RingTail)

RingInv == TypeOK /\ TailIsMine /\ Written /\ Walk

LEMMA PushKeepsRingInv ==
  ASSUME SingleProducer, RingInv, NEW p \in Producers, Push(p), TypeOK', TailIsMine'
  PROVE  Written' /\ Walk'
<1>1. \A q \in Producers : q = p
  BY DEF SingleProducer
<1>2. /\ pushing[p] \in PushState /\ RingTail \in Slots /\ RingHead \in Slots
      /\ pushing \in [Producers -> PushState] /\ Entries \in [Slots -> Entry]
  BY DEF RingInv, TypeOK
<1>3. ASSUME NEW e, PushReadTail(p, e) PROVE Written' /\ Walk'
  BY <1>1, <1>2, <1>3 DEF PushReadTail, RingInv, Written, Walk
<1>4. CASE PushFull(p)
  BY <1>1, <1>2, <1>4 DEF PushFull, IdlePush, RingInv, Written, Walk
<1>5. CASE PushWriteQueueId(p)
  <2>1. pushing[p].tail = RingTail /\ UNCHANGED <<RingHead, RingTail, polling>>
    BY <1>5 DEF PushWriteQueueId, RingInv, TailIsMine
  <2>2. pushing'[p].pc = "index" /\ pushing'[p].entry = pushing[p].entry
    BY <1>2, <1>5 DEF PushWriteQueueId, PushState
  <2>3. Entries'[RingTail].QueueId = pushing[p].entry.QueueId
    BY <1>2, <1>5, <2>1 DEF PushWriteQueueId, Entry
  <2>4. Succ(RingTail) # RingHead
    BY <1>5, <2>1 DEF PushWriteQueueId
  <2> QED
    BY <1>1, <2>1, <2>2, <2>3, <2>4 DEF RingInv, Written, Walk
<1>6. CASE PushWriteIndex(p)
  <2>1. pushing[p].tail = RingTail /\ UNCHANGED <<RingHead, RingTail, polling>>
    BY <1>6 DEF PushWriteIndex, RingInv, TailIsMine
  <2>2. pushing'[p].pc = "publish" /\ pushing'[p].entry = pushing[p].entry
    BY <1>2, <1>6 DEF PushWriteIndex, PushState
  <2>3. /\ Entries'[RingTail] = [Entries[RingTail] EXCEPT !.Index = pushing[p].entry.Index]
        /\ Entries[RingTail] \in Entry /\ pushing[p].entry \in Entry
    BY <1>2, <1>6, <2>1 DEF PushWriteIndex, PushState
  <2>4. Entries[RingTail].QueueId = pushing[p].entry.QueueId /\ Succ(RingTail) # RingHead
    BY <1>6 DEF PushWriteIndex, RingInv, Written
  <2>5. Entries'[RingTail] = pushing[p].entry
    BY <2>3, <2>4 DEF Entry
  <2> QED
    BY <1>1, <2>1, <2>2, <2>4, <2>5 DEF RingInv, Written, Walk
<1>7. CASE PushPublish(p)
  <2>1. RingTail' = Succ(RingTail) /\ UNCHANGED <<RingHead, polling>> /\ pushing'[p].pc = "idle"
    BY <1>2, <1>7 DEF PushPublish, IdlePush, RingInv, TailIsMine
  <2>2. Succ(RingTail) # RingHead
    BY <1>7 DEF PushPublish, RingInv, Written
  <2>3. Distance(RingHead, Succ(RingTail)) = Distance(RingHead, RingTail) + 1
    BY <1>2, <2>2, DistanceSucc
  <2>4. Written'
    BY <1>1, <2>1 DEF Written
  <2>5. ASSUME polling.pc = "walk"
        PROVE  Distance(RingHead, polling.tail) <= Distance(RingHead, Succ(RingTail))
    <3>1. /\ Distance(RingHead, polling.tail) \in Slots /\ Distance(RingHead, RingTail) \in Slots
          /\ Distance(RingHead, polling.tail) <= Distance(RingHead, RingTail)
      BY <1>2, <2>5, DistanceIsSteps DEF RingInv, Walk, TypeOK, PollState
    <3> QED
      BY <2>3, <3>1 DEF Slots
  <2> QED
    BY <2>1, <2>4, <2>5 DEF RingInv, Walk
<1> QED
  BY <1>3, <1>4, <1>5, <1>6, <1>7 DEF Push

LEMMA PollKeepsRingInv ==
  ASSUME RingInv, PollBegin \/ PollTake \/ PollEnd \/ ServiceRestart \/ UNCHANGED vars, TypeOK', TailIsMine'
  PROVE  Written' /\ Walk'
<1>1. /\ RingHead \in Slots /\ RingTail \in Slots /\ polling \in PollState
      /\ polling.head \in Slots /\ polling.tail \in Slots
  BY DEF RingInv, TypeOK, PollState
<1>0. /\ Distance(RingHead, RingTail) \in 0 .. Size - 1
      /\ Distance(RingHead, polling.head) \in 0 .. Size - 1
      /\ Distance(RingHead, polling.tail) \in 0 .. Size - 1
  BY <1>1, DistanceIsSteps DEF Slots
<1>2. CASE PollBegin
  <2>1. Distance(RingHead, RingHead) = 0 /\ Distance(RingHead, RingTail) \in Nat
    BY <1>1, DistanceIsSteps, DistanceSucc DEF Slots
  <2> QED
    BY <1>2, <2>1 DEF PollBegin, RingInv, Written, Walk
<1>3. CASE PollTake
  <2>1. /\ polling.pc = "walk" /\ polling.head # polling.tail
        /\ polling' = [polling EXCEPT !.head = Succ(polling.head)]
        /\ UNCHANGED <<RingHead, RingTail, Entries, pushing>>
    BY <1>3 DEF PollTake
  <2>2. Distance(RingHead, polling.head) < Distance(RingHead, polling.tail)
    <3>1. Distance(RingHead, polling.head) # Distance(RingHead, polling.tail)
      BY <1>1, <2>1, DistanceIsSteps
    <3> QED
      BY <1>0, <2>1, <3>1, SizeAssumption DEF RingInv, Walk
  <2>3. Distance(RingHead, Succ(polling.head)) = Distance(RingHead, polling.head) + 1
    <3>1. Distance(RingHead, polling.head) # Size - 1
      BY <1>0, <2>2, SizeAssumption
    <3> QED
      BY <1>1, <3>1, DistanceSucc
  <2>4. /\ polling'.pc = "walk" /\ polling'.head = Succ(polling.head) /\ polling'.tail = polling.tail
        /\ Distance(RingHead, polling.tail) <= Distance(RingHead, RingTail)
    BY <1>1, <2>1 DEF PollState, RingInv, Walk
  <2>5. Distance(RingHead, polling.head) + 1 <= Distance(RingHead, polling.tail)
    BY <1>0, <2>2, SizeAssumption
  <2> QED
    BY <2>1, <2>3, <2>4, <2>5 DEF RingInv, Written, Walk
<1>4. CASE PollEnd
  <2>1. /\ polling.pc = "walk" /\ RingHead' = polling.head /\ polling'.pc = "idle"
        /\ UNCHANGED <<RingTail, Entries, pushing>>
    BY <1>4 DEF PollEnd, IdlePoll
  <2>2. Distance(RingHead, polling.head) <= Distance(RingHead, RingTail)
    BY <1>0, <2>1, SizeAssumption DEF RingInv, Walk
  <2>3. Succ(RingTail) # RingHead => Succ(RingTail) # polling.head
    <3>1. Distance(polling.head, RingTail) = Distance(RingHead, RingTail) - Distance(RingHead, polling.head)
      BY <1>1, <2>2, DistanceSplit
    <3>3. Succ(RingTail) # RingHead => Distance(polling.head, RingTail) # Size - 1
      BY <1>0, <1>1, <3>1, SizeAssumption, DistanceSucc
    <3> QED
      BY <1>1, <3>3, DistanceSucc
  <2> QED
    BY <2>1, <2>3 DEF RingInv, Written, Walk
<1>5. CASE ServiceRestart
  BY <1>5 DEF ServiceRestart, IdlePoll, RingInv, Written, Walk
<1>6. CASE UNCHANGED vars
  BY <1>6 DEF vars, RingInv, Written, Walk
<1> QED
  BY <1>2, <1>3, <1>4, <1>5, <1>6

LEMMA RingInvCorrect == ASSUME SingleProducer PROVE Spec => []RingInv
<1>1. Init => RingInv
  BY TypeInit DEF Init, RingInv, TailIsMine, Written, Walk, IdlePush, IdlePoll
<1>2. RingInv /\ [Next]_vars => RingInv'
  <2> SUFFICES ASSUME RingInv, [Next]_vars PROVE RingInv'
    OBVIOUS
  <2>1. TypeOK' /\ TailIsMine'
    BY TypeStep, TailStep DEF RingInv
  <2> QED
    BY <2>1, PushKeepsRingInv, PollKeepsRingInv DEF Next, RingInv
<1> QED
  BY <1>1, <1>2, PTL DEF Spec

(* Every memory access of either side is a step of the abstract queue or   *)
(* none.                                                                   *)
LEMMA AcceptedWindow == Accepted = Window(RingHead, RingTail, Entries)
  BY DEF Accepted, Window

LEMMA PushRefines ==
  ASSUME SingleProducer, RingInv, TypeOK', NEW p \in Producers, Push(p)
  PROVE  [Abstract!Next]_(Abstract!vars)
<1>1. /\ RingHead \in Slots /\ RingTail \in Slots /\ Entries \in [Slots -> Entry]
      /\ pushing[p] \in PushState /\ pushing \in [Producers -> PushState]
  BY DEF RingInv, TypeOK
<1>2. UNCHANGED <<RingHead, polling, delivered>>
  BY DEF Push, PushReadTail, PushFull, PushWriteQueueId, PushWriteIndex, PushPublish
<1>3. Taken' = Taken
  BY <1>2 DEF Taken
<1>4. CASE Entries' = Entries /\ RingTail' = RingTail
  <2>1. Accepted' = Accepted
    BY <1>2, <1>4 DEF Accepted
  <2> QED
    BY <1>2, <1>3, <2>1 DEF Abstract!vars
<1>5. ASSUME NEW e, Entries' = [Entries EXCEPT ![RingTail] = e], RingTail' = RingTail
      PROVE  [Abstract!Next]_(Abstract!vars)
  <2>1. ASSUME NEW k \in 1 .. Distance(RingHead, RingTail)
        PROVE  Entries'[(RingHead + k - 1) % Size] = Entries[(RingHead + k - 1) % Size]
    <3>1. Distance(RingHead, RingTail) \in Slots
      BY <1>1, DistanceIsSteps
    <3>2. k - 1 \in Slots /\ k - 1 # Distance(RingHead, RingTail) /\ RingHead + k - 1 = RingHead + (k - 1)
      BY <1>1, <3>1, SizeAssumption DEF Slots
    <3>3. (RingHead + k - 1) % Size \in Slots /\ (RingHead + k - 1) % Size # RingTail
      BY <1>1, <3>2, DistanceIsSteps
    <3> QED
      BY <1>1, <1>5, <3>3
  <2>2. Accepted' = Accepted
    BY <1>2, <1>5, <2>1 DEF Accepted
  <2> QED
    BY <1>2, <1>3, <2>2 DEF Abstract!vars
<1>6. CASE PushPublish(p)
  <2>1. /\ RingTail' = Succ(RingTail) /\ Entries' = Entries
        /\ Entries[RingTail] = pushing[p].entry /\ Succ(RingTail) # RingHead
    BY <1>6 DEF PushPublish, RingInv, TailIsMine, Written
  <2>2. Distance(RingHead, Succ(RingTail)) = Distance(RingHead, RingTail) + 1
    BY <1>1, <2>1, DistanceSucc
  <2>3. PICK d : d = Distance(RingHead, RingTail)
    OBVIOUS
  <2>4. d \in Nat /\ d < Size - 1 /\ (RingHead + d) % Size = RingTail
    BY SMTT(30), <1>1, <2>1, <2>3, DistanceIsSteps, DistanceSucc, SizeAssumption DEF Slots
  <2>5. /\ Accepted \in Seq(Entry) /\ Len(Accepted) = d
        /\ \A k \in 1 .. d : Accepted[k] = Entries[(RingHead + (k - 1)) % Size]
    BY <1>1, <2>3, WindowIsSeq, AcceptedWindow
  <2>6. Succ(RingTail) \in Slots /\ Accepted' = Window(RingHead, Succ(RingTail), Entries)
    BY <1>1, <1>2, <2>1, SuccWraps DEF Accepted, Window
  <2>7. /\ Accepted' \in Seq(Entry) /\ Len(Accepted') = d + 1
        /\ \A k \in 1 .. d + 1 : Accepted'[k] = Entries[(RingHead + (k - 1)) % Size]
    BY SMTT(30), <1>1, <2>2, <2>3, <2>6, WindowIsSeq
  <2>8. pushing[p].entry \in Entry
    BY <1>1 DEF PushState
  <2>9. Accepted' = Append(Accepted, pushing[p].entry)
    <3>1. /\ Append(Accepted, pushing[p].entry) \in Seq(Entry)
          /\ Len(Append(Accepted, pushing[p].entry)) = d + 1
          /\ \A k \in 1 .. d : Append(Accepted, pushing[p].entry)[k] = Accepted[k]
          /\ Append(Accepted, pushing[p].entry)[d + 1] = pushing[p].entry
      BY <2>5, <2>8, AppendProperties
    <3>2. Accepted'[d + 1] = pushing[p].entry
      <4>1. d + 1 \in 1 .. d + 1 /\ (d + 1) - 1 = d
        BY <2>4
      <4> QED
        BY <2>1, <2>4, <2>7, <4>1
    <3>3. ASSUME NEW k \in 1 .. d + 1 PROVE Accepted'[k] = Append(Accepted, pushing[p].entry)[k]
      <4>1. CASE k = d + 1
        BY <3>1, <3>2, <4>1
      <4>2. CASE k # d + 1
        <5>1. k \in 1 .. d
          BY <2>4, <4>2
        <5> QED
          BY <2>5, <2>7, <3>1, <5>1
      <4> QED
        BY <4>1, <4>2
    <3> QED
      BY <2>7, <3>1, <3>3, SeqEqual
  <2>10. Abstract!Accept(pushing[p].entry)
    BY <1>2, <1>3, <2>4, <2>5, <2>9 DEF Abstract!Accept
  <2> QED
    BY <2>8, <2>10 DEF Abstract!Next
<1>7. CASE PushWriteQueueId(p) \/ PushWriteIndex(p)
  <2>1. pushing[p].tail = RingTail /\ RingTail' = RingTail
    BY <1>7 DEF PushWriteQueueId, PushWriteIndex, RingInv, TailIsMine
  <2>2. \E e : Entries' = [Entries EXCEPT ![RingTail] = e]
    BY <1>7, <2>1 DEF PushWriteQueueId, PushWriteIndex
  <2> QED
    BY <1>5, <2>1, <2>2
<1>8. CASE (\E e \in Entry : PushReadTail(p, e)) \/ PushFull(p)
  BY <1>4, <1>8 DEF PushReadTail, PushFull
<1> QED
  BY <1>6, <1>7, <1>8 DEF Push, Entry

LEMMA PollRefines ==
  ASSUME RingInv, RingInv', PollBegin \/ PollTake \/ PollEnd \/ ServiceRestart \/ UNCHANGED vars
  PROVE  [Abstract!Next]_(Abstract!vars)
<1>1. /\ RingHead \in Slots /\ RingTail \in Slots /\ Entries \in [Slots -> Entry]
      /\ polling \in PollState /\ polling.head \in Slots /\ polling.tail \in Slots
  BY DEF RingInv, TypeOK, PollState
<1>2. PICK d, t : d = Distance(RingHead, RingTail) /\ t = Distance(RingHead, polling.head)
  OBVIOUS
<1>3. /\ d \in 0 .. Size - 1 /\ t \in 0 .. Size - 1
      /\ (RingHead + t) % Size = polling.head
  BY <1>1, <1>2, DistanceIsSteps DEF Slots
<1>4. polling.pc = "walk" => Distance(RingHead, polling.tail) \in 0 .. d /\ t \in 0 .. Distance(RingHead, polling.tail)
  <2>1. Distance(RingHead, polling.tail) \in 0 .. Size - 1
    BY <1>1, DistanceIsSteps DEF Slots
  <2> QED
    BY <1>2, <1>3, <2>1, SizeAssumption DEF RingInv, Walk
<1>5. /\ Accepted \in Seq(Entry) /\ Len(Accepted) = d
      /\ \A k \in 1 .. d : Accepted[k] = Entries[(RingHead + (k - 1)) % Size]
  BY <1>1, <1>2, WindowIsSeq, AcceptedWindow
<1>6. CASE PollBegin
  <2>1. Accepted' = Accepted
    BY <1>6 DEF PollBegin, Accepted
  <2>2. Taken' = 0 /\ Taken = 0
    BY <1>1, <1>6, DistanceSucc DEF PollBegin, Taken
  <2> QED
    BY <1>6, <2>1, <2>2 DEF PollBegin, Abstract!vars
<1>7. CASE PollTake
  <2>1. /\ polling.pc = "walk" /\ polling.head # polling.tail /\ delivered' = Entries[polling.head]
        /\ polling'.pc = "walk" /\ polling'.head = Succ(polling.head)
        /\ UNCHANGED <<RingHead, RingTail, Entries>>
    BY <1>1, <1>7 DEF PollTake, PollState
  <2>2. t < d
    <3>1. t # Distance(RingHead, polling.tail)
      BY <1>1, <1>2, <2>1, DistanceIsSteps
    <3> QED
      BY <1>3, <1>4, <2>1, <3>1
  <2>3. Distance(RingHead, Succ(polling.head)) = t + 1
    <3>1. t # Size - 1
      BY <1>3, <2>2, SizeAssumption
    <3> QED
      BY <1>1, <1>2, <3>1, DistanceSucc
  <2>4. Taken = t /\ Taken' = t + 1 /\ Accepted' = Accepted
    BY <1>2, <2>1, <2>3 DEF Taken, Accepted
  <2>5. Accepted[t + 1] = Entries[polling.head]
    <3>1. t + 1 \in 1 .. d /\ (t + 1) - 1 = t
      BY <1>3, <2>2
    <3> QED
      BY <1>3, <1>5, <3>1
  <2>6. Abstract!Deliver
    BY <1>5, <2>1, <2>2, <2>4, <2>5 DEF Abstract!Deliver
  <2> QED
    BY <2>6 DEF Abstract!Next
<1>8. CASE PollEnd
  <2>1. /\ polling.pc = "walk" /\ RingHead' = polling.head /\ polling'.pc = "idle"
        /\ UNCHANGED <<RingTail, Entries, delivered>>
    BY <1>8 DEF PollEnd, IdlePoll
  <2>2. Taken = t /\ Taken' = 0
    BY <1>2, <2>1 DEF Taken
  <2>3. t <= d
    BY <1>3, <1>4, <2>1
  <2>4. Distance(polling.head, RingTail) = d - t
    BY <1>1, <1>2, <2>3, DistanceSplit
  <2>5. Accepted' = Window(polling.head, RingTail, Entries)
    BY <2>1 DEF Accepted, Window
  <2>6. /\ Accepted' \in Seq(Entry) /\ Len(Accepted') = d - t
        /\ \A k \in 1 .. d - t : Accepted'[k] = Entries[(polling.head + (k - 1)) % Size]
    <3>1. PICK h : h = polling.head
      OBVIOUS
    <3>2. /\ Window(h, RingTail, Entries) \in Seq(Entry)
          /\ Len(Window(h, RingTail, Entries)) = Distance(h, RingTail)
          /\ \A k \in 1 .. Distance(h, RingTail) :
               Window(h, RingTail, Entries)[k] = Entries[(h + (k - 1)) % Size]
      BY <1>1, <3>1, WindowIsSeq
    <3> QED
      BY <2>4, <2>5, <3>1, <3>2
  <2>7. Accepted' = SubSeq(Accepted, t + 1, d)
    <3>1. \A k \in t + 1 .. d : Accepted[k] \in Entry
      <4>1. \A k \in t + 1 .. d : k \in 1 .. Len(Accepted)
        BY <1>3, <1>5
      <4> QED
        BY <1>5, <4>1, ElementOfSeq
    <3>2. /\ SubSeq(Accepted, t + 1, d) \in Seq(Entry)
          /\ Len(SubSeq(Accepted, t + 1, d)) = IF t + 1 <= d THEN d - (t + 1) + 1 ELSE 0
          /\ \A k \in 1 .. d - (t + 1) + 1 : SubSeq(Accepted, t + 1, d)[k] = Accepted[t + 1 + k - 1]
      BY <1>3, <3>1, SubSeqProperties
    <3>3. Len(SubSeq(Accepted, t + 1, d)) = d - t /\ d - (t + 1) + 1 = d - t
      BY <1>3, <2>3, <3>2
    <3>4. ASSUME NEW k \in 1 .. d - t PROVE Accepted'[k] = SubSeq(Accepted, t + 1, d)[k]
      <4>1. t + 1 + k - 1 = t + k /\ t + k \in 1 .. d /\ (t + k) - 1 = t + (k - 1)
        BY <1>3, <2>3
      <4>2. SubSeq(Accepted, t + 1, d)[k] = Entries[(RingHead + (t + (k - 1))) % Size]
        BY <1>5, <3>2, <3>3, <4>1
      <4>3. (RingHead + (t + (k - 1))) % Size = (polling.head + (k - 1)) % Size
        <5>1. PICK j : j = k - 1
          OBVIOUS
        <5>2. j \in 0 .. Size - 1 /\ t + j \in 0 .. Size - 1 /\ RingHead \in 0 .. Size - 1
              /\ polling.head \in 0 .. Size - 1
          BY <1>1, <1>3, <2>3, <5>1, SizeAssumption DEF Slots
        <5>3. polling.head = IF RingHead + t < Size THEN RingHead + t ELSE RingHead + t - Size
          <6>1. RingHead + t \in 0 .. 2 * Size - 1
            BY <1>3, <5>2, SizeAssumption
          <6>2. PICK x : x = RingHead + t
            OBVIOUS
          <6>3. x % Size = IF x < Size THEN x ELSE x - Size
            BY <6>1, <6>2, Lap
          <6> QED
            BY <1>3, <5>2, <6>1, <6>2, <6>3, SizeAssumption
        <5>4. /\ RingHead + (t + j) \in 0 .. 2 * Size - 1 /\ polling.head + j \in 0 .. 2 * Size - 1
          BY <1>3, <5>2, SizeAssumption
        <5>5. /\ (RingHead + (t + j)) % Size = IF RingHead + (t + j) < Size THEN RingHead + (t + j)
                                               ELSE RingHead + (t + j) - Size
              /\ (polling.head + j) % Size = IF polling.head + j < Size THEN polling.head + j
                                             ELSE polling.head + j - Size
          <6>1. PICK x, y : x = RingHead + (t + j) /\ y = polling.head + j
            OBVIOUS
          <6>2. /\ x % Size = IF x < Size THEN x ELSE x - Size
                /\ y % Size = IF y < Size THEN y ELSE y - Size
            BY <5>4, <6>1, Lap
          <6> QED
            BY <1>3, <5>2, <5>4, <6>1, <6>2, SizeAssumption
        <5>6. (RingHead + (t + j)) % Size = (polling.head + j) % Size
          BY <1>3, <5>2, <5>3, <5>5, SizeAssumption
        <5> QED
          BY <5>1, <5>6
      <4> QED
        BY <2>6, <4>2, <4>3
    <3> QED
      BY <2>6, <3>2, <3>3, <3>4, SeqEqual
  <2>8. Abstract!Release
    BY <1>5, <2>1, <2>2, <2>7 DEF Abstract!Release
  <2> QED
    BY <2>8 DEF Abstract!Next
<1>9. CASE ServiceRestart
  <2>1. Accepted' = Accepted /\ Taken' = 0
    BY <1>9 DEF ServiceRestart, IdlePoll, Accepted, Taken
  <2>2. Abstract!Forget
    BY <1>9, <2>1 DEF ServiceRestart, Abstract!Forget
  <2> QED
    BY <2>2 DEF Abstract!Next
<1>10. CASE UNCHANGED vars
  BY <1>10 DEF vars, Accepted, Taken, Abstract!vars
<1> QED
  BY <1>6, <1>7, <1>8, <1>9, <1>10

(* With one controller the ring of NotifyRingPush and CmdEnginePoll is a   *)
(* bounded FIFO: nothing is lost, invented or reordered, and what a poll   *)
(* had taken when the service died is delivered again, for every ring      *)
(* size, every interleaving of the single memory accesses and any number   *)
(* of crashes.                                                             *)
THEOREM SingleProducerImplementsNotifyQueue == ASSUME SingleProducer PROVE Spec => IsNotifyQueue
<1>1. Init => Abstract!Init
  <2> SUFFICES ASSUME Init PROVE Abstract!Init
    OBVIOUS
  <2>1. RingHead = 0 /\ RingTail = 0 /\ polling.pc = "idle" /\ delivered = ZeroEntry
    BY DEF Init, IdlePoll
  <2>2. RingHead \in Slots /\ RingTail \in Slots /\ Entries \in [Slots -> Entry]
    BY TypeInit DEF TypeOK
  <2>3. Distance(RingHead, RingTail) = 0
    BY <2>1, <2>2, DistanceSucc
  <2>4. Accepted \in Seq(Entry) /\ Len(Accepted) = 0
    BY <2>2, <2>3, WindowIsSeq, AcceptedWindow
  <2>5. Accepted = << >>
    BY <2>4, EmptySeq
  <2> QED
    BY <2>1, <2>5 DEF Abstract!Init, Taken
<1>2. RingInv /\ RingInv' /\ [Next]_vars => [Abstract!Next]_(Abstract!vars)
  <2> SUFFICES ASSUME RingInv, RingInv', [Next]_vars PROVE [Abstract!Next]_(Abstract!vars)
    OBVIOUS
  <2>1. TypeOK'
    BY DEF RingInv
  <2> QED
    BY <2>1, PushRefines, PollRefines DEF Next
<1> QED
  BY <1>1, <1>2, RingInvCorrect, PTL DEF Spec, IsNotifyQueue, Abstract!Spec
=============================================================================
