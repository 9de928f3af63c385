----------------------------- MODULE NotifyQueue -----------------------------
(***************************************************************************)
(* What the notification ring promises its two ends.                       *)
(*                                                                         *)
(* The driver hands doorbell notifications to the ring; the command engine *)
(* of the user-mode service takes them in the order in which they were     *)
(* accepted.  A taken notification still occupies its slot until the       *)
(* engine releases, in one go, everything it has taken in a poll.  A       *)
(* notification is refused only when Capacity unreleased ones are in the   *)
(* ring.  When the service dies in the middle of a poll, what it had taken *)
(* and not released is delivered again: at least once, in order, no gaps.  *)
(***************************************************************************)
EXTENDS Naturals, Sequences

CONSTANTS
  Notification,   \* what a doorbell change is reported as
  Capacity,       \* how many unreleased notifications the ring can hold
  NoNotification  \* nothing has been delivered yet

VARIABLES
  queue,      \* accepted and not yet released, oldest first
  taken,      \* how many of them the engine has been given in this poll
  delivered   \* the notification the engine was given last

vars == <<queue, taken, delivered>>

Init ==
  /\ queue = << >>
  /\ taken = 0
  /\ delivered = NoNotification

(* The driver's push is accepted. *)
Accept(n) ==
  /\ Len(queue) < Capacity
  /\ queue' = Append(queue, n)
  /\ UNCHANGED <<taken, delivered>>

(* The engine is given the oldest notification it has not seen in this poll. *)
Deliver ==
  /\ taken < Len(queue)
  /\ taken' = taken + 1
  /\ delivered' = queue[taken + 1]
  /\ UNCHANGED queue

(* The engine ends its poll and frees the slots of what it has taken. *)
Release ==
  /\ queue' = SubSeq(queue, taken + 1, Len(queue))
  /\ taken' = 0
  /\ UNCHANGED delivered

(* The service dies: its progress through the ring is forgotten. *)
Forget ==
  /\ taken' = 0
  /\ UNCHANGED <<queue, delivered>>

Next ==
  \/ \E n \in Notification : Accept(n)
  \/ Deliver
  \/ Release
  \/ Forget

Spec == Init /\ [][Next]_vars
=============================================================================
