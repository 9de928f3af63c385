------------------------------ MODULE QueueTable ------------------------------
(***************************************************************************)
(* What an NVMe controller promises about its I/O queues: a submission     *)
(* queue exists only while the completion queue it posts to exists.  A     *)
(* command that cannot be carried out changes nothing.                     *)
(***************************************************************************)
CONSTANTS
  Qids,   \* the identifiers of I/O queues
  NoCq    \* stands for: this submission queue does not exist

VARIABLES
  cqs,    \* the completion queues that exist
  cqOf    \* per submission queue: its completion queue, or NoCq

vars == <<cqs, cqOf>>

Init ==
  /\ cqs = {}
  /\ cqOf = [q \in Qids |-> NoCq]

CreateCq(q) ==
  /\ q \notin cqs
  /\ cqs' = cqs \cup {q}
  /\ UNCHANGED cqOf

CreateSq(q, c) ==
  /\ cqOf[q] = NoCq
  /\ c \in cqs
  /\ cqOf' = [cqOf EXCEPT ![q] = c]
  /\ UNCHANGED cqs

DeleteSq(q) ==
  /\ cqOf[q] # NoCq
  /\ cqOf' = [cqOf EXCEPT ![q] = NoCq]
  /\ UNCHANGED cqs

DeleteCq(q) ==
  /\ q \in cqs
  /\ \A s \in Qids : cqOf[s] # q
  /\ cqs' = cqs \ {q}
  /\ UNCHANGED cqOf

Next ==
  \E q \in Qids :
     \/ CreateCq(q)
     \/ \E c \in Qids : CreateSq(q, c)
     \/ DeleteSq(q)
     \/ DeleteCq(q)

Spec == Init /\ [][Next]_vars
=============================================================================
