----------------------------- MODULE MCIoQueues -----------------------------
(* Two I/O queues of two or three entries. *)
EXTENDS IoQueues
=============================================================================
