---------------------------- MODULE MCKernelQueues ----------------------------
(* The admin command handlers of the driver on small instances. *)
EXTENDS KernelQueues
=============================================================================
