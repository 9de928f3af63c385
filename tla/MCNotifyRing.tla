---------------------------- MODULE MCNotifyRing ----------------------------
(* The notification ring on small instances. *)
EXTENDS NotifyRing

CONSTANTS c1, c2   \* two virtual controllers

OneController  == {c1}
TwoControllers == {c1, c2}
=============================================================================
