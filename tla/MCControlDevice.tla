--------------------------- MODULE MCControlDevice ---------------------------
(* ControlDevice with two clients, for TLC. *)
EXTENDS ControlDevice
=============================================================================
