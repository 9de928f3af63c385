----------------------------- MODULE MCAdminPath -----------------------------
(* The admin command path on small instances. *)
EXTENDS AdminPath
=============================================================================
