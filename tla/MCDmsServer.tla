----------------------------- MODULE MCDmsServer -----------------------------
(* DmsServer on the sets of interfaces and closers of its configurations.  *)
EXTENDS DmsServer
=============================================================================
