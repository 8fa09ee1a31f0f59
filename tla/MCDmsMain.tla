------------------------------ MODULE MCDmsMain ------------------------------
(* DmsMain on a small set of interfaces.                                   *)
EXTENDS DmsMain
=============================================================================
