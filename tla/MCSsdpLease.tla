----------------------------- MODULE MCSsdpLease -----------------------------
(* SsdpLease with the interval of main.go, in ticks of 50 milliseconds.    *)
EXTENDS SsdpLease
=============================================================================
