------------------------------ MODULE MCEventing -----------------------------
(* Eventing with three goroutines; the timeouts are one that fits in a     *)
(* Duration, one that does not, and one that is not positive.              *)
EXTENDS Eventing, TLC

CONSTANTS s1, s2, s3

MCThreads  == {s1, s2, s3}
MCTimeouts == {-1, 2, 3}
Symmetry   == Permutations(MCThreads)
=============================================================================
