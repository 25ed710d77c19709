---------------------------- MODULE MCRetryBudget ----------------------------
(* Instances of RetryBudget small enough for TLC. *)
EXTENDS RetryBudget, TLC

CONSTANTS s1, s2, a, v1, v2

MCSymmetry == Permutations(Slots) \cup Permutations(VirtualKeys)

=============================================================================
