--------------------------- MODULE MCPolicyCache ---------------------------
(* Instances of PolicyCache small enough for TLC. *)
EXTENDS PolicyCache, TLC

CONSTANTS s1, s2

MCSymmetry == Permutations(Slots)

=============================================================================
