--------------------------- MODULE MCProxyForward ---------------------------
(* Instances of ProxyForward small enough for TLC. *)
EXTENDS ProxyForward, TLC

CONSTANTS s1, s2, a, v1, v2

MCSymmetry == Permutations(Slots)

=============================================================================
