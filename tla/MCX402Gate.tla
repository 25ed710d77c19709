----------------------------- MODULE MCX402Gate -----------------------------
(* Instances of X402Gate small enough for TLC. *)
EXTENDS X402Gate, TLC

CONSTANTS k1, k2, h1, h2, i1, i2, t1, s1, s2

\* Every request is gated and its provider registered.
MCAllGated == VKs \X Hashes

MCNoneUnregistered == {}

\* The provider configured for k2 is not in the registry.
MCKey2Unregistered == {k2} \X Hashes

MCSymmetry == Permutations(Slots)

=============================================================================
