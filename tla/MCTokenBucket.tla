---------------------------- MODULE MCTokenBucket ----------------------------
(* Instances of TokenBucket small enough for TLC. *)
EXTENDS TokenBucket, TLC

CONSTANTS s1, s2, s3

MCSymmetry == Permutations(Slots)

=============================================================================
