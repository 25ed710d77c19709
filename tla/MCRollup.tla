------------------------------ MODULE MCRollup ------------------------------
(* Instances of Rollup and AdminReports small enough for TLC. *)
EXTENDS AdminReports, TLC

CONSTANTS k1, k2, p1, p2, r1, r2, rate_limit_exceeded, x402_verify_failed

\* Runs over the second of two days; rows of the first are in no range.
MCRanges == {<<2, 3>>}

MCSymmetry == Permutations(Jobs) \cup Permutations(Providers) \cup Permutations(Keys)

=============================================================================
