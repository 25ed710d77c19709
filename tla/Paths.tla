------------------------------- MODULE Paths -------------------------------
(***************************************************************************)
(* Request paths and the patterns they are compared with.  Both are        *)
(* sequences of tokens: a slash, a star, or a piece of a name.             *)
(***************************************************************************)
EXTENDS Naturals, Sequences

StartsWith(s, prefix) ==
    Len(prefix) <= Len(s) /\ SubSeq(s, 1, Len(prefix)) = prefix

EndsWith(s, suffix) ==
    Len(suffix) <= Len(s) /\ SubSeq(s, Len(s) - Len(suffix) + 1, Len(s)) = suffix

\* What is left of s without its last n tokens.
DropLast(s, n) == SubSeq(s, 1, Len(s) - n)

=============================================================================
