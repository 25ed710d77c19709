------------------------------ MODULE Allowlist ------------------------------
(***************************************************************************)
(* The endpoint allowlist of a policy, which is applied twice: by the      *)
(* middleware of crates/relaykey_app/src/policies/allowlist.rs and again   *)
(* by the handler in proxy.rs, with a matcher of its own.                  *)
(*                                                                         *)
(* Both look at the path behind /proxy/{partner}: the middleware at the    *)
(* path as it was requested, the handler at what axum's Path makes of it,  *)
(* which is percent-decoded.  An escape of a character is one token here,  *)
(* and decoded to one.  A path that is not UTF-8 when it is decoded never  *)
(* reaches the handler and is left out.                                    *)
(***************************************************************************)
EXTENDS Paths

CONSTANTS
    Tokens,        \* the slash, the star, other characters, and escapes of characters
    Decode         \* what percent-decoding makes of each

ASSUME DecodeAssumption ==
    /\ {"/", "*"} \subseteq Tokens /\ Decode \in [Tokens -> Tokens]
    /\ \A token \in {"/", "*"} : Decode[token] = token

Glob == <<"/", "*">>

-----------------------------------------------------------------------------
(* The middleware. *)

\* Mutation: the prefix may end within a name.
MatchesInName(pat, path) ==
    IF EndsWith(pat, Glob) THEN StartsWith(path, DropLast(pat, 2)) ELSE path = pat

Matches(pat, path) ==
    IF EndsWith(pat, Glob)
    THEN LET prefix == DropLast(pat, 2)
         IN  path = prefix \/ StartsWith(path, Append(prefix, "/"))
    ELSE path = pat

\* A list without patterns allows nothing.
MiddlewareAllows(list, path) == \E pat \in list : Matches(pat, path)

-----------------------------------------------------------------------------
(* The handler. *)

\* The piece of pat that ends before n, which is a star or the end: it begins behind the
\* star before that, or at the beginning.
Piece(pat, n) ==
    LET start == CHOOSE m \in 1..n : /\ m = 1 \/ pat[m - 1] = "*"
                                     /\ \A i \in m..(n - 1) : pat[i] # "*"
    IN  SubSeq(pat, start, n - 1)

\* Where piece is first found in path from position i on, and what follows it;
\* 0 if it is not found.
Behind(path, piece, i) ==
    LET found == {j \in i..(Len(path) - Len(piece) + 1) :
                    SubSeq(path, j, j + Len(piece) - 1) = piece}
    IN  IF found = {} THEN 0
        ELSE (CHOOSE j \in found : \A other \in found : j <= other) + Len(piece)

\* The pieces between the stars are found one behind the other, the empty ones left out.
InOrder(pat, path) ==
    LET next[n \in 0..(Len(pat) + 1)] ==
          IF n = 0 THEN 1
          ELSE IF \/ n <= Len(pat) /\ pat[n] # "*"
                  \/ next[n - 1] = 0
                  \/ Piece(pat, n) = <<>>
          THEN next[n - 1]
          ELSE Behind(path, Piece(pat, n), next[n - 1])
    IN  next[Len(pat) + 1] # 0

HasStar(pat) == \E n \in DOMAIN pat : pat[n] = "*"

MatchOne(pat, path) ==
    IF ~HasStar(pat) THEN pat = path
    ELSE IF EndsWith(pat, Glob)
    THEN LET prefix == DropLast(pat, 2)
         IN  /\ StartsWith(path, prefix)
             /\ Len(path) > Len(prefix) => path[Len(prefix) + 1] = "/"
    ELSE InOrder(pat, path)

\* A list without patterns allows everything.
PathAllowed(list, path) == list = {} \/ \E pat \in list : MatchOne(pat, path)

\* Path((partner, tail)): the request's path with its escapes decoded.
Decoded(path) == [i \in DOMAIN path |-> Decode[path[i]]]

\* What the handler compares is the path it forwards.
HandlerAllows(list, path) == PathAllowed(list, Decoded(path))

-----------------------------------------------------------------------------

\* With a pattern for what is requested, there is one for what that is decoded to.
ListedDecoded(list) == \A pat \in list : Decoded(pat) \in list

=============================================================================
