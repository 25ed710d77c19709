-------------------------- MODULE AllowlistProofs --------------------------
(***************************************************************************)
(* Proofs about the two matchers of the allowlist: what the middleware     *)
(* lets through for a pattern, the handler lets through for the decoded    *)
(* one, and on plain patterns and paths without escapes they agree, for    *)
(* any patterns and any paths.                                             *)
(***************************************************************************)
EXTENDS Allowlist, Integers, TLAPS, SequenceTheorems, WellFoundedInduction

-----------------------------------------------------------------------------
(* Induction and recursion along a pattern. *)

LEMMA LeastOf ==
    ASSUME NEW S \in SUBSET Nat, S # {}
    PROVE  \E x \in S : \A y \in S : x <= y
<1>1. PICK x \in S : \A y \in S : <<y, x>> \notin OpToRel(<, Nat)
  BY NatLessThanWellFounded, WFMin
<1>2. \A y \in S : ~(y < x)
  BY <1>1 DEF OpToRel
<1> QED BY <1>2

LEMMA InductionOn ==
    ASSUME NEW S \in SUBSET Nat, 0 \in S, \A n \in S : n + 1 \in S
    PROVE  Nat \subseteq S
<1> SUFFICES ASSUME Nat \ S # {} PROVE FALSE
  OBVIOUS
<1>1. PICK x \in Nat \ S : \A y \in Nat \ S : x <= y
  BY LeastOf
<1>2. x # 0 /\ x - 1 \in S
  BY <1>1
<1> QED BY <1>1, <1>2

\* A function can be defined step by step.
LEMMA RecursionOn ==
    ASSUME NEW M \in Nat, NEW first \in Nat, NEW step \in [1..M -> [Nat -> Nat]]
    PROVE  \E F \in [0..M -> Nat] :
             F[0] = first /\ \A n \in 1..M : F[n] = step[n][F[n - 1]]
<1> DEFINE Built(F, m) == F[0] = first /\ \A n \in 1..m : F[n] = step[n][F[n - 1]]
           Can(m) == \E F \in [0..m -> Nat] : Built(F, m)
           S == {m \in Nat : m <= M => Can(m)}
<1>1. Can(0)
  <2>1. [n \in 0..0 |-> first] \in [0..0 -> Nat] /\ Built([n \in 0..0 |-> first], 0)
    OBVIOUS
  <2> QED BY <2>1
<1>2. ASSUME NEW m \in Nat, m + 1 <= M, Can(m) PROVE Can(m + 1)
  <2>1. PICK F \in [0..m -> Nat] : Built(F, m)
    BY <1>2
  <2> DEFINE G == [n \in 0..(m + 1) |-> IF n = m + 1 THEN step[m + 1][F[m]] ELSE F[n]]
  <2>2. m + 1 \in 1..M /\ F[m] \in Nat
    BY <1>2
  <2>3. step[m + 1][F[m]] \in Nat
    BY <2>2
  <2>4. G \in [0..(m + 1) -> Nat]
    <3> DEFINE last == step[m + 1][F[m]]
    <3>1. last \in Nat
      BY <2>3
    <3> HIDE DEF last
    <3>2. \A n \in 0..(m + 1) : n # m + 1 => F[n] \in Nat
      OBVIOUS
    <3>3. [n \in 0..(m + 1) |-> IF n = m + 1 THEN last ELSE F[n]] \in [0..(m + 1) -> Nat]
      BY <3>1, <3>2
    <3> QED BY <3>3 DEF last
  <2>5. G[0] = F[0] /\ \A n \in 1..m : G[n] = F[n] /\ G[n - 1] = F[n - 1]
    OBVIOUS
  <2>6. G[m + 1] = step[m + 1][G[m]]
    OBVIOUS
  <2> HIDE DEF G
  <2>7. \A n \in 1..(m + 1) : n = m + 1 \/ n \in 1..m
    OBVIOUS
  <2>8. Built(G, m + 1)
    <3>1. \A n \in 1..m : G[n] = step[n][G[n - 1]]
      BY <2>1, <2>5
    <3>2. (m + 1) - 1 = m
      OBVIOUS
    <3>3. \A n \in 1..(m + 1) : G[n] = step[n][G[n - 1]]
      BY <2>6, <2>7, <3>1, <3>2
    <3> QED BY <2>1, <2>5, <3>3
  <2> HIDE DEF Built
  <2> QED BY <2>4, <2>8
<1>3. Can(M)
  <2> HIDE DEF Can
  <2>1. S \in SUBSET Nat /\ 0 \in S
    BY <1>1
  <2>2. \A m \in S : m + 1 \in S
    BY <1>2
  <2>3. Nat \subseteq S
    <3> HIDE DEF S
    <3> QED BY <2>1, <2>2, InductionOn
  <2> QED BY <2>3
<1> QED BY <1>3

-----------------------------------------------------------------------------
(* Pieces of a pattern. *)

\* A piece begins behind a star or at the beginning, and holds none.
LEMMA PieceIs ==
    ASSUME NEW pat, Len(pat) \in Nat, NEW n \in 1..(Len(pat) + 1)
    PROVE  \E start \in 1..n : /\ Piece(pat, n) = SubSeq(pat, start, n - 1)
                               /\ start = 1 \/ pat[start - 1] = "*"
                               /\ \A i \in start..(n - 1) : pat[i] # "*"
<1> DEFINE Starts(m) == /\ m = 1 \/ pat[m - 1] = "*"
                        /\ \A i \in m..(n - 1) : pat[i] # "*"
           S == {m \in Nat : m \in 1..n /\ \A i \in m..(n - 1) : pat[i] # "*"}
<1>1. n \in S
  OBVIOUS
<1>2. PICK m \in S : \A other \in S : m <= other
  <2>1. S \in SUBSET Nat
    OBVIOUS
  <2> HIDE DEF S
  <2> QED BY <1>1, <2>1, LeastOf
<1>3. m \in 1..n /\ \A i \in m..(n - 1) : pat[i] # "*"
  OBVIOUS
<1>4. m = 1 \/ pat[m - 1] = "*"
  <2> SUFFICES ASSUME m # 1, pat[m - 1] # "*" PROVE FALSE
    OBVIOUS
  <2>1. m - 1 \in 1..n
    BY <1>3
  <2>2. \A i \in (m - 1)..(n - 1) : i = m - 1 \/ i \in m..(n - 1)
    BY <1>3
  <2>3. m - 1 \in S
    BY <1>3, <2>1, <2>2
  <2>4. m <= m - 1
    <3> HIDE DEF S
    <3> QED BY <1>2, <2>3
  <2> QED BY <1>3, <2>4
<1>5. \E start \in 1..n : Starts(start)
  BY <1>3, <1>4
<1>6. (CHOOSE start \in 1..n : Starts(start)) \in 1..n /\ Starts(CHOOSE start \in 1..n : Starts(start))
  BY <1>5
<1> QED BY <1>6 DEF Piece

\* What is found is found no later than where the piece is, and there is no end to the
\* numbers behind it.
LEMMA BehindIs ==
    ASSUME NEW path, Len(path) \in Nat, NEW piece, Len(piece) \in Nat, NEW i \in Nat
    PROVE  /\ Behind(path, piece, i) \in Nat
           /\ \A j \in i..(Len(path) - Len(piece) + 1) :
                SubSeq(path, j, j + Len(piece) - 1) = piece =>
                  /\ Behind(path, piece, i) <= j + Len(piece)
                  /\ Behind(path, piece, i) >= i + Len(piece)
<1> DEFINE found == {j \in i..(Len(path) - Len(piece) + 1) :
                       SubSeq(path, j, j + Len(piece) - 1) = piece}
           first == CHOOSE j \in found : \A other \in found : j <= other
           Here(j) == SubSeq(path, j, j + Len(piece) - 1) = piece
<1>1. Behind(path, piece, i) = IF found = {} THEN 0 ELSE first + Len(piece)
  BY DEF Behind
<1>2. found \in SUBSET Nat /\ \A j \in found : j >= i
  OBVIOUS
<1>3. found # {} => first \in found /\ \A other \in found : first <= other
  <2> HIDE DEF found
  <2> QED BY <1>2, LeastOf
<1>4. \A j \in i..(Len(path) - Len(piece) + 1) : Here(j) => j \in found
  OBVIOUS
<1> SUFFICES /\ Behind(path, piece, i) \in Nat
             /\ \A j \in i..(Len(path) - Len(piece) + 1) : Here(j) =>
                  /\ Behind(path, piece, i) <= j + Len(piece)
                  /\ Behind(path, piece, i) >= i + Len(piece)
  OBVIOUS
<1> HIDE DEF found, first, Here
<1>5. CASE found = {}
  <2>1. Behind(path, piece, i) = 0
    BY <1>1, <1>5
  <2>2. \A j : j \notin found
    BY <1>5
  <2> QED BY <1>4, <2>1, <2>2
<1>6. CASE found # {}
  <2>1. first \in Nat /\ first >= i /\ \A other \in found : first <= other
    BY <1>2, <1>3, <1>6
  <2>2. Behind(path, piece, i) = first + Len(piece)
    BY <1>1, <1>6
  <2>3. ASSUME NEW j \in found
        PROVE  /\ Behind(path, piece, i) <= j + Len(piece)
               /\ Behind(path, piece, i) >= i + Len(piece)
    <3>1. j \in Nat /\ first <= j
      BY <1>2, <2>1
    <3> QED BY <2>1, <2>2, <3>1
  <2>4. Behind(path, piece, i) \in Nat
    BY <2>1, <2>2
  <2> HIDE DEF first
  <2> QED BY <1>4, <2>3, <2>4
<1> QED BY <1>5, <1>6

-----------------------------------------------------------------------------
(* The handler's search. *)

LEMMA PieceLength ==
    ASSUME NEW T, NEW pat \in Seq(T), NEW n \in 1..(Len(pat) + 1)
    PROVE  \E start \in 1..n : /\ Piece(pat, n) = SubSeq(pat, start, n - 1)
                               /\ Len(Piece(pat, n)) = n - start
                               /\ start = 1 \/ pat[start - 1] = "*"
                               /\ \A i \in start..(n - 1) : pat[i] # "*"
<1>0. Len(pat) \in Nat
  OBVIOUS
<1>1. PICK start \in 1..n : /\ Piece(pat, n) = SubSeq(pat, start, n - 1)
                            /\ start = 1 \/ pat[start - 1] = "*"
                            /\ \A i \in start..(n - 1) : pat[i] # "*"
  BY <1>0, PieceIs
<1>2. Len(SubSeq(pat, start, n - 1)) = n - start
  <2>1. \A i \in start..(n - 1) : pat[i] \in T
    BY <1>0
  <2> QED BY <1>0, <2>1, SubSeqProperties
<1> QED BY <1>1, <1>2

\* One piece after the other: where the search of path for the pieces of pat has come to
\* after the first n tokens of pat.
Search(next, pat, path) ==
    /\ next \in [0..(Len(pat) + 1) -> Nat]
    /\ next[0] = 1
    /\ \A n \in 1..(Len(pat) + 1) :
         next[n] = IF \/ n <= Len(pat) /\ pat[n] # "*"
                      \/ next[n - 1] = 0
                      \/ Piece(pat, n) = <<>>
                   THEN next[n - 1]
                   ELSE Behind(path, Piece(pat, n), next[n - 1])

\* The search that InOrder makes.
LEMMA InOrderIs ==
    ASSUME NEW T, NEW pat \in Seq(T), NEW path \in Seq(T)
    PROVE  \E next : Search(next, pat, path) /\ (InOrder(pat, path) <=> next[Len(pat) + 1] # 0)
<1> DEFINE M == Len(pat) + 1
           step == [n \in 1..M |-> [x \in Nat |->
                      IF \/ n <= Len(pat) /\ pat[n] # "*"
                         \/ x = 0
                         \/ Piece(pat, n) = <<>>
                      THEN x ELSE Behind(path, Piece(pat, n), x)]]
           body(F, n) == IF n = 0 THEN 1
                         ELSE IF \/ n <= Len(pat) /\ pat[n] # "*"
                                 \/ F[n - 1] = 0
                                 \/ Piece(pat, n) = <<>>
                         THEN F[n - 1]
                         ELSE Behind(path, Piece(pat, n), F[n - 1])
           next == CHOOSE F : F = [n \in 0..M |-> body(F, n)]
<1>1. InOrder(pat, path) <=> next[M] # 0
  BY DEF InOrder
<1>2. step \in [1..M -> [Nat -> Nat]]
  <2>1. \A n \in 1..M, x \in Nat : Behind(path, Piece(pat, n), x) \in Nat
    <3> TAKE n \in 1..M, x \in Nat
    <3>1. PICK start \in 1..n : Len(Piece(pat, n)) = n - start
      BY PieceLength
    <3>2. Len(Piece(pat, n)) \in Nat /\ Len(path) \in Nat
      BY <3>1
    <3> DEFINE piece == Piece(pat, n)
    <3> HIDE DEF piece
    <3>3. Behind(path, piece, x) \in Nat
      BY <3>2, BehindIs DEF piece
    <3> QED BY <3>3 DEF piece
  <2> QED BY <2>1
<1>3. PICK F \in [0..M -> Nat] : F[0] = 1 /\ \A n \in 1..M : F[n] = step[n][F[n - 1]]
  <2>1. M \in Nat /\ 1 \in Nat
    OBVIOUS
  <2> HIDE DEF M, step
  <2> QED BY <1>2, <2>1, RecursionOn
<1>4. \A n \in 0..M : F[n] = body(F, n)
  <2> SUFFICES ASSUME NEW n \in 0..M PROVE F[n] = body(F, n)
    OBVIOUS
  <2>1. CASE n = 0
    BY <1>3, <2>1
  <2>2. CASE n \in 1..M
    <3>1. n - 1 \in 0..M /\ M \in Nat
      BY <2>2
    <3>2. F[n] = step[n][F[n - 1]] /\ F[n - 1] \in Nat
      <4> HIDE DEF M, step
      <4> QED BY <1>3, <2>2, <3>1
    <3> QED BY <2>2, <3>2
  <2> QED BY <2>1, <2>2
<1>5. F = [n \in 0..M |-> body(F, n)]
  BY <1>4
<1>6. next = [n \in 0..M |-> body(next, n)]
  <2> HIDE DEF body
  <2> QED BY <1>5
<1>7. next \in [0..M -> Nat]
  <2> DEFINE S == {n \in Nat : n \in 0..M => next[n] = F[n]}
  <2>1. \A n \in 0..M : next[n] = body(next, n)
    <3> HIDE DEF body, next
    <3> QED BY <1>6
  <2>2. 0 \in S
    <3>1. next[0] = 1
      <4> HIDE DEF next
      <4> QED BY <2>1
    <3> HIDE DEF next
    <3> QED BY <1>3, <3>1
  <2>3. ASSUME NEW n \in S PROVE n + 1 \in S
    <3> SUFFICES ASSUME n + 1 \in 0..M PROVE next[n + 1] = F[n + 1]
      OBVIOUS
    <3>1. n \in Nat /\ n \in 0..M /\ next[n] = F[n]
      OBVIOUS
    <3> HIDE DEF next
    <3>2. body(next, n + 1) = body(F, n + 1)
      BY <3>1
    <3> QED BY <1>4, <2>1, <3>2
  <2>4. \A n \in 0..M : n \in S
    <3>1. S \in SUBSET Nat
      OBVIOUS
    <3> HIDE DEF S
    <3>2. Nat \subseteq S
      BY <2>2, <2>3, <3>1, InductionOn
    <3> QED BY <3>2
  <2>5. \A n \in 0..M : next[n] \in Nat
    <3> HIDE DEF next
    <3> QED BY <2>4
  <2> HIDE DEF next, body
  <2> QED BY <1>6, <2>5
<1>8. Search(next, pat, path)
  <2> HIDE DEF next
  <2>1. \A n \in 0..M : next[n] = body(next, n)
    <3> HIDE DEF body
    <3> QED BY <1>6
  <2>2. next[0] = 1
    BY <2>1
  <2>3. \A n \in 1..M : n \in 0..M /\ n # 0
    OBVIOUS
  <2> QED BY <1>7, <2>1, <2>2, <2>3 DEF Search
<1> HIDE DEF next
<1> QED BY <1>1, <1>8

\* A pattern with stars lets itself through: piece after piece, the search comes no
\* further than the pattern itself.
LEMMA PatternFindsItself == ASSUME NEW T, NEW pat \in Seq(T) PROVE InOrder(pat, pat)
<1> DEFINE M == Len(pat) + 1
<1>0. Len(pat) \in Nat
  OBVIOUS
<1>1. PICK next : Search(next, pat, pat) /\ (InOrder(pat, pat) <=> next[M] # 0)
  BY InOrderIs
<1> DEFINE Starts(m, n) == /\ m \in 1..(n + 1) /\ (m = 1 \/ pat[m - 1] = "*")
                           /\ \A i \in m..n : pat[i] # "*"
           Before(n) == next[n] # 0 /\ \A m \in 1..(n + 1) : Starts(m, n) => next[n] <= m
<1>2. /\ \A n \in 0..M : next[n] \in Nat
      /\ next[0] = 1
  BY <1>1 DEF Search
<1>3. \A n \in 1..M :
        next[n] = IF \/ n <= Len(pat) /\ pat[n] # "*"
                     \/ next[n - 1] = 0
                     \/ Piece(pat, n) = <<>>
                  THEN next[n - 1]
                  ELSE Behind(pat, Piece(pat, n), next[n - 1])
  BY <1>1 DEF Search
<1>4. ASSUME NEW n \in 1..M, Before(n - 1), ~(n <= Len(pat) /\ pat[n] # "*")
      PROVE  next[n] \in 1..n
  <2>1. PICK start \in 1..n : /\ Piece(pat, n) = SubSeq(pat, start, n - 1)
                              /\ Len(Piece(pat, n)) = n - start
                              /\ start = 1 \/ pat[start - 1] = "*"
                              /\ \A i \in start..(n - 1) : pat[i] # "*"
    BY PieceLength
  <2>2. next[n - 1] \in Nat /\ next[n - 1] # 0
    BY <1>2, <1>4
  <2>3. next[n - 1] <= start
    <3>1. start \in 1..((n - 1) + 1)
      OBVIOUS
    <3>2. Starts(start, n - 1)
      BY <2>1, <3>1
    <3> HIDE DEF Starts
    <3> QED BY <1>4, <3>1, <3>2
  <2>4. CASE Piece(pat, n) = <<>>
    <3>1. next[n] = next[n - 1]
      BY <1>3, <2>4
    <3> QED BY <2>2, <2>3, <3>1
  <2>5. CASE Piece(pat, n) # <<>>
    <3> DEFINE piece == Piece(pat, n)
    <3>1. next[n] = Behind(pat, piece, next[n - 1])
      BY <1>3, <1>4, <2>2, <2>5
    <3>2. Len(piece) \in Nat /\ start + Len(piece) = n /\ piece = SubSeq(pat, start, n - 1)
      BY <2>1
    <3> HIDE DEF piece
    <3>3. start \in next[n - 1]..(Len(pat) - Len(piece) + 1)
      BY <2>2, <2>3, <3>2
    <3>4. SubSeq(pat, start, start + Len(piece) - 1) = piece
      <4>1. start + Len(piece) - 1 = n - 1
        BY <3>2
      <4> QED BY <3>2, <4>1
    <3>5. /\ Behind(pat, piece, next[n - 1]) \in Nat
          /\ Behind(pat, piece, next[n - 1]) <= start + Len(piece)
          /\ Behind(pat, piece, next[n - 1]) >= next[n - 1] + Len(piece)
      BY <1>0, <2>2, <3>2, <3>3, <3>4, BehindIs
    <3> QED BY <2>2, <3>1, <3>2, <3>5
  <2> QED BY <2>4, <2>5
<1> DEFINE S == {n \in Nat : n <= Len(pat) => Before(n)}
<1>5. 0 \in S
  <2>1. Before(0)
    BY <1>2
  <2> HIDE DEF Before
  <2> QED BY <2>1
<1>6. ASSUME NEW n \in S PROVE n + 1 \in S
  <2> SUFFICES ASSUME n + 1 <= Len(pat) PROVE Before(n + 1)
    OBVIOUS
  <2>1. n \in Nat /\ n + 1 \in 1..M /\ Before(n) /\ (n + 1) - 1 = n
    OBVIOUS
  <2>2. CASE pat[n + 1] # "*"
    <3>1. next[n + 1] = next[n]
      BY <1>3, <2>1, <2>2
    <3>2. ASSUME NEW m \in 1..(n + 2), Starts(m, n + 1) PROVE m \in 1..(n + 1) /\ Starts(m, n)
      BY <2>1, <2>2, <3>2
    <3> HIDE DEF Starts
    <3> QED BY <2>1, <3>1, <3>2
  <2>3. CASE pat[n + 1] = "*"
    <3>1. next[n + 1] \in 1..(n + 1)
      <4> HIDE DEF Before
      <4> QED BY <1>4, <2>1, <2>3
    <3>2. ASSUME NEW m \in 1..(n + 2), Starts(m, n + 1) PROVE m = n + 2
      BY <2>1, <2>3, <3>2
    <3> HIDE DEF Starts
    <3> QED BY <2>1, <3>1, <3>2
  <2> QED BY <2>2, <2>3
<1>7. Before(Len(pat))
  <2>1. S \in SUBSET Nat
    OBVIOUS
  <2>2. Nat \subseteq S
    <3> HIDE DEF S
    <3> QED BY <1>5, <1>6, <2>1, InductionOn
  <2> HIDE DEF Before
  <2> QED BY <1>0, <2>2
<1>8. next[M] \in 1..M
  <2>1. M \in 1..M /\ M - 1 = Len(pat) /\ ~(M <= Len(pat))
    BY <1>0
  <2> HIDE DEF Before, M
  <2> QED BY <1>4, <1>7, <2>1
<1> QED BY <1>1, <1>8

-----------------------------------------------------------------------------
(* The two matchers. *)

\* What is known of a pattern that ends in a slash and a star.
LEMMA GlobIs ==
    ASSUME NEW T, NEW pat \in Seq(T), EndsWith(pat, Glob)
    PROVE  /\ HasStar(pat)
           /\ DropLast(pat, 2) \in Seq(T)
<1>1. /\ Len(Glob) = 2 /\ Len(pat) \in Nat /\ Len(pat) >= 2
      /\ SubSeq(pat, Len(pat) - 1, Len(pat)) = Glob
  BY DEF EndsWith, Glob
<1>2. HasStar(pat)
  <2>1. SubSeq(pat, Len(pat) - 1, Len(pat))[2] = pat[Len(pat)]
    BY <1>1
  <2>2. Glob[2] = "*"
    BY DEF Glob
  <2> QED BY <1>1, <2>1, <2>2 DEF HasStar
<1>3. SubSeq(pat, 1, Len(pat) - 2) \in Seq(T)
  BY <1>1, SubSeqProperties
<1> QED BY <1>2, <1>3 DEF DropLast

\* A path begins with a prefix and a slash, or is the prefix: the one matcher's words and
\* the other's.
LEMMA PrefixAndSlash ==
    ASSUME NEW T, NEW prefix \in Seq(T), NEW path \in Seq(T)
    PROVE  (path = prefix \/ StartsWith(path, Append(prefix, "/"))) <=>
             (StartsWith(path, prefix)
                /\ (Len(path) > Len(prefix) => path[Len(prefix) + 1] = "/"))
<1>1. Len(path) \in Nat /\ Len(prefix) \in Nat
  OBVIOUS
<1>2. /\ Len(Append(prefix, "/")) = Len(prefix) + 1
      /\ \A i \in 1..Len(prefix) : Append(prefix, "/")[i] = prefix[i]
      /\ Append(prefix, "/")[Len(prefix) + 1] = "/"
  OBVIOUS
<1>3. CASE path = prefix
  <2>1. StartsWith(path, prefix)
    BY <1>3 DEF StartsWith
  <2> QED BY <1>1, <1>3, <2>1
<1>4. CASE StartsWith(path, Append(prefix, "/"))
  <2>1. /\ Len(prefix) + 1 <= Len(path)
        /\ SubSeq(path, 1, Len(prefix) + 1) = Append(prefix, "/")
    BY <1>2, <1>4 DEF StartsWith
  <2>2. path[Len(prefix) + 1] = "/"
    BY <1>1, <2>1
  <2>3. SubSeq(path, 1, Len(prefix)) = prefix
    <3>1. \A i \in 1..(Len(prefix) + 1) : SubSeq(path, 1, Len(prefix) + 1)[i] = path[i]
      BY <1>1, <2>1
    <3>2. \A i \in 1..Len(prefix) : i \in 1..(Len(prefix) + 1)
      BY <1>1
    <3>3. \A i \in 1..Len(prefix) : path[i] = prefix[i]
      BY <1>2, <2>1, <3>1, <3>2
    <3> QED BY <1>1, <2>1, <3>3
  <2> QED BY <1>1, <1>4, <2>1, <2>2, <2>3 DEF StartsWith
<1>5. CASE StartsWith(path, prefix) /\ (Len(path) > Len(prefix) => path[Len(prefix) + 1] = "/")
  <2>1. Len(prefix) <= Len(path) /\ SubSeq(path, 1, Len(prefix)) = prefix
    BY <1>5 DEF StartsWith
  <2>2. CASE Len(path) = Len(prefix)
    <3>1. SubSeq(path, 1, Len(path)) = path
      OBVIOUS
    <3> QED BY <1>5, <2>1, <2>2, <3>1
  <2>3. CASE Len(path) > Len(prefix)
    <3>1. \A i \in 1..Len(prefix) : path[i] = prefix[i]
      BY <1>1, <2>1
    <3>2. path[Len(prefix) + 1] = "/"
      BY <1>5, <2>3
    <3>3. SubSeq(path, 1, Len(prefix) + 1) = Append(prefix, "/")
      BY <1>1, <2>3, <3>1, <3>2
    <3>4. StartsWith(path, Append(prefix, "/"))
      BY <1>1, <1>2, <2>3, <3>3 DEF StartsWith
    <3> QED BY <1>5, <3>4
  <2> QED BY <1>1, <2>1, <2>2, <2>3
<1> QED BY <1>3, <1>4, <1>5

\* On a pattern without stars, and on one that ends in a slash and a star, the matchers
\* (allowlist.rs 8-16, proxy.rs 57-71) agree.
LEMMA PlainMatchersAgree ==
    ASSUME NEW T, NEW pat \in Seq(T), NEW path \in Seq(T),
           HasStar(pat) => EndsWith(pat, Glob)
    PROVE  MatchOne(pat, path) <=> Matches(pat, path)
<1>1. CASE ~HasStar(pat)
  <2>1. ~EndsWith(pat, Glob)
    BY <1>1, GlobIs
  <2> QED BY <1>1, <2>1 DEF MatchOne, Matches
<1>2. CASE EndsWith(pat, Glob)
  <2>1. HasStar(pat) /\ DropLast(pat, 2) \in Seq(T)
    BY <1>2, GlobIs
  <2> DEFINE prefix == DropLast(pat, 2)
  <2>2. MatchOne(pat, path) <=>
          /\ StartsWith(path, prefix)
          /\ Len(path) > Len(prefix) => path[Len(prefix) + 1] = "/"
    BY <1>2, <2>1 DEF MatchOne
  <2>3. Matches(pat, path) <=> (path = prefix \/ StartsWith(path, Append(prefix, "/")))
    BY <1>2 DEF Matches
  <2> HIDE DEF prefix
  <2>4. prefix \in Seq(T)
    BY <2>1 DEF prefix
  <2> QED BY <2>2, <2>3, <2>4, PrefixAndSlash
<1> QED BY <1>1, <1>2

\* Whatever the pattern, a path that the middleware lets through is let through by the
\* handler: with a star within, the middleware wants the pattern itself, letter by letter,
\* and that is found in itself piece by piece (proxy.rs 73-88).
LEMMA MatchersAgree ==
    ASSUME NEW T, NEW pat \in Seq(T), NEW path \in Seq(T), Matches(pat, path)
    PROVE  MatchOne(pat, path)
<1>1. CASE HasStar(pat) => EndsWith(pat, Glob)
  BY <1>1, PlainMatchersAgree
<1>2. CASE HasStar(pat) /\ ~EndsWith(pat, Glob)
  <2>1. path = pat
    BY <1>2 DEF Matches
  <2> QED BY <1>2, <2>1, PatternFindsItself DEF MatchOne
<1> QED BY <1>1, <1>2

-----------------------------------------------------------------------------
(* The paths that they see. *)

LEMMA DecodedIs ==
    ASSUME NEW s \in Seq(Tokens)
    PROVE  /\ Decoded(s) \in Seq(Tokens) /\ Len(Decoded(s)) = Len(s)
           /\ \A i \in 1..Len(s) : Decoded(s)[i] = Decode[s[i]]
<1>1. Len(s) \in Nat /\ DOMAIN s = 1..Len(s) /\ \A i \in 1..Len(s) : s[i] \in Tokens
  OBVIOUS
<1>2. \A i \in 1..Len(s) : Decode[s[i]] \in Tokens
  BY <1>1, DecodeAssumption
<1>3. Decoded(s) = [i \in 1..Len(s) |-> Decode[s[i]]]
  BY <1>1 DEF Decoded
<1> QED BY <1>1, <1>2, <1>3

\* A beginning of a path is decoded to a beginning.
LEMMA DecodedStart ==
    ASSUME NEW path \in Seq(Tokens), NEW n \in 0..Len(path)
    PROVE  SubSeq(Decoded(path), 1, n) = Decoded(SubSeq(path, 1, n))
<1>1. /\ Len(path) \in Nat /\ SubSeq(path, 1, n) \in Seq(Tokens)
      /\ Len(SubSeq(path, 1, n)) = n /\ \A i \in 1..n : SubSeq(path, 1, n)[i] = path[i]
  OBVIOUS
<1>2. /\ Decoded(path) \in Seq(Tokens) /\ Len(Decoded(path)) = Len(path)
      /\ \A i \in 1..Len(path) : Decoded(path)[i] = Decode[path[i]]
  BY DecodedIs
<1> DEFINE start == SubSeq(path, 1, n)
<1>3. /\ Decoded(start) \in Seq(Tokens) /\ Len(Decoded(start)) = n
      /\ \A i \in 1..n : Decoded(start)[i] = Decode[path[i]]
  <2>1. /\ start \in Seq(Tokens) /\ Len(start) = n
        /\ \A i \in 1..n : start[i] = path[i]
    BY <1>1
  <2> HIDE DEF start
  <2>2. /\ Decoded(start) \in Seq(Tokens) /\ Len(Decoded(start)) = Len(start)
        /\ \A i \in 1..Len(start) : Decoded(start)[i] = Decode[start[i]]
    BY <2>1, DecodedIs
  <2> QED BY <2>1, <2>2
<1> DEFINE other == Decoded(path)
<1> HIDE DEF start, other
<1>4. SubSeq(other, 1, n) = Decoded(start)
  <2>1. /\ Len(SubSeq(other, 1, n)) = n
        /\ \A i \in 1..n : SubSeq(other, 1, n)[i] = other[i]
    BY <1>1, <1>2 DEF other
  <2>2. \A i \in 1..n : other[i] = Decode[path[i]]
    BY <1>1, <1>2 DEF other
  <2>3. SubSeq(other, 1, n) \in Seq(Tokens)
    BY <1>1, <1>2 DEF other
  <2> QED BY <1>3, <2>1, <2>2, <2>3
<1> QED BY <1>4 DEF start, other

\* A pattern that ends in a slash and a star is decoded to one.
LEMMA DecodedGlob ==
    ASSUME NEW pat \in Seq(Tokens), EndsWith(pat, Glob)
    PROVE  EndsWith(Decoded(pat), Glob) /\ DropLast(Decoded(pat), 2) = Decoded(DropLast(pat, 2))
<1>1. /\ Len(Glob) = 2 /\ Glob[1] = "/" /\ Glob[2] = "*" /\ Glob \in Seq(Tokens)
      /\ Len(pat) \in Nat /\ Len(pat) >= 2
      /\ SubSeq(pat, Len(pat) - 1, Len(pat)) = Glob
  BY DecodeAssumption DEF EndsWith, Glob
<1>2. pat[Len(pat) - 1] = "/" /\ pat[Len(pat)] = "*"
  <2>1. /\ SubSeq(pat, Len(pat) - 1, Len(pat))[1] = pat[Len(pat) - 1]
        /\ SubSeq(pat, Len(pat) - 1, Len(pat))[2] = pat[Len(pat)]
    BY <1>1
  <2> QED BY <1>1, <2>1
<1>3. /\ Decoded(pat) \in Seq(Tokens) /\ Len(Decoded(pat)) = Len(pat)
      /\ \A i \in 1..Len(pat) : Decoded(pat)[i] = Decode[pat[i]]
  BY DecodedIs
<1>4. Decoded(pat)[Len(pat) - 1] = "/" /\ Decoded(pat)[Len(pat)] = "*"
  BY <1>1, <1>2, <1>3, DecodeAssumption
<1> DEFINE other == Decoded(pat)
<1>5. SubSeq(other, Len(pat) - 1, Len(pat)) = Glob
  <2>1. other \in Seq(Tokens) /\ Len(other) = Len(pat)
    BY <1>3
  <2> HIDE DEF other
  <2>2. /\ Len(SubSeq(other, Len(pat) - 1, Len(pat))) = 2
        /\ SubSeq(other, Len(pat) - 1, Len(pat))[1] = other[Len(pat) - 1]
        /\ SubSeq(other, Len(pat) - 1, Len(pat))[2] = other[Len(pat)]
        /\ SubSeq(other, Len(pat) - 1, Len(pat)) \in Seq(Tokens)
    BY <1>1, <2>1
  <2> QED BY <1>1, <1>4, <2>2 DEF other
<1>6. DropLast(Decoded(pat), 2) = Decoded(DropLast(pat, 2))
  <2>1. Len(pat) - 2 \in 0..Len(pat)
    BY <1>1
  <2> QED BY <1>3, <2>1, DecodedStart DEF DropLast
<1> QED BY <1>1, <1>3, <1>5, <1>6 DEF EndsWith

\* The handler's matcher lets every pattern through by itself.
LEMMA PatternAllowsItself == ASSUME NEW T, NEW pat \in Seq(T) PROVE MatchOne(pat, pat)
<1>1. CASE EndsWith(pat, Glob)
  <2>1. HasStar(pat) /\ DropLast(pat, 2) \in Seq(T)
    BY <1>1, GlobIs
  <2>2. /\ Len(Glob) = 2 /\ Glob[1] = "/" /\ Len(pat) \in Nat /\ Len(pat) >= 2
        /\ SubSeq(pat, Len(pat) - 1, Len(pat)) = Glob
    BY <1>1 DEF EndsWith, Glob
  <2>3. pat[Len(pat) - 1] = "/"
    <3>1. SubSeq(pat, Len(pat) - 1, Len(pat))[1] = pat[Len(pat) - 1]
      BY <2>2
    <3> QED BY <2>2, <3>1
  <2>4. Len(DropLast(pat, 2)) = Len(pat) - 2
    BY <2>2 DEF DropLast
  <2>5. StartsWith(pat, DropLast(pat, 2)) /\ pat[Len(DropLast(pat, 2)) + 1] = "/"
    BY <2>2, <2>3, <2>4 DEF StartsWith, DropLast
  <2> QED BY <1>1, <2>1, <2>5 DEF MatchOne
<1>2. CASE ~EndsWith(pat, Glob)
  BY <1>2, PatternFindsItself DEF MatchOne
<1> QED BY <1>1, <1>2

\* A path that the middleware lets through for a pattern, the handler lets through for the
\* decoded one.
LEMMA MatchesDecoded ==
    ASSUME NEW pat \in Seq(Tokens), NEW path \in Seq(Tokens), Matches(pat, path)
    PROVE  MatchOne(Decoded(pat), Decoded(path))
<1>1. Decoded(pat) \in Seq(Tokens) /\ Decoded(path) \in Seq(Tokens)
  BY DecodedIs
<1>2. CASE path = pat
  BY <1>1, <1>2, PatternAllowsItself
<1>3. CASE EndsWith(pat, Glob)
  <2> DEFINE prefix == DropLast(pat, 2)
  <2>1. prefix \in Seq(Tokens)
    BY <1>3, GlobIs
  <2>2. EndsWith(Decoded(pat), Glob) /\ DropLast(Decoded(pat), 2) = Decoded(prefix)
    BY <1>3, DecodedGlob
  <2>3. path = prefix \/ StartsWith(path, Append(prefix, "/"))
    BY <1>3 DEF Matches
  <2> HIDE DEF prefix
  <2>4. CASE path = prefix
    BY <1>1, <2>2, <2>4, MatchersAgree DEF Matches
  <2>5. CASE StartsWith(path, Append(prefix, "/"))
    <3>1. /\ "/" \in Tokens /\ Decode["/"] = "/"
          /\ Append(prefix, "/") \in Seq(Tokens)
          /\ Len(Append(prefix, "/")) = Len(prefix) + 1
          /\ Append(prefix, "/")[Len(prefix) + 1] = "/"
          /\ \A i \in 1..Len(prefix) : Append(prefix, "/")[i] = prefix[i]
          /\ Len(prefix) \in Nat /\ Len(path) \in Nat
      BY <2>1, DecodeAssumption
    <3>2. /\ Len(prefix) + 1 \in 0..Len(path)
          /\ SubSeq(path, 1, Len(prefix) + 1) = Append(prefix, "/")
      BY <2>5, <3>1 DEF StartsWith
    <3>3. SubSeq(Decoded(path), 1, Len(prefix) + 1) = Decoded(Append(prefix, "/"))
      BY <3>2, DecodedStart
    <3>4. Decoded(Append(prefix, "/")) = Append(Decoded(prefix), "/")
      <4>1. /\ Decoded(prefix) \in Seq(Tokens) /\ Len(Decoded(prefix)) = Len(prefix)
            /\ \A i \in 1..Len(prefix) : Decoded(prefix)[i] = Decode[prefix[i]]
        BY <2>1, DecodedIs
      <4> DEFINE longer == Append(prefix, "/")
      <4>2. longer \in Seq(Tokens) /\ Len(longer) = Len(prefix) + 1
        BY <3>1
      <4>3. /\ Decoded(longer) \in Seq(Tokens) /\ Len(Decoded(longer)) = Len(longer)
            /\ \A i \in 1..Len(longer) : Decoded(longer)[i] = Decode[longer[i]]
        <5> HIDE DEF longer
        <5> QED BY <4>2, DecodedIs
      <4>4. /\ \A i \in 1..Len(prefix) : Decoded(longer)[i] = Decoded(prefix)[i]
            /\ Decoded(longer)[Len(prefix) + 1] = "/"
        <5>1. /\ longer[Len(prefix) + 1] = "/"
              /\ \A i \in 1..Len(prefix) : longer[i] = prefix[i]
          BY <3>1
        <5> HIDE DEF longer
        <5>2. \A i \in 1..Len(longer) : Decoded(longer)[i] = Decode[longer[i]]
          BY <4>3
        <5>3. \A i \in 1..Len(prefix) : i \in 1..Len(longer) /\ Decoded(prefix)[i] = Decode[prefix[i]]
          BY <3>1, <4>1, <4>2
        <5>4. Len(prefix) + 1 \in 1..Len(longer)
          BY <3>1, <4>2
        <5>5. \A i \in 1..Len(prefix) : Decoded(longer)[i] = Decoded(prefix)[i]
          <6> TAKE i \in 1..Len(prefix)
          <6>1. Decoded(longer)[i] = Decode[longer[i]] /\ longer[i] = prefix[i]
            BY <5>1, <5>2, <5>3
          <6> QED BY <5>3, <6>1
        <5> QED BY <3>1, <5>1, <5>2, <5>4, <5>5
      <4> DEFINE one == Decoded(longer)
                 two == Decoded(prefix)
      <4>5. one = Append(two, "/")
        <5>1. /\ one \in Seq(Tokens) /\ two \in Seq(Tokens) /\ Len(one) = Len(two) + 1
              /\ one[Len(two) + 1] = "/" /\ \A i \in 1..Len(two) : one[i] = two[i]
          BY <4>1, <4>2, <4>3, <4>4
        <5> HIDE DEF one, two
        <5> QED BY <3>1, <5>1
      <4> QED BY <4>5
    <3>5. /\ Len(Decoded(path)) = Len(path)
          /\ Len(Append(Decoded(prefix), "/")) = Len(prefix) + 1
      <4>1. Len(Decoded(path)) = Len(path) /\ Decoded(prefix) \in Seq(Tokens)
            /\ Len(Decoded(prefix)) = Len(prefix)
        BY <2>1, DecodedIs
      <4> QED BY <4>1
    <3>6. StartsWith(Decoded(path), Append(Decoded(prefix), "/"))
      BY <3>1, <3>2, <3>3, <3>4, <3>5 DEF StartsWith
    <3>7. Matches(Decoded(pat), Decoded(path))
      BY <2>2, <3>6 DEF Matches
    <3> QED BY <1>1, <3>7, MatchersAgree
  <2> QED BY <2>3, <2>4, <2>5
<1>4. path = pat \/ EndsWith(pat, Glob)
  BY DEF Matches
<1> QED BY <1>2, <1>3, <1>4

\* So it is for a list with every pattern's decoded form: an empty one lets nothing
\* through the middleware.
LEMMA HandlerAgrees ==
    ASSUME NEW list \in SUBSET Seq(Tokens), NEW path \in Seq(Tokens),
           ListedDecoded(list), MiddlewareAllows(list, path)
    PROVE  HandlerAllows(list, path)
<1>1. PICK pat \in list : Matches(pat, path)
  BY DEF MiddlewareAllows
<1>2. Decoded(pat) \in list /\ pat \in Seq(Tokens)
  BY DEF ListedDecoded
<1>3. MatchOne(Decoded(pat), Decoded(path))
  BY <1>1, <1>2, MatchesDecoded
<1> QED BY <1>2, <1>3 DEF HandlerAllows, PathAllowed

LEMMA PlainListsAgree ==
    ASSUME NEW list \in SUBSET Seq(Tokens), NEW path \in Seq(Tokens), list # {},
           \A pat \in list : HasStar(pat) => EndsWith(pat, Glob), Decoded(path) = path
    PROVE  HandlerAllows(list, path) <=> MiddlewareAllows(list, path)
BY PlainMatchersAgree DEF MiddlewareAllows, HandlerAllows, PathAllowed

=============================================================================
