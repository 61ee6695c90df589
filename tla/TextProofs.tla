------------------------------- MODULE TextProofs -------------------------------
(***************************************************************************)
(* How a recursive function is reasoned about: that it exists, and that    *)
(* what holds of it holds at every point, by induction with a set in the   *)
(* place of a predicate.  Then what the recursive definitions of Format    *)
(* and Paths compute, for every text: words and canonical paths, numerals  *)
(* in any base, and the output of printf for a format that spells one      *)
(* conversion.                                                             *)
(***************************************************************************)
EXTENDS Paths, SequenceTheorems, WellFoundedInduction, TLAPS

\* There is a least element in a nonempty set of numbers.
LEMMA LeastNumber ==
  ASSUME NEW S, S \subseteq Nat, S # {}
  PROVE  \E n \in S : \A m \in S : n <= m
<1> DEFINE less == {x \in Nat \X Nat : x[1] < x[2]}
<1>1. IsWellFoundedOn(less, Nat) BY NatLessThanWellFounded DEF OpToRel
<1>2. PICK n \in S : \A m \in S : <<m, n>> \notin less BY <1>1, WFMin
<1>3. \A m \in S : n \in Nat /\ m \in Nat /\ ~(m < n) BY <1>2
<1>4. \A m \in S : n <= m BY <1>3
<1> QED BY <1>4

\* What holds of a number if it holds of all smaller ones holds of all.  S is the set
\* of numbers it holds of.
LEMMA Smaller ==
  ASSUME NEW S, \A n \in Nat : (\A m \in Nat : m < n => m \in S) => n \in S
  PROVE  Nat \subseteq S
<1> SUFFICES ASSUME Nat \ S # {} PROVE FALSE OBVIOUS
<1>1. PICK n \in Nat \ S : \A m \in Nat \ S : n <= m BY LeastNumber
<1>2. \A m \in Nat : m < n => m \in S BY <1>1
<1> QED BY <1>1, <1>2

LEMMA Steps ==
  ASSUME NEW S, 0 \in S, \A n \in Nat : n \in S => n + 1 \in S
  PROVE  Nat \subseteq S
<1>1. ASSUME NEW n \in Nat, \A m \in Nat : m < n => m \in S PROVE n \in S
  <2>1. CASE n = 0 BY <2>1
  <2>2. CASE n # 0
    <3>1. n - 1 \in Nat /\ n - 1 < n /\ (n - 1) + 1 = n BY <2>2
    <3> QED BY <1>1, <3>1
  <2> QED BY <2>1, <2>2
<1> QED BY <1>1, Smaller


\* G says what a function from D to T is at a point, from what it is at points of
\* lesser measure.
IsRule(G, D, T, m) ==
  /\ m \in [D -> Nat]
  /\ G \in [D -> [[D -> T] -> T]]
  /\ \A f, g \in [D -> T], x \in D :
       (\A y \in D : m[y] < m[x] => f[y] = g[y]) => G[x][f] = G[x][g]

\* f is as G says at points of measure less than n ...
Follows(f, G, D, T, m, n) ==
  /\ f \in [D -> T]
  /\ \A x \in D : m[x] < n => f[x] = G[x][f]

\* ... or everywhere.
Solves(f, G, D, T) ==
  /\ f \in [D -> T]
  /\ \A x \in D : f[x] = G[x][f]

LEMMA FollowsOne ==
  ASSUME NEW D, NEW T, NEW m, NEW G, IsRule(G, D, T, m), NEW n \in Nat,
         NEW f, Follows(f, G, D, T, m, n), NEW g, Follows(g, G, D, T, m, n),
         NEW x \in D, m[x] < n
  PROVE  f[x] = g[x]
<1> DEFINE S == {k \in Nat : \A y \in D : m[y] = k /\ k < n => f[y] = g[y]}
<1>1. ASSUME NEW k \in Nat, \A j \in Nat : j < k => j \in S PROVE k \in S
  <2>1. SUFFICES ASSUME NEW y \in D, m[y] = k, k < n PROVE f[y] = g[y] OBVIOUS
  <2>2. \A z \in D : m[z] \in Nat BY DEF IsRule
  <2>3. \A z \in D : m[z] < m[y] => f[z] = g[z] BY <1>1, <2>1, <2>2
  <2>4. f \in [D -> T] /\ g \in [D -> T] BY DEF Follows
  <2>5. G[y][f] = G[y][g] BY <2>3, <2>4 DEF IsRule
  <2>6. f[y] = G[y][f] /\ g[y] = G[y][g] BY <2>1 DEF Follows
  <2> QED BY <2>5, <2>6
<1> HIDE DEF S
<1>2. Nat \subseteq S BY <1>1, Smaller
<1>3. m[x] \in Nat BY DEF IsRule
<1> QED BY <1>2, <1>3 DEF S

LEMMA FollowsSome ==
  ASSUME NEW D, NEW T, T # {}, NEW m, NEW G, IsRule(G, D, T, m), NEW n \in Nat
  PROVE  \E f : Follows(f, G, D, T, m, n)
<1> DEFINE S == {k \in Nat : \E f : Follows(f, G, D, T, m, k)}
<1>1. m \in [D -> Nat] /\ G \in [D -> [[D -> T] -> T]] BY DEF IsRule
<1>2. 0 \in S
  <2>1. PICK t : t \in T OBVIOUS
  <2>2. Follows([x \in D |-> t], G, D, T, m, 0) BY <1>1, <2>1 DEF Follows
  <2> QED BY <2>2
<1>3. ASSUME NEW k \in Nat, k \in S PROVE k + 1 \in S
  <2>1. PICK f : Follows(f, G, D, T, m, k) BY <1>3
  <2>2. f \in [D -> T] /\ \A x \in D : m[x] < k => f[x] = G[x][f] BY <2>1 DEF Follows
  <2> DEFINE g == [x \in D |-> G[x][f]]
  <2>3. g \in [D -> T] BY <1>1, <2>2
  <2>4. ASSUME NEW x \in D, m[x] < k + 1 PROVE g[x] = G[x][g]
    <3>1. \A y \in D : m[y] < m[x] => f[y] = g[y] BY <1>1, <2>2, <2>4
    <3>2. G[x][f] = G[x][g] BY <2>2, <2>3, <3>1 DEF IsRule
    <3> QED BY <3>2
  <2> HIDE DEF g
  <2>5. Follows(g, G, D, T, m, k + 1) BY <2>3, <2>4 DEF Follows
  <2> QED BY <2>5
<1> HIDE DEF S
<1>4. Nat \subseteq S BY <1>2, <1>3, Steps
<1> QED BY <1>4 DEF S

\* So there is a function that is as G says everywhere.
LEMMA Recursion ==
  ASSUME NEW D, NEW T, T # {}, NEW m, NEW G, IsRule(G, D, T, m)
  PROVE  \E f : Solves(f, G, D, T)
<1> DEFINE at == [x \in D |-> CHOOSE f : Follows(f, G, D, T, m, m[x] + 1)]
<1>1. m \in [D -> Nat] BY DEF IsRule
<1>2. ASSUME NEW x \in D PROVE Follows(at[x], G, D, T, m, m[x] + 1)
  <2>1. m[x] + 1 \in Nat BY <1>1
  <2> QED BY <2>1, FollowsSome
<1> HIDE DEF at
<1>3. \A x \in D : at[x] \in [D -> T] /\ \A y \in D : m[y] <= m[x] => at[x][y] = G[y][at[x]]
  BY <1>1, <1>2 DEF Follows
<1> DEFINE f == [x \in D |-> at[x][x]]
<1>4. f \in [D -> T] BY <1>3
<1>5. ASSUME NEW x \in D PROVE f[x] = G[x][f]
  <2>1. ASSUME NEW y \in D, m[y] < m[x] PROVE at[x][y] = f[y]
    <3>1. PICK n \in Nat : n = m[y] + 1 BY <1>1
    <3>2. m[y] < n /\ m[y] \in Nat /\ m[x] \in Nat BY <1>1, <3>1
    <3>3. Follows(at[x], G, D, T, m, n) BY <1>1, <1>3, <2>1, <3>1 DEF Follows
    <3>4. Follows(at[y], G, D, T, m, n) BY <1>2, <3>1
    <3>5. at[x][y] = at[y][y] BY <3>2, <3>3, <3>4, FollowsOne
    <3> QED BY <3>5
  <2>2. at[x] \in [D -> T] /\ at[x][x] = G[x][at[x]] BY <1>1, <1>3
  <2>3. G[x][at[x]] = G[x][f] BY <1>4, <2>1, <2>2 DEF IsRule
  <2> QED BY <2>2, <2>3
<1> HIDE DEF f
<1>6. Solves(f, G, D, T) BY <1>4, <1>5 DEF Solves
<1> QED BY <1>6

\* The same for steps from one number to the next.
IsStep(G, N, T) == N \in Nat /\ G \in [1 .. N -> [T -> T]]

Walks(f, G, N, T, t) ==
  f \in [0 .. N -> T] /\ f[0] = t /\ \A k \in 1 .. N : f[k] = G[k][f[k - 1]]

LEMMA Stepwise ==
  ASSUME NEW N, NEW T, NEW t \in T, NEW G, IsStep(G, N, T)
  PROVE  \E f : Walks(f, G, N, T, t)
<1> DEFINE D == 0 .. N
           m == [k \in D |-> k]
           H == [k \in D |-> [f \in [D -> T] |-> IF k = 0 THEN t ELSE G[k][f[k - 1]]]]
<1>1. m \in [D -> Nat] OBVIOUS
<1>2. ASSUME NEW k \in D, NEW f \in [D -> T]
      PROVE  H[k][f] = (IF k = 0 THEN t ELSE G[k][f[k - 1]]) /\ H[k][f] \in T
  <2>1. k # 0 => k \in 1 .. N /\ k - 1 \in D BY DEF IsStep
  <2>2. H[k][f] = (IF k = 0 THEN t ELSE G[k][f[k - 1]]) OBVIOUS
  <2> HIDE DEF H, D
  <2>3. k # 0 => f[k - 1] \in T BY <2>1
  <2> QED BY <2>1, <2>2, <2>3 DEF IsStep
<1>3. H \in [D -> [[D -> T] -> T]] BY <1>2
<1>4. IsRule(H, D, T, m)
  <2>1. ASSUME NEW f \in [D -> T], NEW g \in [D -> T], NEW x \in D,
               \A y \in D : m[y] < m[x] => f[y] = g[y]
        PROVE  H[x][f] = H[x][g]
    <3>1. x # 0 => x - 1 \in D /\ m[x - 1] < m[x] BY DEF IsStep
    <3>2. x # 0 => f[x - 1] = g[x - 1] BY <2>1, <3>1
    <3> HIDE DEF D, H
    <3> QED BY <1>2, <3>2
  <2> HIDE DEF D, H, m
  <2> QED BY <1>1, <1>3, <2>1 DEF IsRule
<1>5. ASSUME NEW f, Solves(f, H, D, T) PROVE Walks(f, G, N, T, t)
  <2>1. f \in [D -> T] /\ \A x \in D : f[x] = H[x][f] BY <1>5 DEF Solves
  <2>2. 0 \in D /\ \A k \in 1 .. N : k \in D /\ k # 0 BY DEF IsStep
  <2>3. f[0] = t BY <1>2, <2>1, <2>2
  <2>4. \A k \in 1 .. N : f[k] = G[k][f[k - 1]] BY <1>2, <2>1, <2>2
  <2> QED BY <2>1, <2>3, <2>4 DEF Walks
<1> HIDE DEF D, H, m
<1> QED BY <1>4, <1>5, Recursion

\* What such a function is at every point, when it takes one step after another.
LEMMA Walking ==
  ASSUME NEW N \in Nat, NEW S, NEW f, f[0] \in S,
         \A k \in 1 .. N : f[k - 1] \in S => f[k] \in S
  PROVE  \A k \in 0 .. N : f[k] \in S
<1> DEFINE R == {k \in Nat : k <= N => f[k] \in S}
<1>1. 0 \in R OBVIOUS
<1>2. ASSUME NEW k \in Nat, k \in R PROVE k + 1 \in R
  <2>1. k + 1 <= N => k + 1 \in 1 .. N /\ (k + 1) - 1 = k OBVIOUS
  <2> QED BY <1>2, <2>1
<1> HIDE DEF R
<1>3. Nat \subseteq R BY <1>1, <1>2, Steps
<1> QED BY <1>3 DEF R

-------------------------------------------------------------------------------
\* SpanEnd is defined: a text ends.
LEMMA SpanEndIs ==
  ASSUME NEW T, NEW s \in Seq(T), NEW i \in 1 .. Len(s) + 1, NEW C, Nul \notin C
  PROVE  /\ SpanEnd(s, i, C) \in i .. Len(s) + 1
         /\ SpanEnd(s, i, C) <= Len(s) => s[SpanEnd(s, i, C)] \notin C
         /\ \A k \in i .. SpanEnd(s, i, C) - 1 : s[k] \in C
<1> DEFINE ends == {j \in i .. Len(s) + 1 : CharAt(s, j) \notin C}
<1>1. Len(s) \in Nat /\ Len(s) + 1 \in ends BY DEF CharAt
<1>2. ends \subseteq Nat /\ ends # {} BY <1>1
<1>3. PICK j \in ends : \A k \in ends : j <= k BY <1>2, LeastNumber
<1>4. \A k \in i .. j - 1 : s[k] \in C
  <2>1. SUFFICES ASSUME NEW k \in i .. j - 1 PROVE s[k] \in C OBVIOUS
  <2>2. k \in i .. Len(s) + 1 /\ k <= Len(s) /\ k \notin ends BY <1>1, <1>3
  <2>3. CharAt(s, k) = s[k] BY <2>2 DEF CharAt
  <2> QED BY <2>2, <2>3
<1>5. CharAt(s, j) \notin C /\ j \in i .. Len(s) + 1 BY <1>3
<1> DEFINE e == SpanEnd(s, i, C)
<1>6. e \in i .. Len(s) + 1 /\ CharAt(s, e) \notin C /\ \A k \in i .. e - 1 : s[k] \in C
  BY <1>4, <1>5 DEF SpanEnd
<1> HIDE DEF e
<1>7. e <= Len(s) => s[e] \notin C BY <1>6 DEF CharAt
<1> QED BY <1>6, <1>7 DEF e

-------------------------------------------------------------------------------
\* f gives the words of every prefix of s.
WordsBy(f, s, c) ==
  /\ f[0] = <<>>
  /\ \A n \in 1 .. Len(s) : f[n] = WordsOn(f[n - 1], s, c, n)

LEMMA WordsOnType ==
  ASSUME NEW C, NEW s \in Seq(C), NEW c, NEW n \in 1 .. Len(s), NEW words \in Seq(Seq(C))
  PROVE  WordsOn(words, s, c, n) \in Seq(Seq(C))
<1>1. s[n] \in C /\ <<s[n]>> \in Seq(C) OBVIOUS
<1>2. Append(words, <<s[n]>>) \in Seq(Seq(C)) BY <1>1
<1>3. [words EXCEPT ![Len(words)] = Append(@, s[n])] \in Seq(Seq(C))
  <2>1. CASE words = <<>>
    <3>1. Len(words) \notin DOMAIN words BY <2>1
    <3>2. [words EXCEPT ![Len(words)] = Append(@, s[n])] = words BY <3>1, <2>1
    <3> QED BY <3>2
  <2>2. CASE words # <<>>
    <3>1. Len(words) \in 1 .. Len(words) BY <2>2
    <3>2. Append(words[Len(words)], s[n]) \in Seq(C) BY <1>1, <3>1
    <3> QED BY <3>1, <3>2, ExceptSeq
  <2> QED BY <2>1, <2>2
<1> QED BY <1>2, <1>3 DEF WordsOn

LEMMA WordsFn ==
  ASSUME NEW C, NEW s \in Seq(C), NEW c
  PROVE  \E f \in [0 .. Len(s) -> Seq(Seq(C))] : WordsBy(f, s, c) /\ Words(s, c) = f[Len(s)]
<1> DEFINE N == Len(s)
           T == Seq(Seq(C))
           Def(f) == f = [n \in 0 .. Len(s) |->
                            IF n = 0 THEN <<>> ELSE WordsOn(f[n - 1], s, c, n)]
           F == CHOOSE f : Def(f)
           G == [n \in 1 .. N |-> [words \in T |-> WordsOn(words, s, c, n)]]
<1>1. Words(s, c) = F[N] BY DEF Words
<1>2. \A n \in 1 .. N, words \in T : G[n][words] = WordsOn(words, s, c, n) /\ G[n][words] \in T
  BY WordsOnType
<1>3. IsStep(G, N, T) /\ <<>> \in T BY <1>2, WordsOnType DEF IsStep
<1> HIDE DEF F, G, T
<1>4. PICK f : Walks(f, G, N, T, <<>>) BY <1>3, Stepwise
<1>5. \A n \in 0 .. N : f[n] = IF n = 0 THEN <<>> ELSE WordsOn(f[n - 1], s, c, n)
  <2>1. \A n \in 1 .. N : n - 1 \in 0 .. N /\ n # 0 OBVIOUS
  <2>2. \A n \in 1 .. N : f[n] = WordsOn(f[n - 1], s, c, n) BY <1>2, <1>4, <2>1 DEF Walks
  <2> QED BY <1>4, <2>2 DEF Walks
<1>6. Def(f) BY <1>4, <1>5 DEF Walks
<1>7. Def(F) BY <1>6 DEF F
<1>8. WordsBy(F, s, c) BY <1>7 DEF WordsBy
<1>9. \A n \in 0 .. N : F[n] \in T
  <2>1. F[0] \in T BY <1>3, <1>8 DEF WordsBy
  <2>2. \A n \in 1 .. N : F[n - 1] \in T => F[n] \in T BY <1>2, <1>8 DEF WordsBy
  <2>3. N \in Nat OBVIOUS
  <2> HIDE DEF N
  <2> QED BY <2>1, <2>2, <2>3, Walking
<1>10. F \in [0 .. N -> T] BY <1>7, <1>9
<1> QED BY <1>1, <1>8, <1>10 DEF T

\* The words of a prefix, from those of the prefix that is shorter by one.
LEMMA WordsNext ==
  ASSUME NEW C, NEW s \in Seq(C), NEW c
  PROVE  /\ Words(<<>>, c) = <<>>
         /\ Words(s, c) \in Seq(Seq(C))
         /\ \A n \in 1 .. Len(s) :
              Words(SubSeq(s, 1, n), c) = WordsOn(Words(SubSeq(s, 1, n - 1), c), s, c, n)
<1>1. PICK f \in [0 .. Len(s) -> Seq(Seq(C))] : WordsBy(f, s, c) /\ Words(s, c) = f[Len(s)]
  BY WordsFn
<1>2. ASSUME NEW n \in 0 .. Len(s) PROVE Words(SubSeq(s, 1, n), c) = f[n]
  <2> DEFINE p == SubSeq(s, 1, n)
  <2>1. p \in Seq(C) /\ Len(p) = n /\ \A k \in 1 .. n : p[k] = s[k] OBVIOUS
  <2> HIDE DEF p
  <2>2. PICK g \in [0 .. Len(p) -> Seq(Seq(C))] : WordsBy(g, p, c) /\ Words(p, c) = g[Len(p)]
    BY <2>1, WordsFn
  <2> DEFINE S == {k \in Nat : k <= n => f[k] = g[k]}
  <2>3. 0 \in S BY <1>1, <2>2 DEF WordsBy
  <2>4. ASSUME NEW k \in Nat, k \in S PROVE k + 1 \in S
    <3>1. SUFFICES ASSUME k + 1 <= n PROVE f[k + 1] = g[k + 1] OBVIOUS
    <3>2. f[k] = g[k] BY <2>4, <3>1
    <3>3. k + 1 \in 1 .. Len(s) /\ k + 1 \in 1 .. Len(p) /\ (k + 1) - 1 = k BY <2>1, <3>1
    <3>4. f[k + 1] = WordsOn(f[k], s, c, k + 1) BY <1>1, <3>3 DEF WordsBy
    <3>5. g[k + 1] = WordsOn(g[k], p, c, k + 1) BY <2>2, <3>3 DEF WordsBy
    <3>6. p[k + 1] = s[k + 1] /\ (k + 1 # 1 => p[(k + 1) - 1] = s[(k + 1) - 1])
      BY <2>1, <3>1, <3>3
    <3>7. WordsOn(f[k], s, c, k + 1) = WordsOn(f[k], p, c, k + 1) BY <3>6 DEF WordsOn
    <3> QED BY <3>2, <3>4, <3>5, <3>7
  <2> HIDE DEF S
  <2>5. Nat \subseteq S BY <2>3, <2>4, Steps
  <2>6. f[n] = g[n] BY <2>5 DEF S
  <2> QED BY <2>1, <2>2, <2>6 DEF p
<1>3. Words(<<>>, c) = <<>>
  <2>1. 0 \in 0 .. Len(s) /\ SubSeq(s, 1, 0) = <<>> OBVIOUS
  <2>2. Words(SubSeq(s, 1, 0), c) = f[0] BY <1>2, <2>1
  <2> QED BY <1>1, <2>1, <2>2 DEF WordsBy
<1>4. ASSUME NEW n \in 1 .. Len(s)
      PROVE  Words(SubSeq(s, 1, n), c) = WordsOn(Words(SubSeq(s, 1, n - 1), c), s, c, n)
  <2>1. n \in 0 .. Len(s) /\ n - 1 \in 0 .. Len(s) OBVIOUS
  <2> QED BY <1>1, <1>2, <2>1 DEF WordsBy
<1>5. Words(s, c) \in Seq(Seq(C)) BY <1>1
<1> QED BY <1>3, <1>4, <1>5

LEMMA OneLong == ASSUME NEW S, NEW x \in S PROVE <<x>> \in Seq(S)
OBVIOUS

LEMMA AppendMoves ==
  ASSUME NEW S, NEW v \in Seq(S), NEW x \in S, NEW t \in Seq(S)
  PROVE  Append(v, x) \o t = v \o (<<x>> \o t)
<1>1. Append(v, x) = v \o <<x>> /\ <<x>> \in Seq(S) BY AppendIsConcat
<1> QED BY <1>1, ConcatAssociative

LEMMA OneElement ==
  ASSUME NEW C, NEW s \in Seq(C), NEW n \in 1 .. Len(s) PROVE SubSeq(s, n, n) = <<s[n]>>
<1>1. SubSeq(s, n, n) = <<s[n]>> \o SubSeq(s, n + 1, n) BY SubSeqRecursiveFirst
<1>2. SubSeq(s, n + 1, n) = <<>> BY SubSeqEmpty
<1>3. <<s[n]>> \in Seq(C) OBVIOUS
<1>4. <<s[n]>> \o <<>> = <<s[n]>> BY <1>3, ConcatEmptySeq
<1> QED BY <1>1, <1>2, <1>4

\* Separators add no word.
LEMMA WordsGap ==
  ASSUME NEW C, NEW s \in Seq(C), NEW c, NEW i \in 1 .. Len(s) + 1, NEW p \in i .. Len(s) + 1,
         \A k \in i .. p - 1 : s[k] = c
  PROVE  Words(SubSeq(s, 1, p - 1), c) = Words(SubSeq(s, 1, i - 1), c)
<1> DEFINE S == {d \in Nat : i + d <= p =>
                   Words(SubSeq(s, 1, (i + d) - 1), c) = Words(SubSeq(s, 1, i - 1), c)}
<1>1. 0 \in S BY i + 0 = i
<1>2. ASSUME NEW d \in Nat, d \in S PROVE d + 1 \in S
  <2>1. SUFFICES ASSUME i + (d + 1) <= p
        PROVE  Words(SubSeq(s, 1, (i + (d + 1)) - 1), c) = Words(SubSeq(s, 1, i - 1), c)
    OBVIOUS
  <2>2. i + d <= p /\ (i + (d + 1)) - 1 = i + d /\ i + d \in 1 .. Len(s) /\ i + d \in i .. p - 1
    BY <2>1
  <2>3. s[i + d] = c BY <2>2
  <2>4. Words(SubSeq(s, 1, i + d), c) = WordsOn(Words(SubSeq(s, 1, (i + d) - 1), c), s, c, i + d)
    BY <2>2, WordsNext
  <2> QED BY <1>2, <2>2, <2>3, <2>4 DEF WordsOn
<1> HIDE DEF S
<1>3. Nat \subseteq S BY <1>1, <1>2, Steps
<1>4. p - i \in S /\ i + (p - i) = p BY <1>3
<1> QED BY <1>4 DEF S

\* Characters that follow a separator and are none add one word.
LEMMA WordsRun ==
  ASSUME NEW C, NEW s \in Seq(C), NEW c, NEW p \in 1 .. Len(s), NEW q \in p + 1 .. Len(s) + 1,
         p = 1 \/ s[p - 1] = c, \A k \in p .. q - 1 : s[k] # c
  PROVE  Words(SubSeq(s, 1, q - 1), c)
           = Append(Words(SubSeq(s, 1, p - 1), c), SubSeq(s, p, q - 1))
<1> DEFINE v == Words(SubSeq(s, 1, p - 1), c)
           S == {d \in Nat : p + d < q =>
                   Words(SubSeq(s, 1, p + d), c) = Append(v, SubSeq(s, p, p + d))}
<1>1. v \in Seq(Seq(C))
  <2>1. SubSeq(s, 1, p - 1) \in Seq(C) OBVIOUS
  <2> QED BY <2>1, WordsNext
<1>a. \A n \in 1 .. Len(s) :
        Words(SubSeq(s, 1, n), c) = WordsOn(Words(SubSeq(s, 1, n - 1), c), s, c, n)
  BY WordsNext
<1> HIDE DEF v
<1>2. 0 \in S
  <2>1. s[p] # c /\ SubSeq(s, p, p) = <<s[p]>> /\ p + 0 = p BY OneElement
  <2>2. Words(SubSeq(s, 1, p), c) = WordsOn(v, s, c, p) BY WordsNext DEF v
  <2> QED BY <2>1, <2>2 DEF WordsOn
<1>3. ASSUME NEW d \in Nat, d \in S PROVE d + 1 \in S
  <2> DEFINE n == p + (d + 1)
             w == SubSeq(s, p, p + d)
  <2>1. SUFFICES ASSUME n < q
        PROVE  Words(SubSeq(s, 1, n), c) = Append(v, SubSeq(s, p, n))
    OBVIOUS
  <2>2. n \in 1 .. Len(s) /\ n - 1 = p + d /\ n - 1 \in p .. q - 1 /\ n \in p .. q - 1 /\ n # 1
    BY <2>1
  <2>3. s[n] # c /\ s[n - 1] # c BY <2>2
  <2>4. Words(SubSeq(s, 1, n - 1), c) = Append(v, w) BY <1>3, <2>1, <2>2
  <2> DEFINE u == Words(SubSeq(s, 1, n - 1), c)
  <2>5. Words(SubSeq(s, 1, n), c) = WordsOn(u, s, c, n)
    <3> HIDE DEF n, w, S
    <3> QED BY <1>a, <2>2
  <2>6. w \in Seq(C) /\ s[n] \in C BY <2>2
  <2>7. SubSeq(s, p, n) = Append(w, s[n])
    <3>1. SubSeq(s, p, n) = w \o <<s[n]>> BY <2>2, SubSeqRecursiveSecond
    <3> HIDE DEF w
    <3> QED BY <2>6, <3>1, AppendIsConcat
  <2> HIDE DEF w, n, u
  <2> DEFINE y == Append(w, s[n])
             e == [u EXCEPT ![Len(u)] = y]
             b == Append(v, y)
  <2>8. y \in Seq(C) BY <2>6
  <2> HIDE DEF y, S
  <2>9. /\ u \in Seq(Seq(C)) /\ Len(u) = Len(v) + 1 /\ u[Len(v) + 1] = w
        /\ \A i \in 1 .. Len(v) : u[i] = v[i]
    <3>1. u = Append(v, w) BY <2>4 DEF u
    <3> HIDE DEF u, e, b
    <3>2. w \in Seq(C) BY <2>6
    <3> QED BY <1>1, <3>1, <3>2, AppendProperties
  <2>10. /\ b \in Seq(Seq(C)) /\ Len(b) = Len(v) + 1 /\ b[Len(v) + 1] = y
         /\ \A i \in 1 .. Len(v) : b[i] = v[i]
    BY <1>1, <2>8, AppendProperties
  <2>11. WordsOn(u, s, c, n) = e
    <3>1. WordsOn(u, s, c, n) = [u EXCEPT ![Len(u)] = Append(@, s[n])] BY <2>2, <2>3 DEF WordsOn
    <3>2. u[Len(u)] = w BY <2>9
    <3> QED BY <3>1, <3>2 DEF y
  <2>12. Len(u) \in 1 .. Len(u) /\ Len(v) \in Nat BY <1>1, <2>9
  <2>13. /\ e \in Seq(Seq(C)) /\ Len(e) = Len(u)
         /\ \A i \in 1 .. Len(u) : e[i] = IF i = Len(u) THEN y ELSE u[i]
    BY <2>8, <2>9, <2>12, ExceptSeq
  <2> HIDE DEF e, b
  <2>14. ASSUME NEW i \in 1 .. Len(e) PROVE e[i] = b[i]
    <3>1. CASE i = Len(u) BY <2>9, <2>10, <2>12, <2>13, <3>1
    <3>2. CASE i # Len(u)
      <4>1. i \in 1 .. Len(v) /\ i \in 1 .. Len(u) BY <2>9, <2>12, <2>13, <3>2
      <4>2. e[i] = u[i] BY <2>13, <3>2, <4>1
      <4>3. u[i] = v[i] /\ b[i] = v[i] BY <2>9, <2>10, <4>1
      <4> QED BY <4>2, <4>3
    <3> QED BY <3>1, <3>2
  <2>15. e = b BY <2>9, <2>10, <2>13, <2>14, SeqEqual
  <2>16. SubSeq(s, p, n) = y BY <2>7 DEF y
  <2> QED BY <2>5, <2>11, <2>15, <2>16 DEF b
<1> HIDE DEF S
<1>4. Nat \subseteq S BY <1>2, <1>3, Steps
<1>5. (q - 1) - p \in S /\ p + ((q - 1) - p) = q - 1 /\ q - 1 < q BY <1>4
<1> QED BY <1>5 DEF S, v

-------------------------------------------------------------------------------
\* Where the run that Split takes from i on begins, and where it ends.
RunAt(s, c, i) == SpanEnd(s, i, {c})
RunTo(s, c, max, i) ==
  LET run == SpanEnd(s, RunAt(s, c, i), ToSet(s) \ {c})
  IN  IF run - RunAt(s, c, i) > max THEN RunAt(s, c, i) + max ELSE run

Runs(C, c, max) ==
  {w \in Seq(C) : Len(w) \in 1 .. max /\ \A k \in 1 .. Len(w) : w[k] # c}

LEMMA RunIs ==
  ASSUME NEW C, Nul \notin C, NEW s \in Seq(C), NEW c \in STRING, NEW max \in Nat,
         Len(s) > 0 => max > 0, NEW i \in 1 .. Len(s) + 1
  PROVE  LET p == RunAt(s, c, i)
             q == RunTo(s, c, max, i)
         IN  /\ p \in i .. Len(s) + 1
             /\ \A k \in i .. p - 1 : s[k] = c
             /\ p <= Len(s) =>
                  /\ q \in p + 1 .. Len(s) + 1 /\ q - p <= max
                  /\ \A k \in p .. q - 1 : s[k] # c
                  /\ q <= Len(s) /\ s[q] # c => q - p = max
                  /\ SubSeq(s, p, q - 1) \in Runs(C, c, max)
<1> DEFINE p == RunAt(s, c, i)
           run == SpanEnd(s, p, ToSet(s) \ {c})
           q == RunTo(s, c, max, i)
<1>1. Nul # c BY CharAssumption
<1>2. p \in i .. Len(s) + 1 /\ (p <= Len(s) => s[p] # c) /\ \A k \in i .. p - 1 : s[k] = c
  BY <1>1, SpanEndIs DEF RunAt
<1>3. q = IF run - p > max THEN p + max ELSE run BY DEF RunTo
<1> HIDE DEF p, q
<1>4. Len(s) \in Nat /\ p \in 1 .. Len(s) + 1 BY <1>2
<1>5. Nul \notin ToSet(s) \ {c}
  <2>1. \A k \in DOMAIN s : s[k] \in C OBVIOUS
  <2> QED BY <2>1 DEF ToSet
<1>6. /\ run \in p .. Len(s) + 1
      /\ run <= Len(s) => s[run] \notin ToSet(s) \ {c}
      /\ \A k \in p .. run - 1 : s[k] \in ToSet(s) \ {c}
  BY <1>4, <1>5, SpanEndIs
<1> HIDE DEF run
<1>7. \A k \in 1 .. Len(s) : s[k] \in ToSet(s)
  <2>1. DOMAIN s = 1 .. Len(s) OBVIOUS
  <2> QED BY <2>1 DEF ToSet
<1>8. ASSUME p <= Len(s)
      PROVE  /\ q \in p + 1 .. Len(s) + 1 /\ q - p <= max
             /\ \A k \in p .. q - 1 : s[k] # c
             /\ q <= Len(s) /\ s[q] # c => q - p = max
             /\ SubSeq(s, p, q - 1) \in Runs(C, c, max)
  <2>1. s[p] # c /\ p \in 1 .. Len(s) /\ max > 0
    <3>1. s[p] # c BY <1>2, <1>8
    <3>2. p \in 1 .. Len(s) BY <1>4, <1>8
    <3>3. Len(s) > 0 BY <1>4, <3>2
    <3> QED BY <3>1, <3>2, <3>3
  <2>2. run # p
    <3>1. SUFFICES ASSUME run = p PROVE FALSE OBVIOUS
    <3>2. s[p] \notin ToSet(s) \ {c} BY <1>6, <1>8, <3>1
    <3>3. s[p] \in ToSet(s) BY <1>7, <2>1
    <3> QED BY <2>1, <3>2, <3>3
  <2>3. run <= Len(s) => s[run] = c
    <3>1. SUFFICES ASSUME run <= Len(s) PROVE s[run] = c OBVIOUS
    <3>2. run \in 1 .. Len(s) BY <1>4, <1>6, <3>1
    <3>3. s[run] \in ToSet(s) BY <1>7, <3>2
    <3>4. s[run] \notin ToSet(s) \ {c} BY <1>6, <3>1
    <3> QED BY <3>3, <3>4
  <2>4. q \in p + 1 .. run /\ q - p <= max BY <1>3, <1>4, <1>6, <2>1, <2>2
  <2>5. \A k \in p .. q - 1 : k \in p .. run - 1 BY <1>4, <1>6, <2>4
  <2>6. \A k \in p .. q - 1 : s[k] # c BY <1>6, <2>5
  <2>7. q \in p + 1 .. Len(s) + 1 BY <1>4, <1>6, <2>4
  <2>8. q <= Len(s) /\ s[q] # c => q - p = max
    <3>1. q = run \/ q = p + max BY <1>3
    <3>2. CASE q = run BY <2>3, <3>2
    <3>3. CASE q = p + max BY <1>4, <3>3
    <3> QED BY <3>1, <3>2, <3>3
  <2> DEFINE w == SubSeq(s, p, q - 1)
  <2>9. \A k \in p .. q - 1 : s[k] \in C BY <1>4, <2>7
  <2>10. p \in Int /\ q - 1 \in Int /\ p <= q - 1 /\ (q - 1) - p + 1 = q - p BY <1>4, <2>7
  <2>11. w \in Seq(C) /\ Len(w) = q - p /\ \A k \in 1 .. q - p : w[k] = s[p + k - 1]
    BY <2>9, <2>10, SubSeqProperties
  <2> HIDE DEF w
  <2>12. \A k \in 1 .. q - p : p + k - 1 \in p .. q - 1 BY <1>4, <2>7
  <2>13. \A k \in 1 .. Len(w) : w[k] # c BY <2>6, <2>11, <2>12
  <2>14. Len(w) \in 1 .. max BY <1>4, <2>4, <2>7, <2>11
  <2>15. w \in Runs(C, c, max) BY <2>11, <2>13, <2>14 DEF Runs
  <2> QED BY <2>4, <2>6, <2>7, <2>8, <2>15 DEF w
<1> QED BY <1>2, <1>8 DEF p, q

\* f gives the runs from every place of s on.
SplitBy(f, C, s, c, max) ==
  /\ f \in [1 .. Len(s) + 1 -> Seq(Runs(C, c, max))]
  /\ \A i \in 1 .. Len(s) + 1 :
       f[i] = IF RunAt(s, c, i) > Len(s) THEN <<>>
              ELSE <<SubSeq(s, RunAt(s, c, i), RunTo(s, c, max, i) - 1)>>
                     \o f[RunTo(s, c, max, i)]

LEMMA SplitFn ==
  ASSUME NEW C, Nul \notin C, NEW s \in Seq(C), NEW c \in STRING, NEW max \in Nat,
         Len(s) > 0 => max > 0
  PROVE  \E f : SplitBy(f, C, s, c, max) /\ Split(s, c, max) = f[1]
<1> DEFINE D == 1 .. Len(s) + 1
           T == Seq(Runs(C, c, max))
           m == [i \in D |-> Len(s) + 1 - i]
           at(i) == RunAt(s, c, i)
           to(i) == RunTo(s, c, max, i)
           one(i) == <<SubSeq(s, at(i), to(i) - 1)>>
           Def(f) == f = [i \in 1 .. Len(s) + 1 |->
                            IF RunAt(s, c, i) > Len(s) THEN <<>>
                            ELSE <<SubSeq(s, RunAt(s, c, i), RunTo(s, c, max, i) - 1)>>
                                   \o f[RunTo(s, c, max, i)]]
           F == CHOOSE f : Def(f)
           G == [i \in D |-> [f \in [D -> T] |->
                   IF at(i) > Len(s) THEN <<>> ELSE one(i) \o f[to(i)]]]
<1>1. Split(s, c, max) = F[1] BY DEF Split, RunTo, RunAt
<1>2. m \in [D -> Nat] /\ \A i \in D : m[i] = Len(s) + 1 - i OBVIOUS
<1>3. ASSUME NEW i \in D, at(i) <= Len(s)
      PROVE  to(i) \in D /\ m[to(i)] < m[i] /\ one(i) \in T
  <2>1. /\ at(i) \in i .. Len(s) + 1 /\ to(i) \in at(i) + 1 .. Len(s) + 1
        /\ SubSeq(s, at(i), to(i) - 1) \in Runs(C, c, max)
    BY <1>3, RunIs
  <2> HIDE DEF at, to, m, T
  <2>2. Len(s) \in Nat OBVIOUS
  <2>3. to(i) \in 1 .. Len(s) + 1 /\ i < to(i) BY <2>1, <2>2
  <2>4. m[to(i)] < m[i] BY <1>2, <2>2, <2>3
  <2>5. one(i) \in T
    <3> DEFINE w == SubSeq(s, at(i), to(i) - 1)
    <3>1. w \in Runs(C, c, max) BY <2>1
    <3> HIDE DEF w
    <3>2. <<w>> \in Seq(Runs(C, c, max)) BY <3>1, OneLong, Zenon
    <3> QED BY <3>2 DEF T, w, one
  <2> QED BY <2>3, <2>4, <2>5
<1>4. \A i \in D : at(i) \in i .. Len(s) + 1 BY RunIs
<1>5. \A i \in D, f \in [D -> T] :
        G[i][f] = IF at(i) > Len(s) THEN <<>> ELSE one(i) \o f[to(i)]
  OBVIOUS
<1>6. <<>> \in T OBVIOUS
<1>a. \A x, y \in T : x \o y \in T BY ConcatProperties
<1> HIDE DEF F, T, m, at, to, one, D
<1>7. ASSUME NEW i \in D, NEW f \in [D -> T] PROVE G[i][f] \in T
  <2>1. CASE at(i) > Len(s) BY <1>5, <1>6, <2>1
  <2>2. CASE ~(at(i) > Len(s))
    <3>1. at(i) <= Len(s) BY <1>4, <2>2 DEF D
    <3>2. one(i) \in T /\ f[to(i)] \in T BY <1>3, <3>1
    <3>3. one(i) \o f[to(i)] \in T BY <1>a, <3>2
    <3> QED BY <1>5, <2>2, <3>3
  <2> QED BY <2>1, <2>2
<1>8. G \in [D -> [[D -> T] -> T]] BY <1>7
<1> HIDE DEF G
<1>9. ASSUME NEW f \in [D -> T], NEW g \in [D -> T], NEW i \in D,
             \A y \in D : m[y] < m[i] => f[y] = g[y]
      PROVE  G[i][f] = G[i][g]
  <2>1. at(i) <= Len(s) => f[to(i)] = g[to(i)] BY <1>3, <1>9
  <2>2. at(i) <= Len(s) \/ at(i) > Len(s) BY <1>4 DEF D
  <2> QED BY <1>5, <2>1, <2>2
<1>10. IsRule(G, D, T, m) BY <1>2, <1>8, <1>9 DEF IsRule
<1>11. PICK f : Solves(f, G, D, T) BY <1>6, <1>10, Recursion
<1>12. Def(f)
  <2>1. f \in [D -> T] /\ \A i \in D : f[i] = G[i][f] BY <1>11 DEF Solves
  <2>2. \A i \in D : f[i] = IF at(i) > Len(s) THEN <<>> ELSE one(i) \o f[to(i)]
    BY <1>5, <2>1
  <2> QED BY <2>1, <2>2 DEF D, one, at, to
<1>13. Def(F) BY <1>12 DEF F
<1>14. \A i \in D : F[i] = IF at(i) > Len(s) THEN <<>> ELSE one(i) \o F[to(i)]
  BY <1>13 DEF D, one, at, to
<1>15. \A i \in D : F[i] \in T
  <2> DEFINE S == {k \in Nat : \A i \in D : m[i] = k => F[i] \in T}
  <2>1. ASSUME NEW k \in Nat, \A j \in Nat : j < k => j \in S PROVE k \in S
    <3>1. SUFFICES ASSUME NEW i \in D, m[i] = k PROVE F[i] \in T OBVIOUS
    <3>2. CASE at(i) > Len(s) BY <1>6, <1>14, <3>2
    <3>3. CASE at(i) <= Len(s)
      <4>1. to(i) \in D /\ m[to(i)] < m[i] /\ one(i) \in T BY <1>3, <3>3
      <4>2. F[to(i)] \in T BY <1>2, <2>1, <3>1, <4>1
      <4>3. one(i) \o F[to(i)] \in T BY <1>a, <4>1, <4>2
      <4>4. ~(at(i) > Len(s)) BY <1>4, <3>3 DEF D
      <4> QED BY <1>14, <4>3, <4>4
    <3> QED BY <1>4, <3>2, <3>3 DEF D
  <2> HIDE DEF S
  <2>2. Nat \subseteq S BY <2>1, Smaller
  <2> QED BY <1>2, <2>2 DEF S
<1>16. F \in [1 .. Len(s) + 1 -> T] BY <1>13, <1>15 DEF D
<1>17. SplitBy(F, C, s, c, max) BY <1>14, <1>16 DEF SplitBy, D, T, one, at, to
<1> QED BY <1>1, <1>17

LEMMA RunsAreTexts == ASSUME NEW C, NEW c, NEW max PROVE Seq(Runs(C, c, max)) \subseteq Seq(Seq(C))
<1>1. Runs(C, c, max) \subseteq Seq(C) BY DEF Runs
<1> QED BY <1>1, SeqMonotonic

\* What Split gives is the words, unless it cuts one.
LEMMA SplitWords ==
  ASSUME NEW C, Nul \notin C, NEW s \in Seq(C), NEW c \in STRING, NEW max \in Nat,
         Len(s) <= max
  PROVE  Split(s, c, max) = Words(s, c)
<1> DEFINE N == Len(s)
           D == 1 .. N + 1
           before(i) == Words(SubSeq(s, 1, i - 1), c)
           border(i) == i = 1 \/ i = N + 1 \/ s[i - 1] = c \/ s[i] = c
<1>1. N \in Nat /\ (N > 0 => max > 0) OBVIOUS
<1>2. PICK f : SplitBy(f, C, s, c, max) /\ Split(s, c, max) = f[1] BY <1>1, SplitFn
<1> DEFINE S == {k \in Nat : \A i \in D : N + 1 - i = k /\ border(i) =>
                               Words(s, c) = before(i) \o f[i]}
<1>3. \A i \in D : f[i] \in Seq(Seq(C)) BY <1>2, RunsAreTexts DEF SplitBy
<1>4. \A i \in D : before(i) \in Seq(Seq(C))
  <2>1. \A i \in D : SubSeq(s, 1, i - 1) \in Seq(C) OBVIOUS
  <2> QED BY <2>1, WordsNext
<1>5. before(N + 1) = Words(s, c)
  <2>1. SubSeq(s, 1, N) = s /\ (N + 1) - 1 = N BY <1>1, SubSeqFull
  <2> QED BY <2>1
<1>6. ASSUME NEW k \in Nat, \A j \in Nat : j < k => j \in S PROVE k \in S
  <2>1. SUFFICES ASSUME NEW i \in D, N + 1 - i = k, border(i)
                 PROVE  Words(s, c) = before(i) \o f[i]
    OBVIOUS
  <2> DEFINE p == RunAt(s, c, i)
             q == RunTo(s, c, max, i)
             w == SubSeq(s, p, q - 1)
  <2>2. /\ p \in i .. N + 1
        /\ \A j \in i .. p - 1 : s[j] = c
        /\ p <= N => /\ q \in p + 1 .. N + 1 /\ q - p <= max
                     /\ \A j \in p .. q - 1 : s[j] # c
                     /\ q <= N /\ s[q] # c => q - p = max
                     /\ w \in Runs(C, c, max)
    BY <1>1, RunIs
  <2>3. f[i] = IF p > N THEN <<>> ELSE <<w>> \o f[q] BY <1>2, <2>1 DEF SplitBy
  <2> HIDE DEF p, q, w
  <2>4. before(p) = before(i)
    <3>1. i \in 1 .. Len(s) + 1 /\ p \in i .. Len(s) + 1 BY <2>1, <2>2
    <3>2. \A j \in i .. p - 1 : s[j] = c BY <2>2
    <3> QED BY <3>1, <3>2, WordsGap, Zenon
  <2>5. CASE p > N
    <3>1. p = N + 1 BY <1>1, <2>2, <2>5
    <3>2. before(i) = Words(s, c) BY <1>5, <2>4, <3>1
    <3>3. f[i] = <<>> BY <2>3, <2>5
    <3>4. before(i) \o <<>> = before(i) BY <1>4, <2>1, ConcatEmptySeq
    <3> QED BY <3>2, <3>3, <3>4
  <2>6. CASE p <= N
    <3>1. i \in 1 .. N /\ p \in 1 .. N /\ q \in p + 1 .. N + 1 BY <1>1, <2>1, <2>2, <2>6
    <3>2. p = 1 \/ s[p - 1] = c
      <4>1. CASE p = i
        <5>1. p \in p .. q - 1 BY <3>1
        <5>2. s[p] # c BY <2>2, <2>6, <5>1
        <5>3. i # N + 1 BY <1>1, <3>1
        <5> QED BY <2>1, <4>1, <5>2, <5>3
      <4>2. CASE p # i
        <5>1. p - 1 \in i .. p - 1 BY <2>2, <3>1, <4>2
        <5> QED BY <2>2, <5>1
      <4> QED BY <4>1, <4>2
    <3>3. before(q) = Append(before(p), w) BY <2>2, <2>6, <3>1, <3>2, WordsRun DEF w
    <3>4. border(q)
      <4>1. q = N + 1 \/ q <= N BY <1>1, <3>1
      <4>2. q <= N => s[q] = c
        <5>1. SUFFICES ASSUME q <= N, s[q] # c PROVE FALSE OBVIOUS
        <5>2. q - p = max BY <2>2, <2>6, <5>1
        <5> QED BY <1>1, <3>1, <5>1, <5>2
      <4> QED BY <4>1, <4>2
    <3>5. q \in D /\ N + 1 - q \in Nat /\ N + 1 - q < k BY <1>1, <2>1, <2>2, <3>1
    <3>6. Words(s, c) = before(q) \o f[q] BY <1>6, <3>4, <3>5
    <3>7. w \in Seq(C) BY <2>2, <2>6 DEF Runs
    <3>8. before(i) \in Seq(Seq(C)) /\ f[q] \in Seq(Seq(C)) BY <1>3, <1>4, <2>1, <3>5
    <3> DEFINE v == before(i)
               u == f[q]
    <3>9. v \in Seq(Seq(C)) /\ u \in Seq(Seq(C)) BY <3>8
    <3>11. Words(s, c) = Append(v, w) \o u BY <2>4, <3>3, <3>6
    <3>12. f[i] = <<w>> \o u BY <1>1, <2>3, <2>6, <3>1
    <3> HIDE DEF v, u, S
    <3>13. Append(v, w) \o u = v \o (<<w>> \o u)
      <4> HIDE DEF N, D, border
      <4> QED BY <3>7, <3>9, AppendMoves, SMTT(20), ZenonT(30)
    <3> QED BY <3>11, <3>12, <3>13 DEF v
  <2>7. p > N \/ p <= N BY <1>1, <2>2
  <2> QED BY <2>5, <2>6, <2>7
<1> HIDE DEF S
<1>7. Nat \subseteq S BY <1>6, Smaller
<1>8. Words(s, c) = before(1) \o f[1]
  <2>1. 1 \in D /\ N + 1 - 1 \in Nat BY <1>1
  <2> QED BY <1>7, <2>1 DEF S
<1>9. before(1) = <<>>
  <2>1. SubSeq(s, 1, 1 - 1) = <<>> BY SubSeqEmpty
  <2> QED BY <2>1, WordsNext
<1>10. f[1] \in Seq(Seq(C))
  <2>1. 1 \in D BY <1>1
  <2> QED BY <1>3, <2>1
<1>11. <<>> \o f[1] = f[1] BY <1>10, ConcatEmptySeq
<1> QED BY <1>2, <1>8, <1>9, <1>11

-------------------------------------------------------------------------------
Dots == {<<".">>, <<".", ".">>}

\* What shell_canon_path holds between two components: an absolute path that fits,
\* without dots, and for each of its words where the path before it ends.
CanonState(C) ==
  {s \in [out : Seq(C), starts : Seq(Nat)] :
     /\ Len(s.out) \in 1 .. PathMax - 1 /\ s.out[1] = "/"
     /\ Len(Words(s.out, "/")) = Len(s.starts)
     /\ \A k \in 1 .. Len(s.starts) :
          /\ Words(s.out, "/")[k] \notin Dots
          /\ s.starts[k] \in 1 .. Len(s.out)
          /\ Words(SubSeq(s.out, 1, s.starts[k]), "/") = SubSeq(Words(s.out, "/"), 1, k - 1)
          /\ \A j \in 1 .. k : s.starts[j] <= s.starts[k]}

LEMMA PrefixOfPrefix ==
  ASSUME NEW S, NEW s \in Seq(S), NEW n \in 0 .. Len(s), NEW m \in 0 .. n
  PROVE  SubSeq(SubSeq(s, 1, n), 1, m) = SubSeq(s, 1, m)
<1> DEFINE t == SubSeq(s, 1, n)
           u == SubSeq(t, 1, m)
           v == SubSeq(s, 1, m)
<1>1. t \in Seq(S) /\ Len(t) = n /\ \A k \in 1 .. n : t[k] = s[k] OBVIOUS
<1>2. v \in Seq(S) /\ Len(v) = m /\ \A k \in 1 .. m : v[k] = s[k] OBVIOUS
<1> HIDE DEF t, v
<1>3. u \in Seq(S) /\ Len(u) = m /\ \A k \in 1 .. m : u[k] = t[k] BY <1>1
<1> HIDE DEF u
<1>4. \A k \in 1 .. Len(u) : u[k] = v[k] BY <1>1, <1>2, <1>3
<1> QED BY <1>2, <1>3, <1>4, SeqEqual DEF t, u, v

LEMMA WordsSep ==
  ASSUME NEW C, NEW s \in Seq(C), NEW c \in C, NEW t, t = Append(s, c)
  PROVE  Words(t, c) = Words(s, c)
<1>1. /\ t \in Seq(C) /\ Len(t) = Len(s) + 1 /\ t[Len(s) + 1] = c
      /\ \A k \in 1 .. Len(s) : t[k] = s[k]
  BY AppendProperties
<1>2. SubSeq(t, 1, Len(s)) = s
  <2> DEFINE x == SubSeq(t, 1, Len(s))
  <2>1. x \in Seq(C) /\ Len(x) = Len(s) /\ \A k \in 1 .. Len(s) : x[k] = t[k] BY <1>1
  <2> HIDE DEF x
  <2>2. \A k \in 1 .. Len(s) : x[k] = s[k] BY <1>1, <2>1
  <2> QED BY <2>1, <2>2, SeqEqual DEF x
<1>3. SubSeq(t, 1, Len(t)) = t BY <1>1, SubSeqFull
<1>4. Len(s) \in Nat /\ Len(t) \in 1 .. Len(t) /\ Len(t) - 1 = Len(s) BY <1>1
<1>5. \A n \in 1 .. Len(t) :
        Words(SubSeq(t, 1, n), c) = WordsOn(Words(SubSeq(t, 1, n - 1), c), t, c, n)
  BY <1>1, WordsNext, SMTT(20), ZenonT(30)
<1>6. Words(t, c) = WordsOn(Words(s, c), t, c, Len(t)) BY <1>2, <1>3, <1>4, <1>5
<1>7. t[Len(t)] = c BY <1>1
<1> QED BY <1>6, <1>7 DEF WordsOn

LEMMA PoppedIs ==
  ASSUME NEW C, NEW s \in CanonState(C), s.starts # <<>>
  PROVE  /\ Popped(s) \in CanonState(C)
         /\ Words(Popped(s).out, "/") = Front(Words(s.out, "/"))
         /\ Len(Popped(s).out) <= Len(s.out)
<1> DEFINE out == s.out
           starts == s.starts
           W == Words(out, "/")
           d == Len(starts)
           e == starts[d]
           o == SubSeq(out, 1, e)
           V == Words(o, "/")
           r == SubSeq(starts, 1, d - 1)
<1>1. /\ out \in Seq(C) /\ starts \in Seq(Nat)
      /\ Len(out) \in 1 .. PathMax - 1 /\ out[1] = "/" /\ Len(W) = d
      /\ \A k \in 1 .. d :
           /\ W[k] \notin Dots /\ starts[k] \in 1 .. Len(out)
           /\ Words(SubSeq(out, 1, starts[k]), "/") = SubSeq(W, 1, k - 1)
           /\ \A j \in 1 .. k : starts[j] <= starts[k]
  BY DEF CanonState
<1>2. Popped(s) = [out |-> o, starts |-> r] BY DEF Popped, Last, Front
<1>3. d \in Nat /\ d >= 1 BY <1>1
<1>4. W \in Seq(Seq(C)) BY <1>1, WordsNext
<1> HIDE DEF out, starts, W, d
<1>5. e \in 1 .. Len(out) /\ d \in 1 .. d BY <1>1, <1>3
<1>6. V = SubSeq(W, 1, d - 1) BY <1>1, <1>5
<1> HIDE DEF e
<1>7. o \in Seq(C) /\ Len(o) = e /\ \A k \in 1 .. e : o[k] = out[k] BY <1>1, <1>5
<1>8. r \in Seq(Nat) /\ Len(r) = d - 1 /\ \A k \in 1 .. d - 1 : r[k] = starts[k]
  BY <1>1, <1>3, SMTT(30) DEF d
<1> HIDE DEF o, r, V
<1>9. Len(V) = d - 1 /\ \A k \in 1 .. d - 1 : V[k] = W[k] BY <1>1, <1>3, <1>4, <1>6
<1>10. ASSUME NEW k \in 1 .. d - 1
       PROVE  /\ V[k] \notin Dots /\ r[k] \in 1 .. Len(o)
              /\ Words(SubSeq(o, 1, r[k]), "/") = SubSeq(V, 1, k - 1)
              /\ \A j \in 1 .. k : r[j] <= r[k]
  <2>1. k \in 1 .. d /\ k - 1 \in 0 .. d - 1 /\ d - 1 \in 0 .. d BY <1>3
  <2>2. r[k] = starts[k] /\ starts[k] <= e BY <1>1, <1>5, <1>8, <2>1 DEF e
  <2>3. r[k] \in 1 .. Len(o) BY <1>1, <1>5, <1>7, <2>1, <2>2, SMTT(30)
  <2>4. SubSeq(o, 1, r[k]) = SubSeq(out, 1, r[k])
    <3>1. e \in 0 .. Len(out) /\ r[k] \in 0 .. e BY <1>1, <1>5, <1>7, <2>3, SMTT(30)
    <3> QED BY <1>1, <3>1, PrefixOfPrefix DEF o
  <2>5. Words(SubSeq(o, 1, r[k]), "/") = SubSeq(W, 1, k - 1) BY <1>1, <2>1, <2>2, <2>4
  <2>6. SubSeq(V, 1, k - 1) = SubSeq(W, 1, k - 1)
    <3>1. d - 1 \in 0 .. Len(W) BY <1>1, <2>1
    <3> QED BY <1>4, <1>6, <2>1, <3>1, PrefixOfPrefix
  <2>7. V[k] \notin Dots BY <1>1, <1>9, <2>1
  <2>8. ASSUME NEW j \in 1 .. k PROVE r[j] <= r[k]
    <3>1. j \in 1 .. d - 1 BY <1>3
    <3> QED BY <1>1, <1>8, <2>1, <2>2, <3>1
  <2> QED BY <2>3, <2>5, <2>6, <2>7, <2>8
<1>11. Len(o) \in 1 .. PathMax - 1 /\ o[1] = "/"
  BY <1>1, <1>5, <1>7, PathsAssumption
<1> DEFINE t == [out |-> o, starts |-> r]
<1>12. t \in [out : Seq(C), starts : Seq(Nat)] /\ t.out = o /\ t.starts = r BY <1>7, <1>8
<1> HIDE DEF t
<1>13. t \in CanonState(C) BY <1>8, <1>9, <1>10, <1>11, <1>12 DEF CanonState, V
<1>14. Front(W) = V BY <1>1, <1>6 DEF Front
<1>15. Len(o) <= Len(out) BY <1>1, <1>5, <1>7
<1>16. Popped(s) = t BY <1>2 DEF t
<1> QED BY <1>12, <1>13, <1>14, <1>15, <1>16 DEF W, V, out

\* There is room for one more word.
Room(s, part) == Len(s.starts) < CompMax /\ Len(s.out) + 1 + Len(part) + 1 < PathMax

LEMMA PushedIs ==
  ASSUME NEW C, "/" \in C, NEW s \in CanonState(C), NEW max, NEW part \in Runs(C, "/", max),
         part \notin Dots, Room(s, part)
  PROVE  /\ Pushed(s, part) \in CanonState(C)
         /\ Words(Pushed(s, part).out, "/") = Append(Words(s.out, "/"), part)
         /\ Len(Pushed(s, part).out) <= Len(s.out) + 1 + Len(part)
<1> DEFINE out == s.out
           starts == s.starts
           W == Words(out, "/")
           d == Len(starts)
           base == IF Len(out) > 1 THEN Append(out, "/") ELSE out
           b == Len(base)
           o == base \o part
           V == Words(o, "/")
           r == Append(starts, b)
<1>1. /\ out \in Seq(C) /\ starts \in Seq(Nat)
      /\ Len(out) \in 1 .. PathMax - 1 /\ out[1] = "/" /\ Len(W) = d
      /\ \A k \in 1 .. d :
           /\ W[k] \notin Dots /\ starts[k] \in 1 .. Len(out)
           /\ Words(SubSeq(out, 1, starts[k]), "/") = SubSeq(W, 1, k - 1)
           /\ \A j \in 1 .. k : starts[j] <= starts[k]
  BY DEF CanonState
<1>2. Pushed(s, part) = [out |-> o, starts |-> r] BY DEF Pushed, Room
<1>3. Len(out) + 1 + Len(part) + 1 < PathMax BY DEF Room
<1>4. /\ part \in Seq(C) /\ Len(part) \in Nat \ {0}
      /\ \A k \in 1 .. Len(part) : part[k] # "/"
  BY DEF Runs
<1>5. W \in Seq(Seq(C)) /\ d \in Nat BY <1>1, WordsNext
<1> HIDE DEF out, starts, W, d
<1>6. /\ base \in Seq(C) /\ b \in {Len(out), Len(out) + 1} /\ b \in Nat \ {0} /\ base[b] = "/"
      /\ \A k \in 1 .. Len(out) : base[k] = out[k]
  <2>1. CASE Len(out) > 1
    <3>1. base = Append(out, "/") BY <2>1
    <3> HIDE DEF base
    <3>2. /\ base \in Seq(C) /\ Len(base) = Len(out) + 1 /\ base[Len(out) + 1] = "/"
          /\ \A k \in 1 .. Len(out) : base[k] = out[k]
      BY <1>1, <3>1, AppendProperties
    <3> QED BY <1>1, <3>2
  <2>2. CASE ~(Len(out) > 1)
    <3>1. base = out BY <2>2
    <3>2. Len(out) = 1
      <4>1. Len(out) \in Nat /\ PathMax \in Nat BY <1>1, PathsAssumption
      <4>2. Len(out) >= 1 BY <1>1, <4>1
      <4> HIDE DEF base, b, o, V, r
      <4>3. \A n \in Nat : n >= 1 /\ ~(n > 1) => n = 1 OBVIOUS
      <4> QED BY <2>2, <4>1, <4>2, <4>3, Zenon
    <3> HIDE DEF base
    <3> QED BY <1>1, <3>1, <3>2
  <2> QED BY <2>1, <2>2
<1>7. Words(base, "/") = W
  <2>1. CASE Len(out) > 1
    <3>1. base = Append(out, "/") BY <2>1
    <3> HIDE DEF base
    <3> QED BY <1>1, <3>1, WordsSep DEF W
  <2>2. CASE ~(Len(out) > 1) BY <2>2 DEF W
  <2> QED BY <2>1, <2>2
<1> HIDE DEF base
<1>8. /\ o \in Seq(C) /\ Len(o) = b + Len(part)
      /\ \A k \in 1 .. b + Len(part) : o[k] = IF k <= b THEN base[k] ELSE part[k - b]
  BY <1>4, <1>6, ConcatProperties
<1>9. r \in Seq(Nat) /\ Len(r) = d + 1 /\ r[d + 1] = b /\ \A k \in 1 .. d : r[k] = starts[k]
  BY <1>1, <1>6, AppendProperties DEF d
<1> HIDE DEF b, o, r, V
<1>10. /\ SubSeq(o, 1, b) = base /\ SubSeq(o, b + 1, Len(o)) = part /\ SubSeq(o, 1, Len(o)) = o
       /\ SubSeq(o, 1, Len(out)) = out
  <2>1. SubSeq(o, 1, b) = base
    <3> DEFINE x == SubSeq(o, 1, b)
    <3>1. x \in Seq(C) /\ Len(x) = b /\ \A k \in 1 .. b : x[k] = o[k] BY <1>4, <1>6, <1>8
    <3> HIDE DEF x
    <3>2. \A k \in 1 .. b : x[k] = base[k] BY <1>4, <1>6, <1>8, <3>1
    <3> QED BY <1>6, <3>1, <3>2, SeqEqual DEF x, b
  <2>2. SubSeq(o, b + 1, Len(o)) = part
    <3> DEFINE x == SubSeq(o, b + 1, Len(o))
    <3>1. x \in Seq(C) /\ Len(x) = Len(part) /\ \A k \in 1 .. Len(part) : x[k] = o[b + k]
      BY <1>4, <1>6, <1>8
    <3> HIDE DEF x
    <3>2. \A k \in 1 .. Len(part) : x[k] = part[k]
      <4>1. SUFFICES ASSUME NEW k \in 1 .. Len(part) PROVE x[k] = part[k] OBVIOUS
      <4>2. b + k \in 1 .. b + Len(part) /\ ~(b + k <= b) /\ (b + k) - b = k BY <1>4, <1>6
      <4> QED BY <1>8, <3>1, <4>2
    <3> QED BY <1>4, <3>1, <3>2, SeqEqual DEF x
  <2>3. SubSeq(o, 1, Len(o)) = o BY <1>8, SubSeqFull
  <2>4. SubSeq(o, 1, Len(out)) = out
    <3> DEFINE x == SubSeq(o, 1, Len(out))
    <3>1. x \in Seq(C) /\ Len(x) = Len(out) /\ \A k \in 1 .. Len(out) : x[k] = o[k]
      BY <1>1, <1>4, <1>6, <1>8
    <3> HIDE DEF x
    <3>2. ASSUME NEW k \in 1 .. Len(out) PROVE x[k] = out[k]
      <4>1. k \in 1 .. b + Len(part) /\ k <= b BY <1>1, <1>4, <1>6
      <4>2. o[k] = base[k] BY <1>8, <4>1
      <4> QED BY <1>6, <3>1, <4>2
    <3> QED BY <1>1, <3>1, <3>2, SeqEqual DEF x
  <2> QED BY <2>1, <2>2, <2>3, <2>4
<1>11. V = Append(W, part)
  <2>1. b + 1 \in 1 .. Len(o) /\ Len(o) + 1 \in (b + 1) + 1 .. Len(o) + 1
        /\ (b + 1) - 1 = b /\ (Len(o) + 1) - 1 = Len(o)
    BY <1>4, <1>6, <1>8
  <2>2. o[(b + 1) - 1] = "/" BY <1>4, <1>6, <1>8, <2>1
  <2>3. \A k \in b + 1 .. (Len(o) + 1) - 1 : o[k] # "/"
    <3>1. SUFFICES ASSUME NEW k \in b + 1 .. Len(o) PROVE o[k] # "/" BY <2>1
    <3>2. k \in 1 .. b + Len(part) /\ ~(k <= b) /\ k - b \in 1 .. Len(part) BY <1>4, <1>6, <1>8
    <3> QED BY <1>4, <1>8, <3>2
  <2>4. Words(SubSeq(o, 1, (Len(o) + 1) - 1), "/")
          = Append(Words(SubSeq(o, 1, (b + 1) - 1), "/"), SubSeq(o, b + 1, (Len(o) + 1) - 1))
    BY <1>8, <2>1, <2>2, <2>3, WordsRun
  <2> QED BY <1>7, <1>10, <2>1, <2>4 DEF V
<1>12. /\ V \in Seq(Seq(C)) /\ Len(V) = d + 1 /\ V[d + 1] = part
       /\ \A k \in 1 .. d : V[k] = W[k]
  BY <1>1, <1>4, <1>5, <1>11, AppendProperties
<1>13. ASSUME NEW n \in 0 .. d PROVE SubSeq(V, 1, n) = SubSeq(W, 1, n)
  <2> DEFINE x == SubSeq(V, 1, n)
             y == SubSeq(W, 1, n)
  <2>1. x \in Seq(Seq(C)) /\ Len(x) = n /\ \A k \in 1 .. n : x[k] = V[k] BY <1>5, <1>12
  <2>2. y \in Seq(Seq(C)) /\ Len(y) = n /\ \A k \in 1 .. n : y[k] = W[k] BY <1>1, <1>5
  <2> HIDE DEF x, y
  <2>3. ASSUME NEW k \in 1 .. n PROVE x[k] = y[k]
    <3>1. k \in 1 .. d BY <1>5
    <3>2. V[k] = W[k] BY <1>12, <3>1
    <3> QED BY <2>1, <2>2, <3>2
  <2> QED BY <2>1, <2>2, <2>3, SeqEqual DEF x, y
<1>14. ASSUME NEW k \in 1 .. d + 1
       PROVE  /\ V[k] \notin Dots /\ r[k] \in 1 .. Len(o)
              /\ Words(SubSeq(o, 1, r[k]), "/") = SubSeq(V, 1, k - 1)
              /\ \A j \in 1 .. k : r[j] <= r[k]
  <2>1. CASE k = d + 1
    <3>1. V[k] \notin Dots /\ r[k] = b /\ b \in 1 .. Len(o)
      BY <1>4, <1>6, <1>8, <1>9, <1>12, <2>1
    <3>2. SubSeq(V, 1, d) = W
      <4>1. SubSeq(W, 1, d) = W BY <1>1, <1>5, SubSeqFull
      <4>2. d \in 0 .. d BY <1>5
      <4> QED BY <1>13, <4>1, <4>2
    <3>3. Words(SubSeq(o, 1, b), "/") = W BY <1>7, <1>10
    <3>4. k - 1 = d BY <1>5, <2>1
    <3>5. ASSUME NEW j \in 1 .. k PROVE r[j] <= b
      <4>1. CASE j = k BY <1>6, <3>1, <4>1
      <4>2. CASE j # k
        <5>1. j \in 1 .. d BY <1>5, <2>1, <4>2
        <5>2. r[j] \in 1 .. Len(out) BY <1>1, <1>9, <5>1
        <5> QED BY <1>1, <1>6, <5>2
      <4> QED BY <4>1, <4>2
    <3> QED BY <3>1, <3>2, <3>3, <3>4, <3>5
  <2>2. CASE k # d + 1
    <3>1. k \in 1 .. d /\ k - 1 \in 0 .. d BY <1>5, <2>2
    <3>2. V[k] = W[k] /\ r[k] = starts[k] BY <1>9, <1>12, <3>1
    <3>a. Len(out) \in 0 .. Len(o)
      <4>1. Len(out) \in Nat /\ Len(part) \in Nat BY <1>1, <1>4
      <4>2. Len(o) = b + Len(part) BY <1>8
      <4> QED BY <1>6, <4>1, <4>2
    <3>3. r[k] \in 1 .. Len(out) /\ r[k] \in 1 .. Len(o)
      <4>1. starts[k] \in 1 .. Len(out) BY <1>1, <3>1
      <4>2. Len(out) \in Nat /\ Len(o) \in Nat BY <1>1, <1>8
      <4> QED BY <3>2, <3>a, <4>1, <4>2
    <3>4. SubSeq(o, 1, r[k]) = SubSeq(out, 1, r[k])
      <4>1. Len(out) \in 0 .. Len(o) /\ r[k] \in 0 .. Len(out) BY <3>a, <3>3
      <4>2. SubSeq(SubSeq(o, 1, Len(out)), 1, r[k]) = SubSeq(o, 1, r[k])
        BY <1>8, <4>1, PrefixOfPrefix
      <4> QED BY <1>10, <4>2
    <3>5. Words(SubSeq(o, 1, r[k]), "/") = SubSeq(V, 1, k - 1)
      BY <1>1, <1>13, <3>1, <3>2, <3>4
    <3>6. V[k] \notin Dots BY <1>1, <3>1, <3>2
    <3>7. ASSUME NEW j \in 1 .. k PROVE r[j] <= r[k]
      <4>1. j \in 1 .. d BY <1>5, <3>1
      <4> QED BY <1>1, <1>9, <3>1, <3>2, <4>1
    <3> QED BY <3>3, <3>5, <3>6, <3>7
  <2> QED BY <2>1, <2>2
<1>15. Len(o) \in 1 .. PathMax - 1 /\ o[1] = "/" /\ Len(o) <= Len(out) + 1 + Len(part)
  <2>1. Len(o) \in 1 .. PathMax - 1 BY <1>1, <1>3, <1>4, <1>6, <1>8, PathsAssumption
  <2>2. o[1] = "/" BY <1>1, <1>4, <1>6, <1>8
  <2> QED BY <1>1, <1>4, <1>6, <1>8, <2>1, <2>2
<1> DEFINE t == [out |-> o, starts |-> r]
<1>16. t \in [out : Seq(C), starts : Seq(Nat)] /\ t.out = o /\ t.starts = r BY <1>8, <1>9
<1> HIDE DEF t
<1>17. t \in CanonState(C) BY <1>9, <1>12, <1>14, <1>15, <1>16 DEF CanonState, V
<1>18. Pushed(s, part) = t BY <1>2 DEF t
<1> QED BY <1>11, <1>15, <1>16, <1>17, <1>18 DEF V, W, out

Start == [out |-> <<"/">>, starts |-> <<>>]

LEMMA StartIs ==
  ASSUME NEW C, "/" \in C
  PROVE  Start \in CanonState(C) /\ Words(Start.out, "/") = <<>>
<1> DEFINE s == <<"/">>
<1>1. s \in Seq(C) /\ Len(s) = 1 /\ s[1] = "/" /\ SubSeq(s, 1, 1) = s
  <2>1. s \in Seq(C) /\ Len(s) = 1 /\ s[1] = "/" BY OneLong
  <2> HIDE DEF s
  <2> QED BY <2>1, SubSeqFull
<1>2. Words(s, "/") = <<>>
  <2> HIDE DEF s
  <2>1. \A n \in 1 .. Len(s) :
          Words(SubSeq(s, 1, n), "/") = WordsOn(Words(SubSeq(s, 1, n - 1), "/"), s, "/", n)
    BY <1>1, WordsNext
  <2>a. 1 \in 1 .. Len(s) BY <1>1
  <2>b. Words(SubSeq(s, 1, 1), "/") = WordsOn(Words(SubSeq(s, 1, 1 - 1), "/"), s, "/", 1)
    BY <2>1, <2>a
  <2>2. Words(s, "/") = WordsOn(Words(SubSeq(s, 1, 1 - 1), "/"), s, "/", 1) BY <1>1, <2>b
  <2>3. SubSeq(s, 1, 1 - 1) = <<>> BY SubSeqEmpty
  <2>4. Words(<<>>, "/") = <<>> BY <1>1, WordsNext
  <2> QED BY <1>1, <2>2, <2>3, <2>4 DEF WordsOn
<1>3. Start = [out |-> s, starts |-> <<>>] BY DEF Start
<1> HIDE DEF s
<1>4. Start \in [out : Seq(C), starts : Seq(Nat)] /\ Start.out = s /\ Start.starts = <<>>
  BY <1>1, <1>3
<1>5. Len(s) \in 1 .. PathMax - 1 BY <1>1, PathsAssumption
<1>6. Len(Words(Start.out, "/")) = 0 /\ Len(Start.starts) = 0 BY <1>2, <1>4
<1>7. \A k \in 1 .. Len(Start.starts) : FALSE BY <1>6
<1> QED BY <1>1, <1>2, <1>4, <1>5, <1>6, <1>7 DEF CanonState

\* A component leaves shell_canon_path in such a state, whether there is room or not.
LEMMA WalkedIs ==
  ASSUME NEW C, "/" \in C, NEW s \in CanonState(C), NEW max, NEW part \in Runs(C, "/", max)
  PROVE  Walked(s, part) \in CanonState(C)
<1>1. CASE part = <<".">> BY <1>1 DEF Walked
<1>2. CASE part = <<".", ".">>
  <2>1. Walked(s, part) = Popped(s) BY <1>2 DEF Walked
  <2>2. s.starts = <<>> => Popped(s) = s BY DEF Popped
  <2> QED BY <2>1, <2>2, PoppedIs
<1>3. CASE part \notin Dots
  <2>1. Walked(s, part) = Pushed(s, part) BY <1>3 DEF Walked, Dots
  <2>2. ~Room(s, part) => Pushed(s, part) = s BY DEF Pushed, Room
  <2> QED BY <1>3, <2>1, <2>2, PushedIs
<1> QED BY <1>1, <1>2, <1>3 DEF Dots

CanonBy(f, C, parts) ==
  /\ f \in [0 .. Len(parts) -> CanonState(C)] /\ f[0] = Start
  /\ \A k \in 1 .. Len(parts) : f[k] = Walked(f[k - 1], parts[k])

LEMMA SplitType ==
  ASSUME NEW C, Nul \notin C, NEW s \in Seq(C), NEW c \in STRING, NEW max \in Nat,
         Len(s) > 0 => max > 0
  PROVE  Split(s, c, max) \in Seq(Runs(C, c, max))
<1>1. PICK f : SplitBy(f, C, s, c, max) /\ Split(s, c, max) = f[1] BY SplitFn
<1>2. 1 \in 1 .. Len(s) + 1 OBVIOUS
<1> QED BY <1>1, <1>2 DEF SplitBy

LEMMA PartsType ==
  ASSUME NEW C, Nul \notin C, NEW tmp \in Seq(C)
  PROVE  Split(tmp, "/", Len(tmp)) \in Seq(Runs(C, "/", Len(tmp)))
<1>1. Len(tmp) \in Nat /\ (Len(tmp) > 0 => Len(tmp) > 0) OBVIOUS
<1>2. "/" \in STRING BY LiteralAssumption
<1> QED BY <1>1, <1>2, SplitType

LEMMA CanonFn ==
  ASSUME NEW C, "/" \in C, Nul \notin C, NEW tmp \in Seq(C)
  PROVE  \E f : /\ CanonBy(f, C, Split(tmp, "/", Len(tmp)))
                /\ Canon(tmp) = f[Len(Split(tmp, "/", Len(tmp)))].out
<1> DEFINE parts == Split(tmp, "/", Len(tmp))
           N == Len(parts)
           T == CanonState(C)
           Def(f) == f = [k \in 0 .. N |->
                            IF k = 0 THEN [out |-> <<"/">>, starts |-> <<>>]
                            ELSE Walked(f[k - 1], parts[k])]
           F == CHOOSE f : Def(f)
           G == [k \in 1 .. N |-> [s \in T |-> Walked(s, parts[k])]]
<1>1. Canon(tmp) = F[N].out BY DEF Canon
<1>2. parts \in Seq(Runs(C, "/", Len(tmp))) BY PartsType
<1> HIDE DEF parts
<1>3. N \in Nat BY <1>2
<1>4. \A k \in 1 .. N, s \in T : G[k][s] = Walked(s, parts[k]) /\ G[k][s] \in T
  <2>1. SUFFICES ASSUME NEW k \in 1 .. N, NEW s \in T PROVE Walked(s, parts[k]) \in T OBVIOUS
  <2>2. parts[k] \in Runs(C, "/", Len(tmp)) BY <1>2
  <2> HIDE DEF F, G, N
  <2> QED BY <2>2, WalkedIs
<1>5. Start \in T BY StartIs
<1> HIDE DEF T, F, N
<1>6. IsStep(G, N, T) BY <1>3, <1>4 DEF IsStep
<1> HIDE DEF G
<1>7. PICK f : Walks(f, G, N, T, Start) BY <1>5, <1>6, Stepwise
<1>8. \A k \in 0 .. N : f[k] = IF k = 0 THEN Start ELSE Walked(f[k - 1], parts[k])
  <2>1. \A k \in 1 .. N : k - 1 \in 0 .. N /\ k # 0 BY <1>3
  <2>2. \A k \in 1 .. N : f[k] = Walked(f[k - 1], parts[k]) BY <1>4, <1>7, <2>1 DEF Walks
  <2> QED BY <1>3, <1>7, <2>2 DEF Walks
<1>9. Def(f) BY <1>7, <1>8 DEF Walks, Start
<1>10. Def(F) BY <1>9 DEF F
<1>11. /\ F[0] = Start
       /\ \A k \in 1 .. N : F[k] = Walked(F[k - 1], parts[k])
  BY <1>3, <1>10 DEF Start
<1>12. \A k \in 0 .. N : F[k] \in T
  <2>1. \A k \in 1 .. N : F[k - 1] \in T => F[k] \in T BY <1>4, <1>11
  <2> QED BY <1>3, <1>5, <1>11, <2>1, Walking
<1>13. F \in [0 .. N -> T] BY <1>10, <1>12
<1>14. CanonBy(F, C, parts) BY <1>11, <1>13 DEF CanonBy, N, T
<1> QED BY <1>1, <1>14 DEF parts, N

\* shell_canon_path's result: absolute, within its buffer, and without dots.
LEMMA CanonShape ==
  ASSUME NEW C, "/" \in C, Nul \notin C, NEW tmp \in Seq(C)
  PROVE  /\ Canon(tmp) \in Seq(C) /\ Len(Canon(tmp)) \in 1 .. PathMax - 1
         /\ Canon(tmp)[1] = "/"
         /\ \A k \in DOMAIN Words(Canon(tmp), "/") : Words(Canon(tmp), "/")[k] \notin Dots
<1> DEFINE parts == Split(tmp, "/", Len(tmp))
<1>1. PICK f : CanonBy(f, C, parts) /\ Canon(tmp) = f[Len(parts)].out BY CanonFn
<1>2. Len(parts) \in 0 .. Len(parts)
  <2>1. parts \in Seq(Runs(C, "/", Len(tmp))) BY PartsType
  <2> HIDE DEF parts
  <2> QED BY <2>1
<1> HIDE DEF parts
<1> DEFINE s == f[Len(parts)]
<1>3. s \in CanonState(C) BY <1>1, <1>2 DEF CanonBy
<1>4. Words(s.out, "/") \in Seq(Seq(C)) BY <1>3, WordsNext DEF CanonState
<1> HIDE DEF s
<1>5. \A k \in DOMAIN Words(s.out, "/") : Words(s.out, "/")[k] \notin Dots
  BY <1>3, <1>4 DEF CanonState
<1> QED BY <1>1, <1>3, <1>5 DEF CanonState, s

-------------------------------------------------------------------------------
\* A name followed from a place leads to a place.
LEMMA GoneType ==
  ASSUME NEW C, NEW place \in Seq(Seq(C)), NEW name \in Seq(C)
  PROVE  /\ Gone(place, name) \in Seq(Seq(C))
         /\ Len(Gone(place, name)) <= Len(place) + 1
<1>1. Append(place, name) \in Seq(Seq(C)) /\ Len(Append(place, name)) = Len(place) + 1
  BY AppendProperties
<1>2. ASSUME place # <<>> PROVE Front(place) \in Seq(Seq(C)) /\ Len(Front(place)) = Len(place) - 1
  <2>1. Len(place) \in Nat /\ Len(place) - 1 \in 0 .. Len(place) BY <1>2
  <2>2. Len(SubSeq(place, 1, Len(place) - 1)) = Len(place) - 1
        /\ SubSeq(place, 1, Len(place) - 1) \in Seq(Seq(C))
    <3> DEFINE n == Len(place) - 1
    <3>1. n \in 0 .. Len(place) BY <2>1
    <3> HIDE DEF n
    <3>2. SubSeq(place, 1, n) \in Seq(Seq(C)) /\ Len(SubSeq(place, 1, n)) = n BY <3>1
    <3> QED BY <3>2 DEF n
  <2> QED BY <2>2 DEF Front
<1>3. Len(place) \in Nat OBVIOUS
<1>4. CASE name = <<".">> BY <1>3, <1>4 DEF Gone
<1>5. CASE name = <<".", ".">>
  <2>1. name # <<".">> BY <1>5
  <2>2. Gone(place, name) = IF place = <<>> THEN place ELSE Front(place)
    BY <1>5, <2>1 DEF Gone
  <2> QED BY <1>2, <1>3, <2>2
<1>6. CASE name \notin Dots
  <2>1. Gone(place, name) = Append(place, name) BY <1>6 DEF Gone, Dots
  <2> QED BY <1>1, <1>3, <2>1
<1> QED BY <1>4, <1>5, <1>6 DEF Dots

MeaningBy(g, C, words) ==
  /\ g \in [0 .. Len(words) -> Seq(Seq(C))] /\ g[0] = <<>>
  /\ \A k \in 1 .. Len(words) : g[k] = Gone(g[k - 1], words[k])

LEMMA MeaningFn ==
  ASSUME NEW C, NEW path \in Seq(C)
  PROVE  \E g : /\ MeaningBy(g, C, Words(path, "/"))
                /\ Meaning(path) = g[Len(Words(path, "/"))]
<1> DEFINE W == Words(path, "/")
           N == Len(W)
           T == Seq(Seq(C))
           Def(f) == f = [n \in 0 .. N |-> IF n = 0 THEN <<>> ELSE Gone(f[n - 1], W[n])]
           F == CHOOSE f : Def(f)
           G == [k \in 1 .. N |-> [place \in T |-> Gone(place, W[k])]]
<1>1. Meaning(path) = F[N] BY DEF Meaning
<1>2. W \in Seq(Seq(C)) BY WordsNext
<1> HIDE DEF W
<1>3. N \in Nat BY <1>2
<1>4. \A k \in 1 .. N, place \in T : G[k][place] = Gone(place, W[k]) /\ G[k][place] \in T
  <2>1. SUFFICES ASSUME NEW k \in 1 .. N, NEW place \in T PROVE Gone(place, W[k]) \in T OBVIOUS
  <2>2. W[k] \in Seq(C) BY <1>2
  <2> HIDE DEF F, G, N
  <2> QED BY <2>2, GoneType
<1>5. <<>> \in T OBVIOUS
<1> HIDE DEF T, F, N
<1>6. IsStep(G, N, T) BY <1>3, <1>4 DEF IsStep
<1> HIDE DEF G
<1>7. PICK f : Walks(f, G, N, T, <<>>) BY <1>5, <1>6, Stepwise
<1>8. \A k \in 0 .. N : f[k] = IF k = 0 THEN <<>> ELSE Gone(f[k - 1], W[k])
  <2>1. \A k \in 1 .. N : k - 1 \in 0 .. N /\ k # 0 BY <1>3
  <2>2. \A k \in 1 .. N : f[k] = Gone(f[k - 1], W[k]) BY <1>4, <1>7, <2>1 DEF Walks
  <2> QED BY <1>3, <1>7, <2>2 DEF Walks
<1>9. Def(f) BY <1>7, <1>8 DEF Walks
<1>10. Def(F) BY <1>9 DEF F
<1>11. F[0] = <<>> /\ \A k \in 1 .. N : F[k] = Gone(F[k - 1], W[k])
  BY <1>3, <1>10
<1>12. \A k \in 0 .. N : F[k] \in T
  <2>1. \A k \in 1 .. N : F[k - 1] \in T => F[k] \in T BY <1>4, <1>11
  <2> QED BY <1>3, <1>5, <1>11, <2>1, Walking
<1>13. F \in [0 .. N -> T] BY <1>10, <1>12
<1>14. MeaningBy(F, C, W) BY <1>11, <1>13 DEF MeaningBy, N, T
<1> QED BY <1>1, <1>14 DEF W, N

\* A path without dots means its words.
LEMMA MeaningOfPlain ==
  ASSUME NEW C, NEW path \in Seq(C),
         \A k \in DOMAIN Words(path, "/") : Words(path, "/")[k] \notin Dots
  PROVE  Meaning(path) = Words(path, "/")
<1> DEFINE W == Words(path, "/")
           N == Len(W)
<1>1. PICK g : MeaningBy(g, C, W) /\ Meaning(path) = g[N] BY MeaningFn
<1>2. W \in Seq(Seq(C)) /\ \A k \in DOMAIN W : W[k] \notin Dots BY WordsNext
<1> HIDE DEF W
<1>3. N \in Nat /\ \A k \in 1 .. N : W[k] \notin Dots BY <1>2
<1> DEFINE S == {k \in Nat : k <= N => g[k] = SubSeq(W, 1, k)}
<1>4. 0 \in S
  <2>1. SubSeq(W, 1, 0) = <<>> BY SubSeqEmpty
  <2> QED BY <1>1, <2>1 DEF MeaningBy
<1>5. ASSUME NEW k \in Nat, k \in S PROVE k + 1 \in S
  <2>1. SUFFICES ASSUME k + 1 <= N PROVE g[k + 1] = SubSeq(W, 1, k + 1) OBVIOUS
  <2>2. k + 1 \in 1 .. N /\ (k + 1) - 1 = k /\ k <= N BY <1>3, <2>1
  <2>3. g[k] = SubSeq(W, 1, k) BY <1>5, <2>2
  <2>4. g[k + 1] = Gone(g[k], W[k + 1]) BY <1>1, <2>2 DEF MeaningBy
  <2>5. W[k + 1] \notin Dots BY <1>3, <2>2
  <2>6. g[k + 1] = Append(SubSeq(W, 1, k), W[k + 1]) BY <2>3, <2>4, <2>5 DEF Gone, Dots
  <2>7. SubSeq(W, 1, k + 1) = SubSeq(W, 1, k) \o <<W[k + 1]>>
    BY <1>2, <2>2, SubSeqRecursiveSecond
  <2> DEFINE v == SubSeq(W, 1, k)
             x == W[k + 1]
  <2>8. v \in Seq(Seq(C)) /\ x \in Seq(C)
    <3>1. k \in 0 .. Len(W) BY <1>3, <2>1
    <3> QED BY <1>2, <2>2, <3>1
  <2>9. g[k + 1] = Append(v, x) /\ SubSeq(W, 1, k + 1) = v \o <<x>> BY <2>6, <2>7
  <2> HIDE DEF v, x, S
  <2>10. Append(v, x) = v \o <<x>> BY <2>8, AppendIsConcat
  <2> QED BY <2>9, <2>10
<1> HIDE DEF S
<1>6. Nat \subseteq S BY <1>4, <1>5, Steps
<1>7. g[N] = SubSeq(W, 1, N) BY <1>3, <1>6 DEF S
<1>8. SubSeq(W, 1, N) = W BY <1>2, SubSeqFull
<1> QED BY <1>1, <1>7, <1>8 DEF W

\* e gives, for each number of words, what they take up at least with a separator in
\* front of each: no more than n characters.
Fills(e, words, n) ==
  /\ e \in [0 .. Len(words) -> 0 .. n] /\ e[0] = 0
  /\ \A k \in 1 .. Len(words) : e[k] >= e[k - 1] + 1 + Len(words[k])

Fits(words, n) == \E e : Fills(e, words, n)

LEMMA FitsMore ==
  ASSUME NEW words, NEW n \in Nat, NEW m \in Nat, n <= m, Fits(words, n) PROVE Fits(words, m)
<1>1. PICK e : Fills(e, words, n) BY DEF Fits
<1>2. 0 .. n \subseteq 0 .. m OBVIOUS
<1>3. Fills(e, words, m) BY <1>1, <1>2 DEF Fills
<1> QED BY <1>3 DEF Fits

LEMMA FitsOne ==
  ASSUME NEW C, NEW words \in Seq(Seq(C)), NEW n \in Nat, Fits(words, n), NEW x \in Seq(C),
         NEW m \in Nat, n + 1 + Len(x) <= m, NEW more, more = Append(words, x)
  PROVE  Fits(more, m)
<1> DEFINE N == Len(words)
<1>1. PICK e : Fills(e, words, n) BY DEF Fits
<1>2. N \in Nat /\ Len(x) \in Nat OBVIOUS
<1>3. more \in Seq(Seq(C)) /\ Len(more) = N + 1 /\ more[N + 1] = x
      /\ \A k \in 1 .. N : more[k] = words[k]
  BY AppendProperties
<1> HIDE DEF N
<1> DEFINE f == [k \in 0 .. N + 1 |-> IF k <= N THEN e[k] ELSE m]
<1>4. e \in [0 .. N -> 0 .. n] /\ e[0] = 0
      /\ \A k \in 1 .. N : e[k] >= e[k - 1] + 1 + Len(words[k])
  BY <1>1 DEF Fills, N
<1>5. \A k \in 0 .. N : f[k] = e[k] /\ f[k] \in 0 .. n BY <1>2, <1>4
<1>6. f[N + 1] = m BY <1>2
<1>7. f \in [0 .. N + 1 -> 0 .. m]
  <2>1. ASSUME NEW k \in 0 .. N + 1 PROVE f[k] \in 0 .. m
    <3>1. CASE k = N + 1 BY <1>6, <3>1
    <3>2. CASE k # N + 1
      <4>1. k \in 0 .. N BY <1>2, <3>2
      <4>2. f[k] \in 0 .. n BY <1>5, <4>1
      <4> HIDE DEF f
      <4> QED BY <1>2, <4>2
    <3> QED BY <3>1, <3>2
  <2> QED BY <2>1
<1> HIDE DEF f
<1>8. ASSUME NEW k \in 1 .. N + 1 PROVE f[k] >= f[k - 1] + 1 + Len(more[k])
  <2>1. CASE k = N + 1
    <3>1. N \in 0 .. N /\ k - 1 = N BY <1>2, <2>1
    <3>2. f[k - 1] \in 0 .. n BY <1>5, <3>1
    <3> QED BY <1>2, <1>3, <1>6, <2>1, <3>2
  <2>2. CASE k # N + 1
    <3>1. k \in 1 .. N /\ k \in 0 .. N /\ k - 1 \in 0 .. N BY <1>2, <2>2
    <3>2. f[k] = e[k] /\ f[k - 1] = e[k - 1] BY <1>5, <3>1
    <3> QED BY <1>3, <1>4, <3>1, <3>2
  <2> QED BY <2>1, <2>2
<1>9. Fills(f, more, m)
  <2>1. 0 \in 0 .. N BY <1>2
  <2> QED BY <1>3, <1>4, <1>5, <1>7, <1>8, <2>1 DEF Fills
<1> QED BY <1>9 DEF Fits

LEMMA FitsLonger ==
  ASSUME NEW C, NEW words \in Seq(Seq(C)), words # <<>>, NEW n \in Nat, Fits(words, n),
         NEW y \in Seq(C), Len(y) = Len(words[Len(words)]) + 1,
         NEW more, more = [words EXCEPT ![Len(words)] = y]
  PROVE  Fits(more, n + 1)
<1> DEFINE N == Len(words)
<1>1. PICK e : Fills(e, words, n) BY DEF Fits
<1>2. N \in Nat /\ N \in 1 .. N OBVIOUS
<1>3. words[N] \in Seq(C) BY <1>2
<1>4. Len(y) = Len(words[N]) + 1 OBVIOUS
<1>6. more \in Seq(Seq(C)) /\ Len(more) = N
      /\ \A k \in 1 .. N : more[k] = IF k = N THEN y ELSE words[k]
  BY <1>2, ExceptSeq
<1> HIDE DEF N
<1>7. e \in [0 .. N -> 0 .. n] /\ e[0] = 0
      /\ \A k \in 1 .. N : e[k] >= e[k - 1] + 1 + Len(words[k])
  BY <1>1 DEF Fills, N
<1> DEFINE f == [k \in 0 .. N |-> IF k = N THEN n + 1 ELSE e[k]]
<1>8. f \in [0 .. N -> 0 .. n + 1] BY <1>2, <1>7
<1>9. f[N] = n + 1 /\ \A k \in 0 .. N : k # N => f[k] = e[k] BY <1>2
<1> HIDE DEF f
<1>10. ASSUME NEW k \in 1 .. N PROVE f[k] >= f[k - 1] + 1 + Len(more[k])
  <2>1. k - 1 \in 0 .. N /\ k - 1 # N /\ k \in 0 .. N BY <1>2
  <2>2. f[k - 1] = e[k - 1] BY <1>9, <2>1
  <2>3. e[k] >= e[k - 1] + 1 + Len(words[k]) /\ e[k] \in 0 .. n /\ e[k - 1] \in 0 .. n
    BY <1>7, <2>1
  <2>4. CASE k = N
    <3>1. Len(more[k]) = Len(words[k]) + 1 BY <1>4, <1>6, <2>4
    <3>2. Len(words[k]) \in Nat BY <1>3, <2>4
    <3> QED BY <1>9, <2>2, <2>3, <2>4, <3>1, <3>2, SMTT(30)
  <2>5. CASE k # N
    <3>1. more[k] = words[k] /\ f[k] = e[k] BY <1>6, <1>9, <2>1, <2>5
    <3> QED BY <2>2, <2>3, <3>1
  <2> QED BY <2>4, <2>5
<1>11. Fills(f, more, n + 1)
  <2>1. 0 \in 0 .. N /\ 0 # N BY <1>2
  <2> QED BY <1>6, <1>7, <1>8, <1>9, <1>10, <2>1 DEF Fills
<1> QED BY <1>11 DEF Fits

\* The words of a text that begins with a separator are that much shorter than it.
LEMMA WordsFit ==
  ASSUME NEW C, NEW s \in Seq(C), NEW c, s # <<>>, s[1] = c
  PROVE  Fits(Words(s, c), Len(s))
<1> DEFINE w(n) == Words(SubSeq(s, 1, n), c)
           S == {n \in Nat : n + 1 <= Len(s) =>
                   /\ Fits(w(n + 1), IF s[n + 1] = c THEN n ELSE n + 1)
                   /\ s[n + 1] # c => w(n + 1) # <<>>}
<1>1. Len(s) \in Nat /\ 1 \in 1 .. Len(s) OBVIOUS
<1>2. \A n \in 1 .. Len(s) : w(n) = WordsOn(w(n - 1), s, c, n) BY WordsNext
<1>3. \A n \in 0 .. Len(s) : w(n) \in Seq(Seq(C))
  <2>1. \A n \in 0 .. Len(s) : SubSeq(s, 1, n) \in Seq(C) OBVIOUS
  <2> QED BY <2>1, WordsNext
<1>4. 0 \in S
  <2>1. w(0) = <<>>
    <3>1. SubSeq(s, 1, 0) = <<>> BY SubSeqEmpty
    <3> QED BY <3>1, WordsNext
  <2>2. w(1) = <<>>
    <3>1. w(1) = WordsOn(w(1 - 1), s, c, 1) BY <1>1, <1>2
    <3>2. WordsOn(w(1 - 1), s, c, 1) = w(1 - 1) BY DEF WordsOn
    <3> QED BY <2>1, <3>1, <3>2
  <2>3. Fits(<<>>, 0)
    <3>1. Fills([k \in 0 .. 0 |-> 0], <<>>, 0) BY DEF Fills
    <3> QED BY <3>1 DEF Fits
  <2> HIDE DEF w
  <2> QED BY <2>2, <2>3
<1>5. ASSUME NEW n \in Nat, n \in S PROVE n + 1 \in S
  <2> DEFINE i == n + 1
             j == i + 1
  <2>1. SUFFICES ASSUME j <= Len(s)
                 PROVE  /\ Fits(w(j), IF s[j] = c THEN i ELSE j)
                        /\ s[j] # c => w(j) # <<>>
    OBVIOUS
  <2>2. i \in 1 .. Len(s) /\ j \in 1 .. Len(s) /\ j - 1 = i /\ j # 1 BY <1>1, <2>1
  <2>3. Fits(w(i), IF s[i] = c THEN n ELSE i) /\ (s[i] # c => w(i) # <<>>)
    BY <1>1, <1>5, <2>2
  <2>4. w(j) = WordsOn(w(i), s, c, j) BY <1>2, <2>2
  <2>5. w(i) \in Seq(Seq(C)) /\ s[j] \in C BY <1>3, <2>2
  <2> HIDE DEF w, S
  <2>6. CASE s[j] = c
    <3>1. w(j) = w(i) BY <2>4, <2>6 DEF WordsOn
    <3>2. Fits(w(i), i) BY <2>3, FitsMore
    <3> QED BY <2>6, <3>1, <3>2
  <2>7. CASE s[j] # c /\ s[i] = c
    <3>1. w(j) = Append(w(i), <<s[j]>>) BY <2>2, <2>4, <2>7 DEF WordsOn
    <3>2. <<s[j]>> \in Seq(C) /\ Len(<<s[j]>>) = 1 BY <2>5
    <3>3. Fits(w(i), n) BY <2>3, <2>7
    <3>4. Fits(w(j), j)
      <4> DEFINE x == <<s[j]>>
      <4>1. x \in Seq(C) /\ n + 1 + Len(x) <= j /\ j \in Nat BY <3>2
      <4>2. w(j) = Append(w(i), x) BY <3>1
      <4> HIDE DEF x
      <4> QED BY <2>5, <3>3, <4>1, <4>2, FitsOne
    <3>5. w(j) # <<>> BY <2>5, <3>1, <3>2
    <3> QED BY <2>7, <3>4, <3>5
  <2>8. CASE s[j] # c /\ s[i] # c
    <3>1. w(j) = [w(i) EXCEPT ![Len(w(i))] = Append(@, s[j])] BY <2>2, <2>4, <2>8 DEF WordsOn
    <3>2. w(i) # <<>> /\ Fits(w(i), i) BY <2>3, <2>8
    <3>3. i \in Nat OBVIOUS
    <3>4. Fits(w(j), j)
      <4> DEFINE v == w(i)
                 y == Append(v[Len(v)], s[j])
      <4>1. v \in Seq(Seq(C)) /\ v # <<>> /\ Fits(v, i) BY <2>5, <3>2
      <4>2. w(j) = [v EXCEPT ![Len(v)] = y] BY <3>1
      <4> HIDE DEF v, i
      <4>3. v[Len(v)] \in Seq(C) BY <4>1
      <4>4. y \in Seq(C) /\ Len(y) = Len(v[Len(v)]) + 1 BY <2>5, <4>3, AppendProperties
      <4> HIDE DEF y
      <4>5. Fits(w(j), i + 1) BY <3>3, <4>1, <4>2, <4>4, FitsLonger
      <4> QED BY <4>5
    <3>5. w(j) # <<>> BY <2>5, <3>1, <3>2
    <3> QED BY <2>8, <3>4, <3>5
  <2> QED BY <2>6, <2>7, <2>8
<1> HIDE DEF S
<1>6. Nat \subseteq S BY <1>4, <1>5, Steps
<1>7. Len(s) - 1 \in Nat /\ (Len(s) - 1) + 1 = Len(s) BY <1>1
<1>8. Fits(w(Len(s)), IF s[Len(s)] = c THEN Len(s) - 1 ELSE Len(s)) BY <1>6, <1>7 DEF S
<1>9. w(Len(s)) = Words(s, c)
  <2>1. SubSeq(s, 1, Len(s)) = s BY SubSeqFull
  <2> QED BY <2>1
<1> HIDE DEF w
<1> QED BY <1>7, <1>8, <1>9, FitsMore

LEMMA CanonStateIs ==
  ASSUME NEW C, NEW s \in CanonState(C)
  PROVE  /\ s.out \in Seq(C) /\ s.starts \in Seq(Nat)
         /\ Len(s.out) \in Nat /\ Len(s.starts) \in Nat
         /\ Words(s.out, "/") \in Seq(Seq(C)) /\ Len(Words(s.out, "/")) = Len(s.starts)
<1>1. s.out \in Seq(C) /\ s.starts \in Seq(Nat) BY DEF CanonState
<1>2. Words(s.out, "/") \in Seq(Seq(C)) BY <1>1, WordsNext
<1>3. Len(Words(s.out, "/")) = Len(s.starts) BY DEF CanonState
<1> QED BY <1>1, <1>2, <1>3

LEMMA RunIsText ==
  ASSUME NEW C, NEW c, NEW max, NEW part \in Runs(C, c, max)
  PROVE  part \in Seq(C) /\ Len(part) \in Nat
BY DEF Runs

\* One component: the path that is held and the place that is meant go on together,
\* if there is room for the component.
LEMMA WalkedMeans ==
  ASSUME NEW C, "/" \in C, NEW s \in CanonState(C), NEW max, NEW part \in Runs(C, "/", max),
         Room(s, part)
  PROVE  /\ Words(Walked(s, part).out, "/") = Gone(Words(s.out, "/"), part)
         /\ Len(Walked(s, part).out) <= Len(s.out) + 1 + Len(part)
<1>1. /\ s.out \in Seq(C) /\ s.starts \in Seq(Nat) /\ Len(s.out) \in Nat
      /\ Words(s.out, "/") \in Seq(Seq(C)) /\ Len(Words(s.out, "/")) = Len(s.starts)
      /\ Len(part) \in Nat
  BY CanonStateIs, RunIsText
<1>2. CASE part = <<".">> BY <1>1, <1>2 DEF Walked, Gone
<1>3. CASE part = <<".", ".">>
  <2>1. part # <<".">> BY <1>3
  <2>2. Walked(s, part) = Popped(s) BY <1>3, <2>1 DEF Walked
  <2>3. Gone(Words(s.out, "/"), part)
          = IF Words(s.out, "/") = <<>> THEN Words(s.out, "/") ELSE Front(Words(s.out, "/"))
    BY <1>3, <2>1 DEF Gone
  <2>4. s.starts = <<>> <=> Words(s.out, "/") = <<>> BY <1>1
  <2>5. CASE s.starts = <<>>
    <3>1. Popped(s) = s BY <2>5 DEF Popped
    <3> QED BY <1>1, <2>2, <2>3, <2>4, <2>5, <3>1
  <2>6. CASE s.starts # <<>>
    <3>1. /\ Words(Popped(s).out, "/") = Front(Words(s.out, "/"))
          /\ Len(Popped(s).out) <= Len(s.out) /\ Popped(s) \in CanonState(C)
      BY <2>6, PoppedIs
    <3>2. Len(Popped(s).out) \in Nat BY <3>1, CanonStateIs
    <3>3. Len(Popped(s).out) <= Len(s.out) + 1 + Len(part) BY <1>1, <3>1, <3>2
    <3> QED BY <2>2, <2>3, <2>4, <2>6, <3>1, <3>3
  <2> QED BY <2>5, <2>6
<1>4. CASE part \notin Dots
  <2>1. Walked(s, part) = Pushed(s, part) BY <1>4 DEF Walked, Dots
  <2>2. Gone(Words(s.out, "/"), part) = Append(Words(s.out, "/"), part)
    BY <1>4 DEF Gone, Dots
  <2> QED BY <1>4, <2>1, <2>2, PushedIs
<1> QED BY <1>2, <1>3, <1>4 DEF Dots

\* shell_canon_path leads where its argument does, if that is short enough.
LEMMA CanonMeaning ==
  ASSUME NEW C, "/" \in C, Nul \notin C, NEW tmp \in Seq(C), tmp # <<>>, tmp[1] = "/",
         Len(tmp) + 2 < PathMax, Len(Words(tmp, "/")) <= CompMax
  PROVE  Meaning(Canon(tmp)) = Meaning(tmp)
<1> DEFINE W == Words(tmp, "/")
           N == Len(W)
           L == Len(tmp)
<1>1. Split(tmp, "/", L) = W
  <2>1. Len(tmp) \in Nat /\ Len(tmp) <= Len(tmp) OBVIOUS
  <2>2. "/" \in STRING BY LiteralAssumption
  <2> QED BY <2>1, <2>2, SplitWords
<1>2. W \in Seq(Runs(C, "/", L)) BY <1>1, PartsType
<1>3. PICK f : CanonBy(f, C, W) /\ Canon(tmp) = f[N].out BY <1>1, CanonFn
<1>4. PICK g : MeaningBy(g, C, W) /\ Meaning(tmp) = g[N] BY MeaningFn
<1>5. PICK e : Fills(e, W, L) BY WordsFit DEF Fits
<1>6. L \in Nat /\ N \in Nat /\ N <= CompMax /\ L + 2 < PathMax
      /\ PathMax \in Nat /\ CompMax \in Nat
  BY <1>2, PathsAssumption
<1> HIDE DEF W, L
<1>7. /\ \A k \in 0 .. N : f[k] \in CanonState(C) /\ e[k] \in 0 .. L
      /\ f[0] = Start /\ g[0] = <<>> /\ e[0] = 0
      /\ \A k \in 1 .. N : /\ f[k] = Walked(f[k - 1], W[k]) /\ g[k] = Gone(g[k - 1], W[k])
                           /\ e[k] >= e[k - 1] + 1 + Len(W[k])
                           /\ W[k] \in Runs(C, "/", L)
  <2>1. f \in [0 .. N -> CanonState(C)] /\ f[0] = Start
        /\ \A k \in 1 .. N : f[k] = Walked(f[k - 1], W[k])
    BY <1>3 DEF CanonBy
  <2>2. g[0] = <<>> /\ \A k \in 1 .. N : g[k] = Gone(g[k - 1], W[k])
    BY <1>4 DEF MeaningBy
  <2>3. e \in [0 .. N -> 0 .. L] /\ e[0] = 0
        /\ \A k \in 1 .. N : e[k] >= e[k - 1] + 1 + Len(W[k])
    BY <1>5 DEF Fills
  <2>4. \A k \in 1 .. N : W[k] \in Runs(C, "/", L) BY <1>2
  <2>5. \A k \in 0 .. N : f[k] \in CanonState(C) /\ e[k] \in 0 .. L BY <2>1, <2>3
  <2> HIDE DEF N
  <2> QED BY <2>1, <2>2, <2>3, <2>4, <2>5
<1> HIDE DEF N
<1> DEFINE S == {k \in Nat : k <= N =>
                   /\ Words(f[k].out, "/") = g[k] /\ Len(g[k]) <= k
                   /\ Len(f[k].out) <= 1 + e[k]}
<1>8. 0 \in S
  <2>1. Words(f[0].out, "/") = <<>> BY <1>7, StartIs
  <2>2. Len(Start.out) = 1 BY DEF Start
  <2>3. Len(f[0].out) <= 1 + e[0] BY <1>7, <2>2
  <2>4. Len(<<>>) <= 0 OBVIOUS
  <2> QED BY <1>7, <2>1, <2>3, <2>4
<1>9. ASSUME NEW k \in Nat, k \in S PROVE k + 1 \in S
  <2> DEFINE s == f[k]
             part == W[k + 1]
  <2>1. SUFFICES ASSUME k + 1 <= N
                 PROVE  /\ Words(f[k + 1].out, "/") = g[k + 1] /\ Len(g[k + 1]) <= k + 1
                        /\ Len(f[k + 1].out) <= 1 + e[k + 1]
    OBVIOUS
  <2>2. k + 1 \in 1 .. N /\ (k + 1) - 1 = k /\ k \in 0 .. N /\ k + 1 \in 0 .. N BY <1>6, <2>1
  <2>3. Words(s.out, "/") = g[k] /\ Len(g[k]) <= k /\ Len(s.out) <= 1 + e[k] BY <1>9, <2>2
  <2>4. /\ f[k + 1] = Walked(s, part) /\ g[k + 1] = Gone(g[k], part)
        /\ e[k + 1] >= e[k] + 1 + Len(part) /\ part \in Runs(C, "/", L)
        /\ s \in CanonState(C) /\ e[k] \in 0 .. L /\ e[k + 1] \in 0 .. L
    <3>1. \A n \in 1 .. N : /\ f[n] = Walked(f[n - 1], W[n]) /\ g[n] = Gone(g[n - 1], W[n])
                            /\ e[n] >= e[n - 1] + 1 + Len(W[n])
                            /\ W[n] \in Runs(C, "/", L)
      BY <1>7
    <3>2. /\ f[k + 1] = Walked(f[(k + 1) - 1], W[k + 1])
          /\ g[k + 1] = Gone(g[(k + 1) - 1], W[k + 1])
          /\ e[k + 1] >= e[(k + 1) - 1] + 1 + Len(W[k + 1])
          /\ W[k + 1] \in Runs(C, "/", L)
      BY <2>2, <3>1, Zenon
    <3> QED BY <1>7, <2>2, <3>2
  <2> HIDE DEF s, part, S
  <2>5. s.out \in Seq(C) /\ Len(s.out) \in Nat /\ Len(part) \in Nat /\ part \in Seq(C)
        /\ Words(s.out, "/") \in Seq(Seq(C)) /\ Len(Words(s.out, "/")) = Len(s.starts)
    <3>1. part \in Seq(C) /\ Len(part) \in Nat BY <2>4, RunIsText
    <3>2. s.out \in Seq(C) /\ Len(s.out) \in Nat
          /\ Words(s.out, "/") \in Seq(Seq(C)) /\ Len(Words(s.out, "/")) = Len(s.starts)
      BY <2>4, CanonStateIs
    <3> QED BY <3>1, <3>2
  <2>6. Room(s, part)
    <3>1. Len(s.starts) < CompMax BY <1>6, <2>1, <2>3, <2>5
    <3>2. Len(s.out) + 1 + Len(part) + 1 < PathMax BY <1>6, <2>3, <2>4, <2>5, SMTT(30)
    <3> QED BY <3>1, <3>2 DEF Room
  <2>7. /\ Words(Walked(s, part).out, "/") = Gone(Words(s.out, "/"), part)
        /\ Len(Walked(s, part).out) <= Len(s.out) + 1 + Len(part)
    BY <2>4, <2>6, WalkedMeans
  <2>8. Gone(g[k], part) \in Seq(Seq(C)) /\ Len(Gone(g[k], part)) <= Len(g[k]) + 1
    BY <2>3, <2>5, GoneType
  <2>9. Len(g[k + 1]) <= k + 1
    <3>1. Len(g[k]) \in Nat /\ Len(g[k + 1]) \in Nat BY <2>3, <2>4, <2>5, <2>8
    <3> QED BY <2>3, <2>4, <2>8, <3>1
  <2>10. Len(f[k + 1].out) <= 1 + e[k + 1]
    <3>1. Walked(s, part) \in CanonState(C) BY <2>4, WalkedIs
    <3>2. Len(Walked(s, part).out) \in Nat BY <3>1, CanonStateIs
    <3> DEFINE a == Len(Walked(s, part).out)
               b == Len(s.out)
               d == Len(part)
               x == e[k]
               y == e[k + 1]
    <3>3. /\ a \in Nat /\ b \in Nat /\ d \in Nat /\ x \in Nat /\ y \in Nat
          /\ a <= b + 1 + d /\ b <= 1 + x /\ y >= x + 1 + d
      BY <1>6, <2>3, <2>4, <2>5, <2>7, <3>2, SMTT(30)
    <3> HIDE DEF a, b, d, x, y
    <3>4. a <= 1 + y BY <3>3
    <3> QED BY <2>4, <3>4 DEF a, y
  <2> QED BY <2>3, <2>4, <2>7, <2>9, <2>10
<1> HIDE DEF S
<1>10. Nat \subseteq S BY <1>8, <1>9, Steps
<1>11. Words(f[N].out, "/") = g[N] BY <1>6, <1>10 DEF S
<1>12. Meaning(Canon(tmp)) = Words(Canon(tmp), "/") BY CanonShape, MeaningOfPlain
<1> QED BY <1>3, <1>4, <1>11, <1>12

-------------------------------------------------------------------------------
\* What vsnprintf puts for the conversion at place i, and where it goes on.
Put(format, args, i, a) ==
  CASE format[i + 1] = "%" -> <<"%">>
    [] format[i + 1] = "s" -> args[a]
    [] format[i + 1] = "c" -> <<args[a]>>
    [] format[i + 1] = "d" -> BufPutInt(args[a])
    [] format[i + 1] = "u" -> U64ToBase(args[a], 10, FALSE)
    [] format[i + 1] = "x" -> U64ToBase(args[a], 16, FALSE)
    [] OTHER -> <<"%", format[i + 1]>>

PutNext(format, i, a) ==
  <<i + 2, IF format[i + 1] \in {"s", "c", "d", "u", "x"} THEN a + 1 ELSE a>>

\* What it puts from a place on, from what f gives for those that follow.
PutFrom(f, format, args, at) ==
  IF at[1] > Len(format) THEN <<>>
  ELSE IF format[at[1]] # "%" THEN <<format[at[1]]>> \o f[<<at[1] + 1, at[2]>>]
  ELSE Put(format, args, at[1], at[2]) \o f[PutNext(format, at[1], at[2])]

Places == Nat \X Nat

PutBy(f, format, args) == \A at \in Places : f[at] = PutFrom(f, format, args, at)

LEMMA PutDepends ==
  ASSUME NEW format, Len(format) \in Nat, NEW args, NEW f, NEW g, NEW at \in Places,
         \A x \in Places : x[1] > at[1] => f[x] = g[x]
  PROVE  PutFrom(f, format, args, at) = PutFrom(g, format, args, at)
<1>1. PICK i \in Nat, a \in Nat : at = <<i, a>> BY DEF Places
<1>2. at[1] = i /\ at[2] = a BY <1>1
<1>3. <<i + 1, a>> \in Places /\ <<i + 1, a>>[1] > at[1] BY <1>2 DEF Places
<1>4. PutNext(format, i, a) \in Places /\ PutNext(format, i, a)[1] > at[1]
  BY <1>2 DEF Places, PutNext
<1>5. f[<<i + 1, a>>] = g[<<i + 1, a>>] BY <1>3
<1>6. f[PutNext(format, i, a)] = g[PutNext(format, i, a)] BY <1>4
<1> QED BY <1>2, <1>5, <1>6 DEF PutFrom

LEMMA VsprintfFn ==
  ASSUME NEW format, Len(format) \in Nat, NEW args
  PROVE  \E f : PutBy(f, format, args) /\ Vsprintf(format, args) = f[<<1, 1>>]
<1> DEFINE N == Len(format)
           Def(f) == f = [at \in Places |-> PutFrom(f, format, args, at)]
           F == CHOOSE f : Def(f)
           Level(f, n) == /\ f = [at \in Places |-> f[at]]
                          /\ \A at \in Places : at[1] + n > N =>
                               f[at] = PutFrom(f, format, args, at)
           S == {n \in Nat : \E f : Level(f, n)}
<1>1. Vsprintf(format, args) = F[<<1, 1>>]
  BY DEF Vsprintf, PutFrom, Put, PutNext, Places
<1> HIDE DEF F
<1>2. \A at \in Places : at[1] \in Nat BY DEF Places
<1>3. 0 \in S
  <2> DEFINE f == [at \in Places |-> <<>>]
  <2>1. \A at \in Places : at[1] + 0 > N => PutFrom(f, format, args, at) = <<>>
    BY <1>2 DEF PutFrom
  <2>2. Level(f, 0) BY <2>1
  <2> HIDE DEF f, Level
  <2> QED BY <2>2
<1>4. ASSUME NEW n \in Nat, n \in S PROVE n + 1 \in S
  <2>1. PICK f : Level(f, n) BY <1>4
  <2> DEFINE g == [at \in Places |-> PutFrom(f, format, args, at)]
  <2>2. \A at \in Places : at[1] + n > N => f[at] = g[at] BY <2>1
  <2>3. ASSUME NEW at \in Places, at[1] + (n + 1) > N
        PROVE  g[at] = PutFrom(g, format, args, at)
    <3>1. \A x \in Places : x[1] > at[1] => f[x] = g[x]
      <4>1. SUFFICES ASSUME NEW x \in Places, x[1] > at[1] PROVE f[x] = g[x] OBVIOUS
      <4>2. x[1] + n > N BY <1>2, <2>3, <4>1
      <4> QED BY <2>2, <4>2
    <3> HIDE DEF g
    <3>2. PutFrom(f, format, args, at) = PutFrom(g, format, args, at) BY <3>1, PutDepends
    <3> QED BY <3>2 DEF g
  <2>4. g = [at \in Places |-> g[at]] OBVIOUS
  <2> HIDE DEF g
  <2>5. Level(g, n + 1) BY <2>3, <2>4
  <2> HIDE DEF Level
  <2> QED BY <2>5
<1> HIDE DEF S
<1>5. Nat \subseteq S BY <1>3, <1>4, Steps
<1>6. PICK f : Level(f, N + 1) BY <1>5 DEF S
<1>7. \A at \in Places : at[1] + (N + 1) > N BY <1>2
<1>8. \A at \in Places : f[at] = PutFrom(f, format, args, at) BY <1>6, <1>7
<1>9. Def(f) BY <1>6, <1>8
<1>10. Def(F) BY <1>9 DEF F
<1>11. PutBy(F, format, args)
  <2> DEFINE h == [at \in Places |-> PutFrom(F, format, args, at)]
  <2>1. F = h BY <1>10
  <2>2. \A at \in Places : h[at] = PutFrom(F, format, args, at) OBVIOUS
  <2> HIDE DEF h
  <2> QED BY <2>1, <2>2 DEF PutBy
<1> QED BY <1>1, <1>11

\* From place i with argument a it puts v and goes on at j with b.
PutStep(f, i, a, v, j, b) == f[<<i, a>>] = v \o f[<<j, b>>]

LEMMA PutChar ==
  ASSUME NEW format, NEW args, NEW f, PutBy(f, format, args), Len(format) \in Nat,
         NEW i \in 1 .. Len(format), NEW a \in Nat, NEW c, format[i] = c, c # "%",
         NEW j, j = i + 1
  PROVE  PutStep(f, i, a, <<c>>, j, a)
<1> DEFINE at == <<i, a>>
<1>1. at \in Places /\ at[1] = i /\ at[2] = a BY DEF Places
<1>2. ~(i > Len(format)) OBVIOUS
<1> HIDE DEF at
<1>3. f[at] = PutFrom(f, format, args, at) BY <1>1 DEF PutBy
<1>4. f[at] = <<c>> \o f[<<i + 1, a>>] BY <1>1, <1>2, <1>3 DEF PutFrom
<1> QED BY <1>4 DEF at, PutStep

LEMMA PutConversion ==
  ASSUME NEW format, NEW args, NEW f, PutBy(f, format, args), Len(format) \in Nat,
         NEW i \in 1 .. Len(format), NEW a \in Nat, format[i] = "%",
         NEW v, Put(format, args, i, a) = v,
         NEW j, NEW b, PutNext(format, i, a) = <<j, b>>
  PROVE  PutStep(f, i, a, v, j, b)
<1> DEFINE at == <<i, a>>
<1>1. at \in Places /\ at[1] = i /\ at[2] = a BY DEF Places
<1>2. ~(i > Len(format)) OBVIOUS
<1> HIDE DEF at
<1>3. f[at] = PutFrom(f, format, args, at) BY <1>1 DEF PutBy
<1>4. f[at] = v \o f[<<j, b>>] BY <1>1, <1>2, <1>3 DEF PutFrom
<1> QED BY <1>4 DEF at, PutStep

LEMMA PutText ==
  ASSUME NEW format, NEW args, NEW f, PutBy(f, format, args), Len(format) \in Nat,
         NEW i \in 1 .. Len(format), NEW a \in Nat, format[i] = "%", format[i + 1] = "s",
         NEW j, j = i + 2, NEW b, b = a + 1
  PROVE  PutStep(f, i, a, args[a], j, b)
<1>1. "s" # "%" OBVIOUS
<1>2. Put(format, args, i, a) = args[a] BY <1>1 DEF Put
<1>3. PutNext(format, i, a) = <<j, b>> BY DEF PutNext
<1> QED BY <1>2, <1>3, PutConversion

LEMMA PutLast ==
  ASSUME NEW format, NEW args, NEW f, PutBy(f, format, args), Len(format) \in Nat,
         NEW i \in Nat, i > Len(format), NEW a \in Nat
  PROVE  f[<<i, a>>] = <<>>
<1> DEFINE at == <<i, a>>
<1>1. at \in Places /\ at[1] = i BY DEF Places
<1> HIDE DEF at
<1>2. f[at] = PutFrom(f, format, args, at) BY <1>1 DEF PutBy
<1> QED BY <1>1, <1>2 DEF PutFrom, at

\* cwd goes in front of a relative path, with a slash between them.
LEMMA JoinedIs ==
  ASSUME NEW C, "/" \in C, NEW cwd \in Seq(C), NEW in \in Seq(C)
  PROVE  Joined(cwd, in) = IF in[1] = "/" THEN in
                           ELSE IF cwd = <<"/">> THEN <<"/">> \o in
                           ELSE cwd \o (<<"/">> \o in)
<1>1. in \o <<>> = in BY ConcatEmptySeq
<1>2. Vsprintf(<<"/", "%", "s">>, <<in>>) = <<"/">> \o in
  <2> DEFINE format == <<"/", "%", "s">>
             args == <<in>>
  <2>1. /\ Len(format) = 3 /\ format[1] = "/" /\ format[2] = "%" /\ format[2 + 1] = "s"
        /\ args[1] = in /\ "/" # "%"
    OBVIOUS
  <2> HIDE DEF format, args
  <2>2. Len(format) \in Nat /\ 1 \in 1 .. Len(format) /\ 2 \in 1 .. Len(format)
        /\ 4 \in Nat /\ 4 > Len(format) /\ 1 \in Nat /\ 2 \in Nat
        /\ 2 = 1 + 1 /\ 4 = 2 + 2
    BY <2>1
  <2>3. PICK f : PutBy(f, format, args) /\ Vsprintf(format, args) = f[<<1, 1>>]
    BY <2>2, VsprintfFn
  <2>4. PutStep(f, 1, 1, <<"/">>, 2, 1) BY <2>1, <2>2, <2>3, PutChar
  <2>5. PutStep(f, 2, 1, args[1], 4, 2) BY <2>1, <2>2, <2>3, PutText
  <2>6. f[<<4, 2>>] = <<>> BY <2>2, <2>3, PutLast
  <2>7. f[<<2, 1>>] = in BY <1>1, <2>1, <2>5, <2>6 DEF PutStep
  <2> QED BY <2>3, <2>4, <2>7 DEF PutStep, format, args
<1>3. Vsprintf(<<"%", "s", "/", "%", "s">>, <<cwd, in>>) = cwd \o (<<"/">> \o in)
  <2> DEFINE format == <<"%", "s", "/", "%", "s">>
             args == <<cwd, in>>
  <2>1. /\ Len(format) = 5 /\ format[1] = "%" /\ format[1 + 1] = "s" /\ format[3] = "/"
        /\ format[4] = "%" /\ format[4 + 1] = "s" /\ args[1] = cwd /\ args[2] = in
        /\ "/" # "%"
    OBVIOUS
  <2> HIDE DEF format, args
  <2>2. Len(format) \in Nat /\ 1 \in 1 .. Len(format) /\ 3 \in 1 .. Len(format)
        /\ 4 \in 1 .. Len(format) /\ 6 \in Nat /\ 6 > Len(format)
        /\ 1 \in Nat /\ 2 \in Nat /\ 3 \in Nat
        /\ 3 = 1 + 2 /\ 2 = 1 + 1 /\ 4 = 3 + 1 /\ 6 = 4 + 2 /\ 3 = 2 + 1
    BY <2>1
  <2>3. PICK f : PutBy(f, format, args) /\ Vsprintf(format, args) = f[<<1, 1>>]
    BY <2>2, VsprintfFn
  <2>4. PutStep(f, 1, 1, args[1], 3, 2) BY <2>1, <2>2, <2>3, PutText
  <2>5. PutStep(f, 3, 2, <<"/">>, 4, 2) BY <2>1, <2>2, <2>3, PutChar
  <2>6. PutStep(f, 4, 2, args[2], 6, 3) BY <2>1, <2>2, <2>3, PutText
  <2>7. f[<<6, 3>>] = <<>> BY <2>2, <2>3, PutLast
  <2>8. f[<<4, 2>>] = in BY <1>1, <2>1, <2>6, <2>7 DEF PutStep
  <2> QED BY <2>1, <2>3, <2>4, <2>5, <2>8 DEF PutStep, format, args
<1> QED BY <1>2, <1>3 DEF Joined

LEMMA JoinedType ==
  ASSUME NEW C, "/" \in C, NEW cwd \in Seq(C), NEW in \in Seq(C)
  PROVE  Joined(cwd, in) \in Seq(C)
<1>1. <<"/">> \in Seq(C) BY OneLong
<1>2. <<"/">> \o in \in Seq(C) BY <1>1, ConcatProperties
<1> DEFINE t == <<"/">> \o in
<1>3. t \in Seq(C) BY <1>2
<1> HIDE DEF t
<1>4. cwd \o t \in Seq(C) BY <1>3, ConcatProperties
<1> QED BY <1>2, <1>4, JoinedIs DEF t

\* It is absolute where cwd is.
LEMMA JoinedAbsolute ==
  ASSUME NEW C, "/" \in C, NEW cwd \in Seq(C), cwd # <<>>, cwd[1] = "/", NEW in \in Seq(C)
  PROVE  Joined(cwd, in)[1] = "/"
<1> DEFINE t == <<"/">> \o in
<1>1. <<"/">> \in Seq(C) BY OneLong
<1>2. t \in Seq(C) /\ t[1] = "/" BY <1>1, ConcatProperties
<1>3. Joined(cwd, in) = IF in[1] = "/" THEN in ELSE IF cwd = <<"/">> THEN t ELSE cwd \o t
  BY JoinedIs
<1> HIDE DEF t
<1>4. (cwd \o t)[1] = "/"
  <2>1. 1 \in 1 .. Len(cwd) + Len(t) /\ 1 <= Len(cwd) BY <1>2
  <2> QED BY <1>2, <2>1, ConcatProperties
<1> QED BY <1>2, <1>3, <1>4

-------------------------------------------------------------------------------
\* Where vsnprintf's terminator is: behind the text, or behind the buffer.
EndIn(size, text) == IF Len(text) < size THEN Len(text) ELSE size

\* What the buffer holds before it: the text, and in a full buffer a last byte that
\* was never written.
LEMMA BufferIs ==
  ASSUME NEW C, Nul \notin C, Garbage \notin C, NEW text \in Seq(C), NEW size \in Nat \ {0}
  PROVE  LET buf == Snprintf(size, text)
             n == EndIn(size, text)
         IN  /\ n \in 0 .. size /\ DOMAIN buf = 0 .. size /\ buf[n] = Nul
             /\ \A k \in 0 .. n - 1 : /\ buf[k] = IF k = size - 1 THEN Garbage ELSE text[k + 1]
                                      /\ buf[k] # Nul
                                      /\ buf[k] = Garbage <=> k = size - 1
                                      /\ k # size - 1 => buf[k] \in C
<1> DEFINE buf == Snprintf(size, text)
           n == EndIn(size, text)
           L == Len(text)
<1>1. L \in Nat /\ size \in Nat OBVIOUS
<1>2. \A k \in 0 .. size :
        buf[k] = IF k < L /\ k < size - 1 THEN text[k + 1]
                 ELSE IF k = L /\ L < size THEN Nul
                 ELSE IF k = size /\ L >= size THEN Nul
                 ELSE Garbage
  BY DEF Snprintf
<1>3. DOMAIN buf = 0 .. size BY DEF Snprintf
<1>4. n = IF L < size THEN L ELSE size BY DEF EndIn
<1>5. \A k \in 1 .. L : text[k] \in C OBVIOUS
<1> HIDE DEF L, buf, n
<1>6. n \in 0 .. size /\ buf[n] = Nul BY <1>1, <1>2, <1>4
<1>7. ASSUME NEW k \in 0 .. n - 1
      PROVE  /\ buf[k] = IF k = size - 1 THEN Garbage ELSE text[k + 1]
             /\ buf[k] # Nul
             /\ buf[k] = Garbage <=> k = size - 1
             /\ k # size - 1 => buf[k] \in C
  <2>1. k \in 0 .. size /\ k < L /\ k # size BY <1>1, <1>4, <1>6
  <2>2. CASE k = size - 1
    <3>1. ~(k < size - 1) /\ k # L BY <1>1, <2>1, <2>2
    <3>2. buf[k] = Garbage BY <1>2, <2>1, <3>1
    <3> QED BY <2>2, <3>2, CharAssumption
  <2>3. CASE k # size - 1
    <3>1. k < size - 1 /\ k + 1 \in 1 .. L BY <1>1, <2>1, <2>3
    <3>2. buf[k] = text[k + 1] BY <1>2, <2>1, <3>1
    <3>3. text[k + 1] \in C BY <1>5, <3>1
    <3> QED BY <2>3, <3>2, <3>3
  <2> QED BY <2>2, <2>3
<1> QED BY <1>3, <1>6, <1>7 DEF buf, n

\* What such a buffer may be read as: a text that fits; else a text of the same
\* beginning.
LEMMA CStringsIs ==
  ASSUME NEW C, Nul \notin C, Garbage \notin C, PathChars \subseteq C,
         NEW text \in Seq(C), NEW size \in Nat \ {0, 1},
         NEW tmp \in CStrings(Snprintf(size, text))
  PROVE  /\ tmp \in Seq(C)
         /\ Len(text) < size => tmp = text
         /\ text # <<>> => tmp # <<>> /\ tmp[1] = text[1]
<1> DEFINE buf == Snprintf(size, text)
           n == EndIn(size, text)
           end == CHOOSE m \in DOMAIN buf : buf[m] = Nul /\ \A k \in 0 .. m - 1 : buf[k] # Nul
           holes == {k \in 0 .. end - 1 : buf[k] = Garbage}
           whole(fill) == [k \in 1 .. end |-> IF k - 1 \in holes THEN fill[k - 1] ELSE buf[k - 1]]
           cut(fill) == {m \in holes : fill[m] = Nul}
           cutAt(fill) == CHOOSE m \in cut(fill) : \A o \in cut(fill) : m <= o
           read(fill) == IF cut(fill) = {} THEN whole(fill) ELSE SubSeq(whole(fill), 1, cutAt(fill))
           fills == [holes -> PathChars \union {Nul}]
<1>1. CStrings(buf) = {read(fill) : fill \in fills} BY DEF CStrings
<1>2. /\ n \in 0 .. size /\ DOMAIN buf = 0 .. size /\ buf[n] = Nul
      /\ \A k \in 0 .. n - 1 : /\ buf[k] = IF k = size - 1 THEN Garbage ELSE text[k + 1]
                               /\ buf[k] # Nul
                               /\ buf[k] = Garbage <=> k = size - 1
                               /\ k # size - 1 => buf[k] \in C
  BY BufferIs
<1>3. Len(text) \in Nat /\ n = IF Len(text) < size THEN Len(text) ELSE size BY DEF EndIn
<1>a. tmp \in CStrings(buf) OBVIOUS
<1>4. end = n
  <2>1. end \in DOMAIN buf /\ buf[end] = Nul /\ \A k \in 0 .. end - 1 : buf[k] # Nul BY <1>2
  <2> HIDE DEF end, buf, n
  <2>2. ~(n \in 0 .. end - 1) /\ ~(end \in 0 .. n - 1) BY <1>2, <2>1
  <2> QED BY <1>2, <2>1, <2>2
<1> HIDE DEF n, end, buf
<1>5. PICK fill \in fills : tmp = read(fill)
  <2> HIDE DEF holes, read, fills
  <2> QED BY <1>1, <1>a
<1>b. tmp = IF cut(fill) = {} THEN whole(fill) ELSE SubSeq(whole(fill), 1, cutAt(fill))
  BY <1>5
<1> HIDE DEF read, cutAt
<1>6. holes = {k \in 0 .. n - 1 : k = size - 1} BY <1>2, <1>4
<1> DEFINE w == whole(fill)
<1>7. w = [k \in 1 .. n |-> IF k - 1 = size - 1 THEN fill[k - 1] ELSE buf[k - 1]]
  <2>1. \A k \in 1 .. n : k - 1 \in holes <=> k - 1 = size - 1 BY <1>2, <1>6
  <2> QED BY <1>4, <2>1
<1>8. CASE Len(text) < size
  <2>1. holes = {} BY <1>2, <1>3, <1>6, <1>8
  <2>2. cut(fill) = {} BY <2>1
  <2>3. tmp = w BY <1>b, <2>2
  <2>4. n = Len(text) /\ \A k \in 1 .. n : k - 1 # size - 1 /\ k - 1 \in 0 .. n - 1
    BY <1>3, <1>8
  <2>5. ASSUME NEW k \in 1 .. n PROVE buf[k - 1] = text[k]
    <3> DEFINE j == k - 1
    <3>1. j \in 0 .. n - 1 /\ j # size - 1 /\ j + 1 = k BY <1>3, <2>4
    <3> HIDE DEF j
    <3>2. buf[j] = text[j + 1] BY <1>2, <3>1
    <3> QED BY <3>1, <3>2 DEF j
  <2> HIDE DEF holes, cut, whole, w
  <2>6. w = [k \in 1 .. n |-> text[k]] BY <1>7, <2>4, <2>5
  <2>7. text = [k \in 1 .. Len(text) |-> text[k]] OBVIOUS
  <2> QED BY <2>3, <2>4, <2>6, <2>7
<1>9. CASE Len(text) >= size
  <2>1. n = size BY <1>3, <1>9
  <2>2. holes = {size - 1} BY <1>6, <2>1
  <2>3. fill[size - 1] \in PathChars \union {Nul} BY <2>2
  <2>4. w = [k \in 1 .. size |-> IF k = size THEN fill[size - 1] ELSE text[k]]
    <3>1. \A k \in 1 .. size : (k - 1 = size - 1 <=> k = size) /\ k - 1 \in 0 .. n - 1 BY <2>1
    <3>a. \A k \in 1 .. size : (k - 1) + 1 = k OBVIOUS
    <3>2. ASSUME NEW k \in 1 .. size, k # size PROVE buf[k - 1] = text[k]
      <4> DEFINE j == k - 1
      <4>1. j \in 0 .. n - 1 /\ j # size - 1 /\ j + 1 = k BY <3>1, <3>2, <3>a
      <4> HIDE DEF j
      <4>2. buf[j] = text[j + 1] BY <1>2, <4>1
      <4> QED BY <4>1, <4>2 DEF j
    <3> HIDE DEF w, holes, cut, whole
    <3> QED BY <1>7, <2>1, <3>1, <3>2
  <2>5. \A k \in 1 .. size : text[k] \in C BY <1>3, <1>9
  <2> HIDE DEF w
  <2>6. CASE fill[size - 1] # Nul
    <3>1. cut(fill) = {} BY <2>2, <2>6
    <3>2. tmp = w BY <1>b, <3>1 DEF w
    <3> HIDE DEF holes, cut, whole
    <3>3. fill[size - 1] \in C BY <2>3, <2>6
    <3>4. \A k \in 1 .. size : w[k] \in C BY <2>4, <2>5, <3>3
    <3>5. tmp \in Seq(C) /\ Len(tmp) = size BY <2>4, <3>2, <3>4
    <3>6. tmp[1] = text[1] BY <2>4, <3>2
    <3> QED BY <1>9, <3>5, <3>6
  <2>7. CASE fill[size - 1] = Nul
    <3>1. cut(fill) = {size - 1} BY <2>2, <2>7
    <3>2. cutAt(fill) = size - 1 BY <3>1 DEF cutAt
    <3>3. cut(fill) # {} BY <3>1
    <3>4. tmp = SubSeq(w, 1, size - 1) BY <1>b, <3>2, <3>3 DEF w
    <3> HIDE DEF holes, cut, whole
    <3> DEFINE j == size - 1
    <3>5. j \in Nat /\ j >= 1 /\ \A k \in 1 .. j : w[k] = text[k] /\ w[k] \in C BY <2>4, <2>5
    <3>6. tmp = SubSeq(w, 1, j) BY <3>4
    <3> HIDE DEF j
    <3>7. \A k \in 1 .. j : w[k] \in C BY <3>5
    <3>8. tmp \in Seq(C) /\ Len(tmp) = j /\ \A k \in 1 .. j : tmp[k] = w[1 + k - 1]
      <4>1. 1 \in Int /\ j \in Int /\ 1 <= j /\ (j - 1) + 1 = j BY <3>5
      <4> QED BY <3>6, <3>7, <4>1, SubSeqProperties
    <3>9. 1 \in 1 .. j /\ 1 + 1 - 1 = 1 BY <3>5
    <3>10. tmp[1] = text[1] BY <3>5, <3>8, <3>9
    <3>11. tmp # <<>> BY <3>5, <3>8
    <3> QED BY <1>9, <3>8, <3>10, <3>11
  <2> QED BY <2>6, <2>7
<1> QED BY <1>3, <1>8, <1>9

\* What shell_canon_path walks through: an absolute path; the one that is meant, if it
\* is short.
LEMMA CandidatesAre ==
  ASSUME NEW C, Nul \notin C, Garbage \notin C, PathChars \subseteq C, "/" \in C,
         NEW cwd \in Seq(C), cwd # <<>>, cwd[1] = "/", NEW in \in Seq(C), in # <<>>,
         NEW tmp \in Candidates(cwd, in)
  PROVE  /\ tmp \in Seq(C) /\ tmp # <<>> /\ tmp[1] = "/"
         /\ Len(Joined(cwd, in)) < PathMax => tmp = Joined(cwd, in)
<1>1. PathMax \in Nat \ {0, 1} BY PathsAssumption
<1>2. CASE in[1] = "/"
  <2> DEFINE n == IF Len(in) < PathMax THEN Len(in) ELSE PathMax - 1
  <2>1. tmp = SubSeq(in, 1, n) BY <1>2 DEF Candidates
  <2>2. n \in 1 .. Len(in) BY <1>1
  <2>3. Len(in) < PathMax => n = Len(in) OBVIOUS
  <2>4. Joined(cwd, in) = in BY <1>2, JoinedIs
  <2> HIDE DEF n
  <2>5. tmp \in Seq(C) /\ Len(tmp) = n /\ tmp[1] = in[1] BY <2>1, <2>2
  <2>6. n = Len(in) => tmp = in BY <2>1, SubSeqFull
  <2> QED BY <1>2, <2>2, <2>3, <2>4, <2>5, <2>6
<1>3. CASE in[1] # "/"
  <2> DEFINE text == Joined(cwd, in)
  <2>1. text \in Seq(C) /\ text[1] = "/" BY JoinedType, JoinedAbsolute
  <2>2. text # <<>>
    <3>1. text = IF cwd = <<"/">> THEN <<"/">> \o in ELSE cwd \o (<<"/">> \o in)
      BY <1>3, JoinedIs
    <3>2. <<"/">> \in Seq(C) BY OneLong
    <3>3. <<"/">> \o in \in Seq(C) /\ Len(<<"/">> \o in) = 1 + Len(in)
      BY <3>2, ConcatProperties
    <3> DEFINE t == <<"/">> \o in
    <3>4. t \in Seq(C) /\ Len(t) = 1 + Len(in) BY <3>3
    <3>5. text = IF cwd = <<"/">> THEN t ELSE cwd \o t BY <3>1
    <3> HIDE DEF t, text
    <3>6. Len(cwd \o t) = Len(cwd) + Len(t) BY <3>4, ConcatProperties
    <3>7. Len(text) # 0 BY <3>4, <3>5, <3>6
    <3> QED BY <2>1, <3>7
  <2>3. tmp \in CStrings(Snprintf(PathMax, text)) BY <1>3 DEF Candidates
  <2> HIDE DEF text
  <2> QED BY <1>1, <2>1, <2>2, <2>3, CStringsIs DEF text
<1> QED BY <1>2, <1>3

\* argv is the line's words, as many as it holds.
LEMMA TokenizeIs ==
  ASSUME NEW C, Nul \notin C, NEW line \in Seq(C)
  PROVE  LET words == Words(line, " ")
             argv == Tokenize(line)
         IN  /\ words \in Seq(Seq(C)) /\ argv \in Seq(Seq(C))
             /\ Len(argv) = IF Len(words) < ArgMax THEN Len(words) ELSE ArgMax
             /\ \A k \in 1 .. Len(argv) : argv[k] = words[k]
<1> DEFINE words == Words(line, " ")
           n == IF Len(words) < ArgMax THEN Len(words) ELSE ArgMax
<1>1. words \in Seq(Seq(C)) BY WordsNext
<1>2. Split(line, " ", Len(line)) = words
  <2>1. Len(line) \in Nat /\ Len(line) <= Len(line) OBVIOUS
  <2>2. " " \in STRING BY LiteralAssumption
  <2> QED BY <2>1, <2>2, SplitWords
<1>3. Tokenize(line) = SubSeq(words, 1, n) BY <1>2 DEF Tokenize
<1> HIDE DEF words
<1>4. n \in 0 .. Len(words) BY <1>1, PathsAssumption
<1> HIDE DEF n
<1>5. SubSeq(words, 1, n) \in Seq(Seq(C)) /\ Len(SubSeq(words, 1, n)) = n
      /\ \A k \in 1 .. n : SubSeq(words, 1, n)[k] = words[k]
  BY <1>1, <1>4
<1> QED BY <1>1, <1>3, <1>5 DEF words, n


-------------------------------------------------------------------------------
\* Digits.

DigitSet(upper) == {DigitChar[upper][k] : k \in 1 .. 16}

\* f gives the digits of every number up to v.
DigitsBy(f, v, base, upper) ==
  /\ f \in [0 .. v -> Seq(DigitSet(upper))]
  /\ \A n \in 0 .. v :
       f[n] = IF n < base THEN <<DigitChar[upper][n + 1]>>
                          ELSE Append(f[n \div base], DigitChar[upper][(n % base) + 1])

\* Dividing gets smaller, and leaves a digit.
LEMMA Divided ==
  ASSUME NEW n \in Nat, NEW base \in {10, 16}
  PROVE  /\ n \div base \in Nat /\ n % base \in 0 .. base - 1
         /\ n = (n \div base) * base + (n % base)
         /\ n >= base => (n \div base < n /\ n \div base > 0)
<1>1. CASE base = 10 BY <1>1
<1>2. CASE base = 16 BY <1>2
<1> QED BY <1>1, <1>2

LEMMA U64ToBaseFn ==
  ASSUME NEW v \in Nat, NEW base \in {10, 16}, NEW upper \in BOOLEAN
  PROVE  \E f : DigitsBy(f, v, base, upper) /\ U64ToBase(v, base, upper) = f[v]
<1> DEFINE D == 0 .. v
           T == Seq(DigitSet(upper))
           m == [n \in D |-> n]
           at(f, n) == IF n < base THEN <<DigitChar[upper][n + 1]>>
                       ELSE Append(f[n \div base], DigitChar[upper][(n % base) + 1])
           Def(f) == f = [n \in 0 .. v |-> at(f, n)]
           F == CHOOSE f : Def(f)
           G == [n \in D |-> [f \in [D -> T] |-> at(f, n)]]
<1>1. U64ToBase(v, base, upper) = F[v] BY DEF U64ToBase
<1> HIDE DEF F
<1>2. m \in [D -> Nat] /\ T # {}
  <2>1. <<>> \in T OBVIOUS
  <2>2. m \in [D -> Nat] OBVIOUS
  <2> QED BY <2>1, <2>2
<1>3. ASSUME NEW n \in D, n >= base PROVE n \div base \in D /\ m[n \div base] < m[n]
  <2>1. n \in Nat BY <1>3
  <2>2. n \div base \in Nat /\ n \div base < n BY <1>3, <2>1, Divided
  <2>3. n \div base \in D BY <2>2
  <2> QED BY <2>2, <2>3
<1>4. ASSUME NEW f, NEW n \in D, n >= base => f[n \div base] \in T PROVE at(f, n) \in T
  <2>1. CASE n < base
    <3>1. n + 1 \in 1 .. 16 BY <2>1
    <3>2. DigitChar[upper][n + 1] \in DigitSet(upper) BY <3>1 DEF DigitSet
    <3>3. <<DigitChar[upper][n + 1]>> \in T BY <3>2, OneLong
    <3> QED BY <2>1, <3>3
  <2>2. CASE ~(n < base)
    <3>1. n \in Nat /\ base \in Nat /\ n >= base /\ base <= 16 BY <2>2
    <3>2. n % base \in 0 .. base - 1 BY <3>1, Divided
    <3>3. (n % base) + 1 \in 1 .. 16 BY <3>1, <3>2
    <3>4. DigitChar[upper][(n % base) + 1] \in DigitSet(upper) BY <3>3 DEF DigitSet
    <3>5. f[n \div base] \in T BY <1>4, <3>1
    <3> DEFINE x == DigitChar[upper][(n % base) + 1]
               s == f[n \div base]
    <3>6. x \in DigitSet(upper) /\ s \in Seq(DigitSet(upper)) BY <3>4, <3>5
    <3> HIDE DEF x, s
    <3>7. Append(s, x) \in Seq(DigitSet(upper)) BY <3>6
    <3> QED BY <2>2, <3>7 DEF x, s
  <2> QED BY <2>1, <2>2
<1>5. ASSUME NEW f \in [D -> T], NEW n \in D PROVE G[n][f] = at(f, n) /\ at(f, n) \in T
  <2>1. n >= base => f[n \div base] \in T BY <1>3
  <2>2. at(f, n) \in T BY <1>4, <2>1
  <2> QED BY <2>2
<1> HIDE DEF D, m, T
<1>6. IsRule(G, D, T, m)
  <2>1. G \in [D -> [[D -> T] -> T]] BY <1>5
  <2>2. ASSUME NEW f \in [D -> T], NEW g \in [D -> T], NEW k \in D,
               \A y \in D : m[y] < m[k] => f[y] = g[y]
        PROVE  G[k][f] = G[k][g]
    <3>1. k \in Nat /\ base \in Nat BY DEF D
    <3>2. k >= base => f[k \div base] = g[k \div base] BY <1>3, <2>2
    <3>3. at(f, k) = at(g, k) BY <3>1, <3>2
    <3> HIDE DEF at, G
    <3> QED BY <1>5, <3>3
  <2> HIDE DEF G
  <2> QED BY <1>2, <2>1, <2>2 DEF IsRule
<1> HIDE DEF G, at
<1>7. PICK f : Solves(f, G, D, T) BY <1>2, <1>6, Recursion
<1>8. f \in [D -> T] /\ \A k \in D : f[k] = at(f, k) BY <1>5, <1>7 DEF Solves
<1>9. Def(f) BY <1>8 DEF D
<1>10. Def(F) BY <1>9 DEF F
<1>11. F \in [D -> T] /\ \A k \in D : F[k] = at(F, k)
  <2> DEFINE h == [k \in D |-> at(F, k)]
  <2>1. F = h BY <1>10 DEF D
  <2>2. \A k \in D : h[k] = at(F, k) OBVIOUS
  <2> HIDE DEF h
  <2>3. \A k \in D : F[k] = at(F, k) BY <2>1, <2>2
  <2>4. DOMAIN F = D /\ F = [k \in D |-> F[k]] BY <2>1 DEF h
  <2> DEFINE S == {n \in Nat : n \in D => F[n] \in T}
  <2>5. ASSUME NEW n \in Nat, \A k \in Nat : k < n => k \in S PROVE n \in S
    <3>1. SUFFICES ASSUME n \in D PROVE F[n] \in T OBVIOUS
    <3>2. base \in Nat OBVIOUS
    <3>3. n >= base => n \div base \in D /\ n \div base \in Nat /\ n \div base < n
      BY <1>3, <3>1, Divided DEF D
    <3>4. n >= base => F[n \div base] \in T BY <2>5, <3>3
    <3>5. at(F, n) \in T BY <1>4, <3>1, <3>4
    <3> QED BY <2>3, <3>1, <3>5
  <2> HIDE DEF S
  <2>6. Nat \subseteq S BY <2>5, Smaller
  <2>7. \A n \in D : F[n] \in T BY <2>6 DEF S, D
  <2>8. F \in [D -> T] BY <2>4, <2>7
  <2> QED BY <2>3, <2>8
<1>12. DigitsBy(F, v, base, upper) BY <1>11 DEF DigitsBy, D, T, at
<1> QED BY <1>1, <1>12

LEMMA U64ToBaseType ==
  ASSUME NEW v \in Nat, NEW base \in {10, 16}, NEW upper \in BOOLEAN
  PROVE  U64ToBase(v, base, upper) \in Seq(DigitSet(upper))
<1>1. PICK f : DigitsBy(f, v, base, upper) /\ U64ToBase(v, base, upper) = f[v] BY U64ToBaseFn
<1>2. v \in 0 .. v OBVIOUS
<1> QED BY <1>1, <1>2 DEF DigitsBy


-------------------------------------------------------------------------------
\* printf goes on behind each conversion.
FlagChars == {"-", "0", "+", " ", "#"}

LEMMA NoTerminator == Nul \notin FlagChars /\ Nul \notin Decimal
BY LiteralAssumption, CharAssumption DEF FlagChars, Decimal

LEMMA ParseFormatMoves ==
  ASSUME NEW C, NEW s \in Seq(C), NEW i \in 1 .. Len(s) + 1, NEW args, NEW a \in Nat
  PROVE  /\ ParseFormat(s, i, args, a).next \in Nat /\ ParseFormat(s, i, args, a).next >= i
         /\ ParseFormat(s, i, args, a).arg \in Nat
<1> DEFINE iw == SpanEnd(s, i, FlagChars)
           starW == CharAt(s, iw) = "*"
           id == IF starW THEN iw + 1 ELSE SpanEnd(s, iw, Decimal)
           ap == IF starW THEN a + 1 ELSE a
           dot == CharAt(s, id) = "."
           starP == dot /\ CharAt(s, id + 1) = "*"
           il == IF starP THEN id + 2 ELSE IF dot THEN SpanEnd(s, id + 1, Decimal) ELSE id
           is == IF CharAt(s, il) # "l" THEN il
                 ELSE IF CharAt(s, il + 1) = "l" THEN il + 2 ELSE il + 1
           spec == CharAt(s, is)
<1>1. ParseFormat(s, i, args, a).next = (IF spec = Nul THEN is ELSE is + 1)
      /\ ParseFormat(s, i, args, a).arg = (IF starP THEN ap + 1 ELSE ap)
  BY DEF ParseFormat, FlagChars
<1>2. Len(s) \in Nat /\ i \in Nat OBVIOUS
<1>3. ASSUME NEW k \in Nat, CharAt(s, k) # Nul PROVE k <= Len(s)
  BY <1>2, <1>3 DEF CharAt
<1>4. Nul # "*" /\ Nul # "." /\ Nul # "l"
  BY LiteralAssumption, CharAssumption
<1>5. iw \in i .. Len(s) + 1 BY SpanEndIs, NoTerminator
<1> HIDE DEF iw
<1>6. iw \in Nat BY <1>2, <1>5
<1>7. id \in i .. Len(s) + 1
  <2>1. CASE starW
    <3>1. iw <= Len(s) BY <1>3, <1>4, <1>6, <2>1
    <3> QED BY <1>2, <1>5, <2>1, <3>1
  <2>2. CASE ~starW
    <3>1. iw \in 1 .. Len(s) + 1 BY <1>2, <1>5
    <3>2. SpanEnd(s, iw, Decimal) \in iw .. Len(s) + 1 BY <3>1, SpanEndIs, NoTerminator
    <3> QED BY <1>2, <1>5, <2>2, <3>2
  <2> QED BY <2>1, <2>2
<1> HIDE DEF id
<1>8. il \in i .. Len(s) + 1
  <2>1. CASE dot
    <3>1. id \in Nat BY <1>2, <1>7
    <3>2. id <= Len(s) BY <1>3, <1>4, <2>1, <3>1
    <3>3. CASE starP
      <4>1. id + 1 <= Len(s) BY <1>3, <1>4, <3>1, <3>3
      <4> QED BY <1>2, <1>7, <3>3, <4>1
    <3>4. CASE ~starP
      <4>1. id + 1 \in 1 .. Len(s) + 1 BY <1>2, <1>7, <3>2
      <4>2. SpanEnd(s, id + 1, Decimal) \in id + 1 .. Len(s) + 1
        BY <4>1, SpanEndIs, NoTerminator
      <4> QED BY <1>2, <1>7, <2>1, <3>4, <4>2
    <3> QED BY <3>3, <3>4
  <2>2. CASE ~dot BY <1>7, <2>2
  <2> QED BY <2>1, <2>2
<1> HIDE DEF il
<1>9. is \in Nat /\ is >= i BY <1>2, <1>8
<1> HIDE DEF is
<1>10. (IF spec = Nul THEN is ELSE is + 1) \in Nat /\ (IF spec = Nul THEN is ELSE is + 1) >= i
  BY <1>2, <1>9
<1>11. (IF starP THEN ap + 1 ELSE ap) \in Nat OBVIOUS
<1> HIDE DEF spec, starP, ap
<1> QED BY <1>1, <1>10, <1>11

PrintNext(format, args, i, a) ==
  LET f == ParseFormat(format, i + 1, args, a)
  IN  <<f.next, IF Consumes(f.spec) THEN f.arg + 1 ELSE f.arg>>

\* What it prints from a place on, from what g gives for those that follow.
PrintFrom(g, format, args, at) ==
  IF at[1] > Len(format) THEN <<>>
  ELSE IF format[at[1]] # "%" THEN <<format[at[1]]>> \o g[<<at[1] + 1, at[2]>>]
  ELSE IF CharAt(format, at[1] + 1) = "%" THEN <<"%">> \o g[<<at[1] + 2, at[2]>>]
  ELSE Convert(ParseFormat(format, at[1] + 1, args, at[2]), args)
       \o g[PrintNext(format, args, at[1], at[2])]

PrintBy(g, format, args) == \A at \in Places : g[at] = PrintFrom(g, format, args, at)

LEMMA PrintDepends ==
  ASSUME NEW C, NEW format \in Seq(C), NEW args, NEW f, NEW g, NEW at \in Places,
         \A x \in Places : x[1] > at[1] => f[x] = g[x]
  PROVE  PrintFrom(f, format, args, at) = PrintFrom(g, format, args, at)
<1>1. PICK i \in Nat, a \in Nat : at = <<i, a>> BY DEF Places
<1>2. at[1] = i /\ at[2] = a BY <1>1
<1>3. <<i + 1, a>> \in Places /\ <<i + 1, a>>[1] > at[1] BY <1>2 DEF Places
<1>a. <<i + 2, a>> \in Places /\ <<i + 2, a>>[1] > at[1] BY <1>2 DEF Places
<1>4. i <= Len(format) => /\ PrintNext(format, args, i, a) \in Places
                          /\ PrintNext(format, args, i, a)[1] > at[1]
  <2>1. SUFFICES ASSUME i <= Len(format)
                 PROVE  /\ PrintNext(format, args, i, a) \in Places
                        /\ PrintNext(format, args, i, a)[1] > at[1]
    OBVIOUS
  <2>2. i + 1 \in 1 .. Len(format) + 1 BY <2>1
  <2> DEFINE p == ParseFormat(format, i + 1, args, a)
  <2>3. p.next \in Nat /\ p.next >= i + 1 /\ p.arg \in Nat BY <2>2, ParseFormatMoves
  <2>4. PrintNext(format, args, i, a) = <<p.next, IF Consumes(p.spec) THEN p.arg + 1 ELSE p.arg>>
    BY DEF PrintNext
  <2> HIDE DEF p
  <2> QED BY <1>2, <2>3, <2>4 DEF Places
<1>5. f[<<i + 1, a>>] = g[<<i + 1, a>>] /\ f[<<i + 2, a>>] = g[<<i + 2, a>>] BY <1>3, <1>a
<1>6. i <= Len(format) => f[PrintNext(format, args, i, a)] = g[PrintNext(format, args, i, a)]
  BY <1>4
<1>7. Len(format) \in Nat OBVIOUS
<1> QED BY <1>2, <1>5, <1>6, <1>7 DEF PrintFrom

LEMMA PrintfFn ==
  ASSUME NEW C, NEW format \in Seq(C), NEW args
  PROVE  \E g : PrintBy(g, format, args) /\ Printf(format, args) = g[<<1, 1>>]
<1> DEFINE N == Len(format)
           Def(f) == f = [at \in Places |-> PrintFrom(f, format, args, at)]
           F == CHOOSE f : Def(f)
           Level(f, n) == /\ f = [at \in Places |-> f[at]]
                          /\ \A at \in Places : at[1] + n > N =>
                               f[at] = PrintFrom(f, format, args, at)
           S == {n \in Nat : \E f : Level(f, n)}
<1>1. Printf(format, args) = F[<<1, 1>>]
  BY DEF Printf, PrintFrom, PrintNext, Places
<1> HIDE DEF F
<1>2. N \in Nat /\ \A at \in Places : at[1] \in Nat BY DEF Places
<1>3. 0 \in S
  <2> DEFINE f == [at \in Places |-> <<>>]
  <2>1. \A at \in Places : at[1] + 0 > N => PrintFrom(f, format, args, at) = <<>>
    BY <1>2 DEF PrintFrom
  <2>2. Level(f, 0) BY <2>1
  <2> HIDE DEF f, Level
  <2> QED BY <2>2
<1>4. ASSUME NEW n \in Nat, n \in S PROVE n + 1 \in S
  <2>1. PICK f : Level(f, n) BY <1>4
  <2> DEFINE g == [at \in Places |-> PrintFrom(f, format, args, at)]
  <2>2. \A at \in Places : at[1] + n > N => f[at] = g[at] BY <2>1
  <2>3. ASSUME NEW at \in Places, at[1] + (n + 1) > N
        PROVE  g[at] = PrintFrom(g, format, args, at)
    <3>1. \A x \in Places : x[1] > at[1] => f[x] = g[x]
      <4>1. SUFFICES ASSUME NEW x \in Places, x[1] > at[1] PROVE f[x] = g[x] OBVIOUS
      <4>2. x[1] + n > N BY <1>2, <2>3, <4>1
      <4> QED BY <2>2, <4>2
    <3> HIDE DEF g
    <3>2. PrintFrom(f, format, args, at) = PrintFrom(g, format, args, at) BY <3>1, PrintDepends
    <3> QED BY <3>2 DEF g
  <2>4. g = [at \in Places |-> g[at]] OBVIOUS
  <2> HIDE DEF g
  <2>5. Level(g, n + 1) BY <2>3, <2>4
  <2> HIDE DEF Level
  <2> QED BY <2>5
<1> HIDE DEF S
<1>5. Nat \subseteq S BY <1>3, <1>4, Steps
<1>6. PICK f : Level(f, N + 1) BY <1>2, <1>5 DEF S
<1>7. \A at \in Places : at[1] + (N + 1) > N BY <1>2
<1>8. \A at \in Places : f[at] = PrintFrom(f, format, args, at) BY <1>6, <1>7
<1>9. Def(f) BY <1>6, <1>8
<1>10. Def(F) BY <1>9 DEF F
<1>11. PrintBy(F, format, args)
  <2> DEFINE h == [at \in Places |-> PrintFrom(F, format, args, at)]
  <2>1. F = h BY <1>10
  <2>2. \A at \in Places : h[at] = PrintFrom(F, format, args, at) OBVIOUS
  <2> HIDE DEF h
  <2> QED BY <2>1, <2>2 DEF PrintBy
<1> QED BY <1>1, <1>11


-------------------------------------------------------------------------------
\* Numerals.

LEMMA DigitsDiffer ==
  ASSUME NEW d \in 0 .. 15, NEW e \in 0 .. 15, NEW u \in BOOLEAN, NEW w \in BOOLEAN,
         DigitChar[u][d + 1] = DigitChar[w][e + 1]
  PROVE  d = e
<1> DEFINE value == [c \in {"0","1","2","3","4","5","6","7","8","9",
                            "a","b","c","d","e","f","A","B","C","D","E","F"} |->
             CASE c = "0" -> 0 [] c = "1" -> 1 [] c = "2" -> 2 [] c = "3" -> 3
               [] c = "4" -> 4 [] c = "5" -> 5 [] c = "6" -> 6 [] c = "7" -> 7
               [] c = "8" -> 8 [] c = "9" -> 9
               [] c \in {"a", "A"} -> 10 [] c \in {"b", "B"} -> 11 [] c \in {"c", "C"} -> 12
               [] c \in {"d", "D"} -> 13 [] c \in {"e", "E"} -> 14 [] c \in {"f", "F"} -> 15]
<1>1. ASSUME NEW k \in 0 .. 15 PROVE value[DigitChar[FALSE][k + 1]] = k
  <2>1. k \in {0, 1, 2, 3, 4, 5, 6, 7, 8, 9, 10, 11, 12, 13, 14, 15} OBVIOUS
  <2> QED BY <2>1 DEF DigitChar
<1>2. ASSUME NEW k \in 0 .. 15 PROVE value[DigitChar[TRUE][k + 1]] = k
  <2>1. k \in {0, 1, 2, 3, 4, 5, 6, 7, 8, 9, 10, 11, 12, 13, 14, 15} OBVIOUS
  <2> QED BY <2>1 DEF DigitChar
<1> HIDE DEF value
<1>3. \A x \in BOOLEAN : \A k \in 0 .. 15 : value[DigitChar[x][k + 1]] = k BY <1>1, <1>2
<1> QED BY <1>3

\* g gives the numbers that the beginnings of a numeral denote.
NumeralBy(g, t, base, upper, n) ==
  /\ g \in [0 .. Len(t) -> Nat] /\ g[0] = 0 /\ g[Len(t)] = n
  /\ \A k \in 1 .. Len(t) : \E d \in 0 .. base - 1 :
       t[k] = DigitChar[upper][d + 1] /\ g[k] = g[k - 1] * base + d

IsNumeral(t, base, upper, n) ==
  /\ t \in Seq(DigitSet(upper)) /\ Len(t) > 0
  /\ n > 0 => t[1] # "0"
  /\ n = 0 => Len(t) = 1
  /\ \E g : NumeralBy(g, t, base, upper, n)

LEMMA ZeroIsZero ==
  ASSUME NEW u \in BOOLEAN, NEW d \in 0 .. 15 PROVE DigitChar[u][d + 1] = "0" <=> d = 0
<1>1. DigitChar[u][0 + 1] = "0"
  <2>1. CASE u = TRUE BY <2>1 DEF DigitChar
  <2>2. CASE u = FALSE BY <2>2 DEF DigitChar
  <2> QED BY <2>1, <2>2
<1>2. 0 \in 0 .. 15 OBVIOUS
<1> QED BY <1>1, <1>2, DigitsDiffer

LEMMA OneDigit ==
  ASSUME NEW base \in {10, 16}, NEW upper \in BOOLEAN, NEW n \in 0 .. base - 1
  PROVE  IsNumeral(<<DigitChar[upper][n + 1]>>, base, upper, n)
<1> DEFINE x == DigitChar[upper][n + 1]
           t == <<x>>
           g == [k \in 0 .. 1 |-> IF k = 0 THEN 0 ELSE n]
<1>1. n \in 0 .. 15 /\ n \in Nat /\ base \in Nat /\ n + 1 \in 1 .. 16 OBVIOUS
<1>2. x \in DigitSet(upper) BY <1>1 DEF DigitSet
<1>3. n > 0 => x # "0" BY <1>1, ZeroIsZero
<1>a. x = DigitChar[upper][n + 1] OBVIOUS
<1> HIDE DEF x
<1>4. t \in Seq(DigitSet(upper)) /\ Len(t) = 1 /\ t[1] = x BY <1>2, OneLong
<1> HIDE DEF t
<1>5. g \in [0 .. 1 -> Nat] /\ g[0] = 0 /\ g[1] = n BY <1>1
<1> HIDE DEF g
<1>6. g[1] = g[1 - 1] * base + n BY <1>1, <1>5
<1>7. ASSUME NEW k \in 1 .. 1
      PROVE  \E d \in 0 .. base - 1 :
               t[k] = DigitChar[upper][d + 1] /\ g[k] = g[k - 1] * base + d
  <2>1. k = 1 OBVIOUS
  <2> QED BY <1>4, <1>6, <1>a, <2>1
<1>8. NumeralBy(g, t, base, upper, n) BY <1>4, <1>5, <1>7 DEF NumeralBy
<1> QED BY <1>3, <1>4, <1>8 DEF IsNumeral, t, x

LEMMA OneDigitMore ==
  ASSUME NEW base \in {10, 16}, NEW upper \in BOOLEAN, NEW m \in Nat \ {0},
         NEW d \in 0 .. base - 1, NEW t, IsNumeral(t, base, upper, m),
         NEW n, n = m * base + d
  PROVE  IsNumeral(Append(t, DigitChar[upper][d + 1]), base, upper, n)
<1> DEFINE x == DigitChar[upper][d + 1]
           N == Len(t)
           v == Append(t, x)
<1>1. d \in 0 .. 15 /\ d \in Nat /\ base \in Nat \ {0} /\ d + 1 \in 1 .. 16 OBVIOUS
<1>2. x \in DigitSet(upper) BY <1>1 DEF DigitSet
<1>3. t \in Seq(DigitSet(upper)) /\ N > 0 /\ t[1] # "0" BY DEF IsNumeral
<1>4. PICK g : NumeralBy(g, t, base, upper, m) BY DEF IsNumeral
<1>a. x = DigitChar[upper][d + 1] OBVIOUS
<1> HIDE DEF x
<1>5. /\ v \in Seq(DigitSet(upper)) /\ Len(v) = N + 1 /\ v[N + 1] = x
      /\ \A k \in 1 .. N : v[k] = t[k]
  BY <1>2, <1>3
<1>6. N \in Nat BY <1>3
<1> HIDE DEF N, v
<1> DEFINE h == [k \in 0 .. N + 1 |-> IF k <= N THEN g[k] ELSE n]
<1>7. n \in Nat /\ n > 0
  <2>1. m * base \in Nat /\ m * base > 0 BY <1>1
  <2> QED BY <1>1, <2>1
<1>8. g \in [0 .. N -> Nat] /\ g[0] = 0 /\ g[N] = m BY <1>4 DEF NumeralBy, N
<1>9. h \in [0 .. N + 1 -> Nat] /\ h[N + 1] = n /\ \A k \in 0 .. N : h[k] = g[k]
  BY <1>6, <1>7, <1>8
<1> HIDE DEF h
<1>10. h[0] = 0 BY <1>6, <1>8, <1>9
<1>11. ASSUME NEW k \in 1 .. N + 1
       PROVE  \E e \in 0 .. base - 1 :
                v[k] = DigitChar[upper][e + 1] /\ h[k] = h[k - 1] * base + e
  <2>1. CASE k <= N
    <3>1. k \in 1 .. N /\ k \in 0 .. N /\ k - 1 \in 0 .. N BY <1>6, <2>1
    <3>2. \E e \in 0 .. base - 1 : t[k] = DigitChar[upper][e + 1] /\ g[k] = g[k - 1] * base + e
      BY <1>4, <3>1 DEF NumeralBy, N
    <3> QED BY <1>5, <1>9, <3>1, <3>2
  <2>2. CASE k = N + 1
    <3>1. k - 1 = N /\ N \in 0 .. N BY <1>6, <2>2
    <3>2. h[k - 1] = m /\ h[k] = n BY <1>8, <1>9, <2>2, <3>1
    <3> QED BY <1>5, <1>a, <2>2, <3>2
  <2> QED BY <1>6, <2>1, <2>2
<1>12. NumeralBy(h, v, base, upper, n) BY <1>5, <1>9, <1>10, <1>11 DEF NumeralBy
<1>13. Len(v) > 0 /\ v[1] # "0" /\ n # 0
  <2>1. 1 \in 1 .. N BY <1>3, <1>6 DEF N
  <2> QED BY <1>3, <1>5, <1>6, <1>7, <2>1
<1> QED BY <1>5, <1>12, <1>13 DEF IsNumeral, v, x

LEMMA U64IsNumeral ==
  ASSUME NEW n \in Nat, NEW base \in {10, 16}, NEW upper \in BOOLEAN
  PROVE  IsNumeral(U64ToBase(n, base, upper), base, upper, n)
<1>1. PICK f : DigitsBy(f, n, base, upper) /\ U64ToBase(n, base, upper) = f[n] BY U64ToBaseFn
<1> DEFINE S == {k \in Nat : k <= n => IsNumeral(f[k], base, upper, k)}
<1>2. ASSUME NEW k \in Nat, \A m \in Nat : m < k => m \in S PROVE k \in S
  <2>1. SUFFICES ASSUME k <= n PROVE IsNumeral(f[k], base, upper, k) OBVIOUS
  <2>2. f[k] = IF k < base THEN <<DigitChar[upper][k + 1]>>
               ELSE Append(f[k \div base], DigitChar[upper][(k % base) + 1])
    <3>1. k \in 0 .. n BY <2>1
    <3> QED BY <1>1, <3>1, Zenon DEF DigitsBy
  <2>3. CASE k < base
    <3>1. k \in 0 .. base - 1 BY <2>3
    <3> QED BY <2>2, <2>3, <3>1, OneDigit
  <2>4. CASE ~(k < base)
    <3> DEFINE m == k \div base
               d == k % base
    <3>1. m \in Nat /\ d \in 0 .. base - 1 /\ k = m * base + d /\ m < k /\ m > 0
      BY <2>4, Divided
    <3>2. f[k] = Append(f[m], DigitChar[upper][d + 1]) BY <2>2, <2>4
    <3> HIDE DEF m, d
    <3>3. IsNumeral(f[m], base, upper, m) BY <1>2, <2>1, <3>1
    <3>4. m \in Nat \ {0} BY <3>1
    <3> QED BY <3>1, <3>2, <3>3, <3>4, OneDigitMore
  <2> QED BY <2>3, <2>4
<1> HIDE DEF S
<1>3. Nat \subseteq S BY <1>2, Smaller
<1> QED BY <1>1, <1>3 DEF S

LEMMA DigitIs == ASSUME NEW c \in Decimal PROVE DigitValue(c) \in Nat
<1> DEFINE is(d) == DigitChar[FALSE][d] = c
<1>1. \E d \in 1 .. 10 : is(d)
  <2>1. /\ DigitChar[FALSE][1] = "0" /\ DigitChar[FALSE][2] = "1"
        /\ DigitChar[FALSE][3] = "2" /\ DigitChar[FALSE][4] = "3"
        /\ DigitChar[FALSE][5] = "4" /\ DigitChar[FALSE][6] = "5"
        /\ DigitChar[FALSE][7] = "6" /\ DigitChar[FALSE][8] = "7"
        /\ DigitChar[FALSE][9] = "8" /\ DigitChar[FALSE][10] = "9"
    BY DEF DigitChar
  <2>2. 1 \in 1 .. 10 /\ 2 \in 1 .. 10 /\ 3 \in 1 .. 10 /\ 4 \in 1 .. 10 /\ 5 \in 1 .. 10
        /\ 6 \in 1 .. 10 /\ 7 \in 1 .. 10 /\ 8 \in 1 .. 10 /\ 9 \in 1 .. 10
        /\ 10 \in 1 .. 10
    OBVIOUS
  <2>3. \/ c = "0" \/ c = "1" \/ c = "2" \/ c = "3" \/ c = "4"
        \/ c = "5" \/ c = "6" \/ c = "7" \/ c = "8" \/ c = "9"
    BY DEF Decimal
  <2> QED BY <2>1, <2>2, <2>3, Zenon
<1> HIDE DEF is
<1>2. (CHOOSE d \in 1 .. 10 : is(d)) \in 1 .. 10 BY <1>1
<1> DEFINE e == CHOOSE d \in 1 .. 10 : is(d)
<1>3. DigitValue(c) = e - 1 BY DEF DigitValue, is
<1>4. e \in 1 .. 10 BY <1>2
<1> HIDE DEF e
<1> QED BY <1>3, <1>4

\* f gives the numbers that the digits from i on denote.
ParseBy(f, s, i, j) ==
  \A k \in i .. j : f[k] = IF k = i THEN 0 ELSE f[k - 1] * 10 + DigitValue(s[k - 1])

LEMMA ParseIntFn ==
  ASSUME NEW s, NEW i \in Nat, NEW j \in Nat, i <= j, \A k \in i .. j - 1 : s[k] \in Decimal
  PROVE  \E f : ParseBy(f, s, i, j) /\ ParseInt(s, i, j) = f[j]
<1> DEFINE D == i .. j
           m == [k \in D |-> k]
           at(f, k) == IF k = i THEN 0 ELSE f[k - 1] * 10 + DigitValue(s[k - 1])
           Def(f) == f = [k \in i .. j |-> at(f, k)]
           F == CHOOSE f : Def(f)
           G == [k \in D |-> [f \in [D -> Nat] |-> at(f, k)]]
<1>1. ParseInt(s, i, j) = F[j] BY DEF ParseInt
<1>2. m \in [D -> Nat] OBVIOUS
<1> HIDE DEF F
<1>3. ASSUME NEW f, NEW k \in D, k = i \/ f[k - 1] \in Nat PROVE at(f, k) \in Nat
  <2>1. CASE k = i BY <2>1
  <2>2. CASE k # i
    <3>1. k - 1 \in i .. j - 1 BY <2>2
    <3>2. DigitValue(s[k - 1]) \in Nat BY <3>1, DigitIs
    <3> QED BY <1>3, <2>2, <3>2
  <2> QED BY <2>1, <2>2
<1>4. \A k \in D : k # i => k - 1 \in D /\ m[k - 1] < m[k] OBVIOUS
<1>5. ASSUME NEW f \in [D -> Nat], NEW k \in D PROVE G[k][f] = at(f, k) /\ at(f, k) \in Nat
  <2>1. k # i => f[k - 1] \in Nat BY <1>4
  <2>2. at(f, k) \in Nat BY <1>3, <2>1
  <2> QED BY <2>2
<1> HIDE DEF D, m
<1>6. IsRule(G, D, Nat, m)
  <2>1. G \in [D -> [[D -> Nat] -> Nat]] BY <1>5
  <2>2. ASSUME NEW f \in [D -> Nat], NEW g \in [D -> Nat], NEW k \in D,
               \A y \in D : m[y] < m[k] => f[y] = g[y]
        PROVE  G[k][f] = G[k][g]
    <3>1. at(f, k) = at(g, k) BY <1>4, <2>2
    <3> HIDE DEF at, G
    <3> QED BY <1>5, <3>1
  <2> HIDE DEF G
  <2> QED BY <1>2, <2>1, <2>2 DEF IsRule
<1> HIDE DEF G, at
<1>7. PICK f : Solves(f, G, D, Nat) BY <1>6, Recursion
<1>8. f \in [D -> Nat] /\ \A k \in D : f[k] = at(f, k) BY <1>5, <1>7 DEF Solves
<1>9. Def(f) BY <1>8 DEF D
<1>10. Def(F) BY <1>9 DEF F
<1>11. \A k \in D : F[k] = at(F, k)
  <2> DEFINE h == [k \in D |-> at(F, k)]
  <2>1. F = h BY <1>10 DEF D
  <2>2. \A k \in D : h[k] = at(F, k) OBVIOUS
  <2> HIDE DEF h
  <2> QED BY <2>1, <2>2
<1>12. ParseBy(F, s, i, j) BY <1>11 DEF ParseBy, D, at
<1> QED BY <1>1, <1>12

LEMMA ParseIntType ==
  ASSUME NEW s, NEW i \in Nat, NEW j \in Nat, i <= j, \A k \in i .. j - 1 : s[k] \in Decimal
  PROVE  ParseInt(s, i, j) \in Nat
<1>1. PICK f : ParseBy(f, s, i, j) /\ ParseInt(s, i, j) = f[j] BY ParseIntFn
<1>2. \A k \in i .. j : f[k] = IF k = i THEN 0 ELSE f[k - 1] * 10 + DigitValue(s[k - 1])
  BY <1>1 DEF ParseBy
<1> DEFINE S == {n \in Nat : i + n <= j => f[i + n] \in Nat}
<1>3. 0 \in S
  <2>1. i \in i .. j /\ i + 0 = i OBVIOUS
  <2> QED BY <1>2, <2>1
<1>4. ASSUME NEW n \in Nat, n \in S PROVE n + 1 \in S
  <2>1. SUFFICES ASSUME i + (n + 1) <= j PROVE f[i + (n + 1)] \in Nat OBVIOUS
  <2> DEFINE k == i + (n + 1)
  <2>2. k \in i .. j /\ k # i /\ k - 1 = i + n /\ i + n <= j /\ k - 1 \in i .. j - 1 BY <2>1
  <2>3. f[k - 1] \in Nat BY <1>4, <2>2
  <2>4. DigitValue(s[k - 1]) \in Nat BY <2>2, DigitIs
  <2>5. f[k] = f[k - 1] * 10 + DigitValue(s[k - 1]) BY <1>2, <2>2
  <2> HIDE DEF k
  <2>6. f[k] \in Nat BY <2>3, <2>4, <2>5
  <2> QED BY <2>6 DEF k
<1> HIDE DEF S
<1>5. Nat \subseteq S BY <1>3, <1>4, Steps
<1>6. j - i \in Nat /\ i + (j - i) = j OBVIOUS
<1> QED BY <1>1, <1>5, <1>6 DEF S

\* A part of a text.
Holds(s, i, t) ==
  /\ i + Len(t) <= Len(s) + 1
  /\ \A k \in 1 .. Len(t) : s[i + k - 1] = t[k]

LEMMA DecimalIs ==
  ASSUME NEW d \in 0 .. 9
  PROVE  DigitChar[FALSE][d + 1] \in Decimal /\ DigitValue(DigitChar[FALSE][d + 1]) = d
<1> DEFINE c == DigitChar[FALSE][d + 1]
           is(e) == DigitChar[FALSE][e] = c
<1>1. c \in Decimal
  <2>1. d \in {0, 1, 2, 3, 4, 5, 6, 7, 8, 9} OBVIOUS
  <2> QED BY <2>1 DEF DigitChar, Decimal
<1>2. d + 1 \in 1 .. 10 /\ is(d + 1) OBVIOUS
<1>3. ASSUME NEW e \in 1 .. 10, is(e) PROVE e = d + 1
  <2>1. e - 1 \in 0 .. 15 /\ (e - 1) + 1 = e /\ d \in 0 .. 15 BY <1>3
  <2>2. DigitChar[FALSE][(e - 1) + 1] = DigitChar[FALSE][d + 1] BY <1>3, <2>1
  <2>3. e - 1 = d BY <2>1, <2>2, DigitsDiffer
  <2> QED BY <2>3
<1> HIDE DEF is
<1>4. (CHOOSE e \in 1 .. 10 : is(e)) = d + 1 BY <1>2, <1>3
<1>5. DigitValue(c) = (CHOOSE e \in 1 .. 10 : is(e)) - 1 BY DEF DigitValue, is
<1> DEFINE x == CHOOSE e \in 1 .. 10 : is(e)
<1>6. x = d + 1 /\ DigitValue(c) = x - 1 BY <1>4, <1>5
<1> HIDE DEF x, c
<1>7. DigitValue(c) = d BY <1>6
<1> QED BY <1>1, <1>7 DEF c

Parses(s, i, j, n) == ParseInt(s, i, j) = n /\ \A k \in i .. j - 1 : s[k] \in Decimal

LEMMA ParsesNumeral ==
  ASSUME NEW s, NEW i \in Nat, NEW n \in Nat, NEW t, IsNumeral(t, 10, FALSE, n), Holds(s, i, t)
  PROVE  Parses(s, i, i + Len(t), n)
<1> DEFINE j == i + Len(t)
<1>1. PICK g : NumeralBy(g, t, 10, FALSE, n) BY DEF IsNumeral
<1> DEFINE N == Len(t)
<1>2. N \in Nat BY DEF IsNumeral
<1>a. /\ g \in [0 .. N -> Nat] /\ g[0] = 0 /\ g[N] = n
      /\ \A k \in 1 .. N : \E d \in 0 .. 9 :
           t[k] = DigitChar[FALSE][d + 1] /\ g[k] = g[k - 1] * 10 + d
  <2>1. 0 .. 10 - 1 = 0 .. 9 OBVIOUS
  <2>2. /\ g \in [0 .. N -> Nat] /\ g[0] = 0 /\ g[N] = n
        /\ \A k \in 1 .. N : \E d \in 0 .. 10 - 1 :
             t[k] = DigitChar[FALSE][d + 1] /\ g[k] = g[k - 1] * 10 + d
    BY <1>1, Zenon DEF NumeralBy
  <2> QED BY <2>1, <2>2
<1>b. j = i + N /\ \A k \in 1 .. N : s[i + k - 1] = t[k] BY DEF Holds
<1> HIDE DEF N, j
<1>3. ASSUME NEW k \in 1 .. N
      PROVE  s[i + k - 1] \in Decimal /\ g[k] = g[k - 1] * 10 + DigitValue(s[i + k - 1])
  <2>1. PICK d \in 0 .. 9 : t[k] = DigitChar[FALSE][d + 1] /\ g[k] = g[k - 1] * 10 + d BY <1>a
  <2>2. t[k] \in Decimal /\ DigitValue(t[k]) = d BY <2>1, DecimalIs
  <2> QED BY <1>b, <2>1, <2>2
<1>4. \A k \in i .. j - 1 : s[k] \in Decimal
  <2>1. SUFFICES ASSUME NEW k \in i .. j - 1 PROVE s[k] \in Decimal OBVIOUS
  <2> DEFINE m == k - i + 1
  <2>2. m \in 1 .. N /\ i + m - 1 = k BY <1>2, <1>b
  <2> HIDE DEF m
  <2> QED BY <1>3, <2>2
<1>5. PICK f : /\ ParseInt(s, i, j) = f[j] /\ f[i] = 0
               /\ \A k \in i .. j : k # i => f[k] = f[k - 1] * 10 + DigitValue(s[k - 1])
  <2>1. j \in Nat /\ i <= j BY <1>2, <1>b
  <2>2. i \in i .. j BY <2>1
  <2>3. PICK f : ParseBy(f, s, i, j) /\ ParseInt(s, i, j) = f[j] BY <1>4, <2>1, ParseIntFn
  <2>4. f[i] = 0 BY <2>2, <2>3 DEF ParseBy
  <2>5. \A k \in i .. j : k # i => f[k] = f[k - 1] * 10 + DigitValue(s[k - 1])
    BY <2>3 DEF ParseBy
  <2> QED BY <2>3, <2>4, <2>5
<1> DEFINE S == {k \in Nat : k <= N => f[i + k] = g[k]}
<1>6. 0 \in S BY <1>a, <1>5
<1>7. ASSUME NEW k \in Nat, k \in S PROVE k + 1 \in S
  <2>1. SUFFICES ASSUME k + 1 <= N PROVE f[i + (k + 1)] = g[k + 1] OBVIOUS
  <2> DEFINE m == i + (k + 1)
  <2>2. /\ m \in i .. j /\ m # i /\ m - 1 = i + k /\ k + 1 \in 1 .. N /\ (k + 1) - 1 = k
        /\ i + (k + 1) - 1 = m - 1 /\ k <= N
    BY <1>2, <1>b, <2>1
  <2>3. f[m - 1] = g[k] BY <1>7, <2>2
  <2>4. f[m] = f[m - 1] * 10 + DigitValue(s[m - 1]) BY <1>5, <2>2
  <2>5. g[k + 1] = g[k] * 10 + DigitValue(s[i + (k + 1) - 1]) BY <1>3, <2>2
  <2>6. s[i + (k + 1) - 1] = s[m - 1] BY <2>2
  <2> HIDE DEF m
  <2>7. f[m] = g[k + 1] BY <2>3, <2>4, <2>5, <2>6
  <2> QED BY <2>7 DEF m
<1> HIDE DEF S
<1>8. Nat \subseteq S BY <1>6, <1>7, Steps
<1>9. f[i + N] = g[N] BY <1>2, <1>8 DEF S
<1>10. ParseInt(s, i, j) = n BY <1>5, <1>9, <1>a, <1>b
<1> QED BY <1>4, <1>10 DEF Parses, j

LEMMA ValueOfNumeral ==
  ASSUME NEW n \in Nat, NEW base \in {10, 16}, NEW upper \in BOOLEAN, NEW t, Len(t) \in Nat,
         \E g : NumeralBy(g, t, base, upper, n)
  PROVE  ValueOf(t, base) = n
<1>1. PICK g : NumeralBy(g, t, base, upper, n) OBVIOUS
<1> DEFINE N == Len(t)
           digit(c) == CHOOSE d \in 0 .. base - 1 : \E u \in BOOLEAN : DigitChar[u][d + 1] = c
           at(f, k) == IF k = 0 THEN 0 ELSE f[k - 1] * base + digit(t[k])
           Def(f) == f = [k \in 0 .. N |-> at(f, k)]
           F == CHOOSE f : Def(f)
<1>2. ValueOf(t, base) = F[N] BY DEF ValueOf
<1> HIDE DEF F
<1>3. N \in Nat OBVIOUS
<1>4. /\ g \in [0 .. N -> Nat] /\ g[0] = 0 /\ g[N] = n
      /\ \A k \in 1 .. N : \E d \in 0 .. base - 1 :
           t[k] = DigitChar[upper][d + 1] /\ g[k] = g[k - 1] * base + d
  BY <1>1 DEF NumeralBy
<1> HIDE DEF N
<1>5. ASSUME NEW d \in 0 .. base - 1 PROVE digit(DigitChar[upper][d + 1]) = d
  <2> DEFINE is(e) == \E u \in BOOLEAN : DigitChar[u][e + 1] = DigitChar[upper][d + 1]
  <2>1. is(d) OBVIOUS
  <2>2. ASSUME NEW e \in 0 .. base - 1, is(e) PROVE e = d
    <3>1. d \in 0 .. 15 /\ e \in 0 .. 15 OBVIOUS
    <3> QED BY <2>2, <3>1, DigitsDiffer
  <2> HIDE DEF is
  <2>3. (CHOOSE e \in 0 .. base - 1 : is(e)) = d BY <2>1, <2>2
  <2> QED BY <2>3 DEF is
<1> HIDE DEF digit
<1>6. ASSUME NEW k \in 1 .. N PROVE g[k] = g[k - 1] * base + digit(t[k])
  <2>1. PICK d \in 0 .. base - 1 : t[k] = DigitChar[upper][d + 1] /\ g[k] = g[k - 1] * base + d
    BY <1>4
  <2> QED BY <1>5, <2>1
<1>7. Def(g)
  <2>1. ASSUME NEW k \in 0 .. N PROVE g[k] = at(g, k)
    <3>1. k = 0 \/ k \in 1 .. N BY <1>3
    <3>2. ~(0 \in 1 .. N) BY <1>3
    <3> QED BY <1>4, <1>6, <3>1, <3>2
  <2> HIDE DEF at
  <2> QED BY <1>4, <2>1
<1>8. Def(F) BY <1>7 DEF F
<1>9. \A k \in 0 .. N : F[k] = at(F, k)
  <2> DEFINE h == [k \in 0 .. N |-> at(F, k)]
  <2>1. F = h BY <1>8
  <2>2. \A k \in 0 .. N : h[k] = at(F, k) OBVIOUS
  <2> HIDE DEF h
  <2> QED BY <2>1, <2>2
<1> DEFINE S == {k \in Nat : k <= N => F[k] = g[k]}
<1>10. 0 \in S
  <2>1. 0 \in 0 .. N BY <1>3
  <2> QED BY <1>4, <1>9, <2>1
<1>11. ASSUME NEW k \in Nat, k \in S PROVE k + 1 \in S
  <2>1. SUFFICES ASSUME k + 1 <= N PROVE F[k + 1] = g[k + 1] OBVIOUS
  <2>2. k + 1 \in 0 .. N /\ k + 1 \in 1 .. N /\ k + 1 # 0 /\ (k + 1) - 1 = k /\ k <= N
    BY <1>3, <2>1
  <2>3. F[k + 1] = F[k] * base + digit(t[k + 1]) BY <1>9, <2>2
  <2>4. g[k + 1] = g[k] * base + digit(t[k + 1]) BY <1>6, <2>2
  <2> QED BY <1>11, <2>2, <2>3, <2>4
<1> HIDE DEF S
<1>12. Nat \subseteq S BY <1>10, <1>11, Steps
<1>13. F[N] = g[N] BY <1>3, <1>12 DEF S
<1> QED BY <1>2, <1>4, <1>13


-------------------------------------------------------------------------------
\* A format is parsed back into the conversion it was written for.
Specs == {"c", "d", "p", "s", "u", "x", "X"}

LEMMA SpanEndAt ==
  ASSUME NEW T, NEW s \in Seq(T), NEW i \in Nat \ {0}, NEW j \in i .. Len(s), NEW C, Nul \notin C,
         \A k \in i .. j - 1 : s[k] \in C, s[j] \notin C
  PROVE  SpanEnd(s, i, C) = j
<1>1. i \in 1 .. Len(s) + 1 OBVIOUS
<1> DEFINE e == SpanEnd(s, i, C)
<1>2. e \in i .. Len(s) + 1 /\ (e <= Len(s) => s[e] \notin C) /\ \A k \in i .. e - 1 : s[k] \in C
  BY <1>1, SpanEndIs
<1> HIDE DEF e
<1>3. CASE e < j
  <2>1. e \in i .. j - 1 /\ e <= Len(s) BY <1>2, <1>3
  <2> QED BY <1>2, <2>1
<1>4. CASE e > j
  <2>1. j \in i .. e - 1 BY <1>2, <1>4
  <2> QED BY <1>2, <2>1
<1>5. e = j BY <1>2, <1>3, <1>4
<1> QED BY <1>5 DEF e

\* A part stays where it is when the text grows, and what is appended follows.
LEMMA Grown ==
  ASSUME NEW T, NEW s \in Seq(T), NEW t \in Seq(T)
  PROVE  /\ s \o t \in Seq(T) /\ Len(s \o t) = Len(s) + Len(t)
         /\ \A k \in 1 .. Len(s) : (s \o t)[k] = s[k]
         /\ Holds(s \o t, Len(s) + 1, t)
<1> DEFINE v == s \o t
<1>1. /\ v \in Seq(T) /\ Len(v) = Len(s) + Len(t)
      /\ \A k \in 1 .. Len(s) + Len(t) : v[k] = IF k <= Len(s) THEN s[k] ELSE t[k - Len(s)]
  BY ConcatProperties
<1>2. Len(s) \in Nat /\ Len(t) \in Nat OBVIOUS
<1> HIDE DEF v
<1>3. \A k \in 1 .. Len(s) : v[k] = s[k] BY <1>1, <1>2
<1>4. \A k \in 1 .. Len(t) : v[(Len(s) + 1) + k - 1] = t[k]
  <2>1. SUFFICES ASSUME NEW k \in 1 .. Len(t) PROVE v[(Len(s) + 1) + k - 1] = t[k] OBVIOUS
  <2> DEFINE m == (Len(s) + 1) + k - 1
  <2>2. m \in 1 .. Len(s) + Len(t) /\ ~(m <= Len(s)) /\ m - Len(s) = k BY <1>2
  <2> HIDE DEF m
  <2>3. v[m] = t[k] BY <1>1, <2>2
  <2> QED BY <2>3 DEF m
<1>5. (Len(s) + 1) + Len(t) <= Len(v) + 1 BY <1>1, <1>2
<1>6. Holds(v, Len(s) + 1, t) BY <1>4, <1>5 DEF Holds
<1> QED BY <1>1, <1>3, <1>6 DEF v

LEMMA StillHolds ==
  ASSUME NEW T, NEW s \in Seq(T), NEW t \in Seq(T), NEW i \in Nat \ {0}, NEW u,
         Len(u) \in Nat, Holds(s, i, u)
  PROVE  Holds(s \o t, i, u)
<1> DEFINE v == s \o t
<1>1. Len(v) = Len(s) + Len(t) /\ \A k \in 1 .. Len(s) : v[k] = s[k] BY Grown
<1>2. Len(s) \in Nat /\ Len(t) \in Nat OBVIOUS
<1>3. i + Len(u) <= Len(s) + 1 /\ \A k \in 1 .. Len(u) : s[i + k - 1] = u[k] BY DEF Holds
<1> HIDE DEF v
<1>4. \A k \in 1 .. Len(u) : v[i + k - 1] = u[k]
  <2>1. SUFFICES ASSUME NEW k \in 1 .. Len(u) PROVE v[i + k - 1] = u[k] OBVIOUS
  <2>2. i + k - 1 \in 1 .. Len(s) BY <1>2, <1>3
  <2> QED BY <1>1, <1>3, <2>2
<1>5. i + Len(u) <= Len(v) + 1 BY <1>1, <1>2, <1>3
<1>6. Holds(v, i, u) BY <1>4, <1>5 DEF Holds
<1> QED BY <1>6 DEF v

\* s is a '%' and the flags A.
Flagged(s, A) ==
  /\ s \in Seq(STRING) /\ Len(s) >= 1 /\ s[1] = "%"
  /\ A \subseteq FlagChars
  /\ \A k \in 2 .. Len(s) : s[k] \in A
  /\ \A x \in A : \E k \in 2 .. Len(s) : s[k] = x

LEMMA FlagOn ==
  ASSUME NEW s, NEW A, Flagged(s, A), NEW b \in BOOLEAN, NEW x \in FlagChars
  PROVE  Flagged(s \o (IF b THEN <<x>> ELSE <<>>), IF b THEN A \union {x} ELSE A)
<1>1. s \in Seq(STRING) /\ Len(s) \in Nat BY DEF Flagged
<1>2. CASE ~b
  <2>1. s \o <<>> = s BY <1>1, ConcatEmptySeq
  <2> QED BY <1>2, <2>1
<1>3. CASE b
  <2> DEFINE t == <<x>>
             v == s \o t
  <2>1. x \in STRING BY LiteralAssumption DEF FlagChars, Decimal
  <2>2. t \in Seq(STRING) /\ Len(t) = 1 /\ t[1] = x BY <2>1, OneLong
  <2> HIDE DEF t
  <2>3. /\ v \in Seq(STRING) /\ Len(v) = Len(s) + 1
        /\ \A k \in 1 .. Len(s) : v[k] = s[k]
        /\ Holds(v, Len(s) + 1, t)
    <3>1. /\ v \in Seq(STRING) /\ Len(v) = Len(s) + Len(t)
          /\ \A k \in 1 .. Len(s) : v[k] = s[k]
          /\ Holds(v, Len(s) + 1, t)
      BY <1>1, <2>2, Grown, Zenon
    <3> QED BY <2>2, <3>1
  <2> HIDE DEF v
  <2>4. v[Len(s) + 1] = x
    <3>1. 1 \in 1 .. Len(t) /\ (Len(s) + 1) + 1 - 1 = Len(s) + 1 BY <1>1, <2>2
    <3>2. v[(Len(s) + 1) + 1 - 1] = t[1] BY <2>3, <3>1 DEF Holds
    <3> QED BY <2>2, <3>1, <3>2
  <2> DEFINE N == Len(s)
             B == A \union {x}
  <2>5. /\ N >= 1 /\ s[1] = "%" /\ A \subseteq FlagChars
        /\ \A k \in 2 .. N : s[k] \in A
        /\ \A y \in A : \E k \in 2 .. N : s[k] = y
    BY DEF Flagged
  <2>6. N \in Nat /\ Len(v) = N + 1 /\ v[N + 1] = x /\ \A k \in 1 .. N : v[k] = s[k]
    BY <1>1, <2>3, <2>4
  <2> HIDE DEF N
  <2>7. \A k \in 2 .. N + 1 : v[k] \in B BY <2>5, <2>6
  <2>8. \A y \in B : \E k \in 2 .. N + 1 : v[k] = y
    <3>1. ASSUME NEW y \in A PROVE \E k \in 2 .. N + 1 : v[k] = y
      <4>1. PICK k \in 2 .. N : s[k] = y BY <2>5
      <4>2. k \in 1 .. N /\ k \in 2 .. N + 1 BY <2>6
      <4> QED BY <2>6, <4>1, <4>2
    <3>2. N + 1 \in 2 .. N + 1 BY <2>5, <2>6
    <3> QED BY <2>6, <3>1, <3>2
  <2>9. v[1] = "%" /\ Len(v) >= 1 BY <2>5, <2>6
  <2>10. B \subseteq FlagChars BY <2>5
  <2> HIDE DEF B
  <2>11. Flagged(v, B) BY <2>3, <2>6, <2>7, <2>8, <2>9, <2>10 DEF Flagged
  <2> QED BY <1>3, <2>11 DEF v, B, t
<1> QED BY <1>2, <1>3

LEMMA JoinedTuples ==
  ASSUME NEW a, NEW b, NEW c
  PROVE  /\ <<a>> \o <<b>> = <<a, b>>
         /\ <<a, b>> \o <<c>> = <<a, b, c>>
         /\ <<>> \o <<a>> = <<a>> /\ <<a>> \o <<>> = <<a>>
         /\ <<>> \o <<>> = <<>>
<1> DEFINE S == {a, b, c}
<1>1. /\ <<a>> \in Seq(S) /\ <<b>> \in Seq(S) /\ <<c>> \in Seq(S) /\ <<a, b>> \in Seq(S)
      /\ <<a, b, c>> \in Seq(S) /\ <<>> \in Seq(S)
  OBVIOUS
<1>2. a \in S /\ b \in S /\ c \in S OBVIOUS
<1>3. <<a>> \o <<b>> = <<a, b>>
  <2> DEFINE u == <<a>>
             v == <<b>>
             t == <<a, b>>
  <2>1. Len(u) = 1 /\ u[1] = a /\ Len(v) = 1 /\ v[1] = b /\ Len(t) = 2 /\ t[1] = a /\ t[2] = b
    OBVIOUS
  <2>2. u \in Seq(S) /\ v \in Seq(S) /\ t \in Seq(S) BY <1>1
  <2> HIDE DEF u, v, t, S
  <2>a. u \o v \in Seq(S) /\ Len(u \o v) = Len(u) + Len(v) BY <2>2, ConcatProperties, Zenon
  <2>3. u \o v \in Seq(S) /\ Len(u \o v) = 2 BY <2>1, <2>a
  <2>4. \A i \in 1 .. 2 : (u \o v)[i] = t[i]
    <3>1. /\ 1 \in 1 .. Len(u) + Len(v) /\ 2 \in 1 .. Len(u) + Len(v)
          /\ 1 <= Len(u) /\ ~(2 <= Len(u)) /\ 2 - Len(u) = 1
      BY <2>1
    <3>2. (u \o v)[1] = u[1] /\ (u \o v)[2] = v[1] BY <2>2, <3>1, ConcatProperties
    <3> QED BY <2>1, <3>2
  <2>5. u \o v = t BY <2>1, <2>2, <2>3, <2>4, SeqEqual
  <2> QED BY <2>5 DEF u, v, t
<1>4. <<a, b>> \o <<c>> = <<a, b, c>>
  <2> DEFINE u == <<a, b>>
             v == <<c>>
             t == <<a, b, c>>
  <2>1. /\ Len(u) = 2 /\ u[1] = a /\ u[2] = b /\ Len(v) = 1 /\ v[1] = c
        /\ Len(t) = 3 /\ t[1] = a /\ t[2] = b /\ t[3] = c
    OBVIOUS
  <2>2. u \in Seq(S) /\ v \in Seq(S) /\ t \in Seq(S) BY <1>1
  <2> HIDE DEF u, v, t, S
  <2>a. u \o v \in Seq(S) /\ Len(u \o v) = Len(u) + Len(v) BY <2>2, ConcatProperties, Zenon
  <2>3. u \o v \in Seq(S) /\ Len(u \o v) = 3 BY <2>1, <2>a
  <2>4. \A i \in 1 .. 3 : (u \o v)[i] = t[i]
    <3>1. /\ 1 \in 1 .. Len(u) + Len(v) /\ 2 \in 1 .. Len(u) + Len(v)
          /\ 3 \in 1 .. Len(u) + Len(v)
          /\ 1 <= Len(u) /\ 2 <= Len(u) /\ ~(3 <= Len(u)) /\ 3 - Len(u) = 1
      BY <2>1
    <3>2. (u \o v)[1] = u[1] /\ (u \o v)[2] = u[2] /\ (u \o v)[3] = v[1]
      BY <2>2, <3>1, ConcatProperties
    <3>3. 1 .. 3 = {1, 2, 3} OBVIOUS
    <3> QED BY <2>1, <3>2, <3>3
  <2>5. u \o v = t BY <2>1, <2>2, <2>3, <2>4, SeqEqual
  <2> QED BY <2>5 DEF u, v, t
<1> HIDE DEF S
<1>5. <<>> \o <<a>> = <<a>> /\ <<a>> \o <<>> = <<a>> BY <1>1, ConcatEmptySeq
<1>6. <<>> \o <<>> = <<>> BY <1>1, ConcatEmptySeq
<1> QED BY <1>3, <1>4, <1>5, <1>6

LEMMA ArgumentsIs ==
  ASSUME NEW c, c.star \in BOOLEAN
  PROVE  Arguments(c) = IF ~c.star THEN <<c.arg>>
                        ELSE IF c.prec >= 0 THEN <<c.width, c.prec, c.arg>>
                        ELSE <<c.width, c.arg>>
<1> DEFINE w == c.width
           p == c.prec
           x == c.arg
<1>1. Arguments(c) = (IF c.star THEN <<w>> ELSE <<>>)
                     \o (IF c.star /\ c.prec >= 0 THEN <<p>> ELSE <<>>) \o <<x>>
  BY DEF Arguments
<1> HIDE DEF w, p, x
<1>2. CASE ~c.star BY <1>1, <1>2, JoinedTuples, Zenon DEF x
<1>3. CASE c.star /\ c.prec >= 0
  <2>1. Arguments(c) = <<w>> \o <<p>> \o <<x>> BY <1>1, <1>3, Zenon
  <2>2. Arguments(c) = <<w, p, x>> BY <2>1, JoinedTuples, Zenon
  <2> QED BY <1>3, <2>2 DEF w, p, x
<1>4. CASE c.star /\ ~(c.prec >= 0)
  <2>1. Arguments(c) = <<w>> \o <<>> \o <<x>> BY <1>1, <1>4, Zenon
  <2>2. Arguments(c) = <<w, x>> BY <2>1, JoinedTuples, Zenon
  <2> QED BY <1>4, <2>2 DEF w, x
<1> QED BY <1>2, <1>3, <1>4

\* The parts of the format: '%' with the flags, width, precision, modifier.
WidthOf(c) == IF c.star THEN <<"*">> ELSE IF c.width = 0 THEN <<>> ELSE BufPutInt(c.width)
PrecOf(c) ==
  IF c.prec < 0 THEN <<>> ELSE <<".">> \o IF c.star THEN <<"*">> ELSE BufPutInt(c.prec)

FlagsOf(c) ==
  UNION {IF c.left THEN {"-"} ELSE {}, IF c.zero THEN {"0"} ELSE {}, IF c.plus THEN {"+"} ELSE {},
         IF c.space THEN {" "} ELSE {}, IF c.alt THEN {"#"} ELSE {}}

LEMMA FlagsIn ==
  ASSUME NEW c
  PROVE  /\ "-" \in FlagsOf(c) <=> c.left
         /\ "0" \in FlagsOf(c) <=> c.zero
         /\ "+" \in FlagsOf(c) <=> c.plus
         /\ " " \in FlagsOf(c) <=> c.space
         /\ "#" \in FlagsOf(c) <=> c.alt
BY DEF FlagsOf

LEMMA SpellIs ==
  ASSUME NEW c, {c.left, c.zero, c.plus, c.space, c.alt} \subseteq BOOLEAN
  PROVE  \E s : /\ Flagged(s, FlagsOf(c))
                /\ Spell(c) = s \o WidthOf(c) \o PrecOf(c) \o c.modifier \o <<c.spec>>
<1> DEFINE s0 == <<"%">>
           s1 == s0 \o (IF c.left THEN <<"-">> ELSE <<>>)
           s2 == s1 \o (IF c.zero THEN <<"0">> ELSE <<>>)
           s3 == s2 \o (IF c.plus THEN <<"+">> ELSE <<>>)
           s4 == s3 \o (IF c.space THEN <<" ">> ELSE <<>>)
           s5 == s4 \o (IF c.alt THEN <<"#">> ELSE <<>>)
           A1 == IF c.left THEN {} \union {"-"} ELSE {}
           A2 == IF c.zero THEN A1 \union {"0"} ELSE A1
           A3 == IF c.plus THEN A2 \union {"+"} ELSE A2
           A4 == IF c.space THEN A3 \union {" "} ELSE A3
           A5 == IF c.alt THEN A4 \union {"#"} ELSE A4
<1>1. Spell(c) = s5 \o WidthOf(c) \o PrecOf(c) \o c.modifier \o <<c.spec>>
  BY Zenon DEF Spell, WidthOf, PrecOf
<1>2. /\ c.left \in BOOLEAN /\ c.zero \in BOOLEAN /\ c.plus \in BOOLEAN
      /\ c.space \in BOOLEAN /\ c.alt \in BOOLEAN
  OBVIOUS
<1>3. Flagged(s0, {})
  <2>1. "%" \in STRING BY LiteralAssumption
  <2>2. s0 \in Seq(STRING) /\ Len(s0) = 1 /\ s0[1] = "%" BY <2>1, OneLong
  <2> HIDE DEF s0
  <2> QED BY <2>2 DEF Flagged
<1>4. /\ "-" \in FlagChars /\ "0" \in FlagChars /\ "+" \in FlagChars
      /\ " " \in FlagChars /\ "#" \in FlagChars
  BY DEF FlagChars
<1> HIDE DEF s0
<1>5. Flagged(s1, A1) BY <1>2, <1>3, <1>4, FlagOn, Zenon
<1> HIDE DEF s1
<1>6. Flagged(s2, A2) BY <1>2, <1>4, <1>5, FlagOn, Zenon
<1> HIDE DEF s2
<1>7. Flagged(s3, A3) BY <1>2, <1>4, <1>6, FlagOn, Zenon
<1> HIDE DEF s3
<1>8. Flagged(s4, A4) BY <1>2, <1>4, <1>7, FlagOn, Zenon
<1> HIDE DEF s4
<1>9. Flagged(s5, A5) BY <1>2, <1>4, <1>8, FlagOn, Zenon
<1> HIDE DEF s5
<1>10. A5 = FlagsOf(c) BY SMTT(20), ZenonT(30) DEF FlagsOf
<1> HIDE DEF A5
<1> QED BY <1>1, <1>9, <1>10

\* Where the parts of a text of five are.
InFive(s, T, h, w, p, m, z) ==
  LET i1 == Len(h) + 1
      i2 == i1 + Len(w)
      i3 == i2 + Len(p)
      i4 == i3 + Len(m)
  IN  /\ s \in Seq(T) /\ Len(s) = i4 /\ s[i4] = z
      /\ \A k \in 1 .. Len(h) : s[k] = h[k]
      /\ Holds(s, i1, w) /\ Holds(s, i2, p) /\ Holds(s, i3, m)

LEMMA FiveParts ==
  ASSUME NEW T, NEW h \in Seq(T), NEW w \in Seq(T), NEW p \in Seq(T), NEW m \in Seq(T),
         NEW z \in T, NEW s, s = h \o w \o p \o m \o <<z>>
  PROVE  InFive(s, T, h, w, p, m, z)
<1> DEFINE n == Len(h)
           a == Len(w)
           b == Len(p)
           c == Len(m)
           x1 == h \o w
           x2 == x1 \o p
           x3 == x2 \o m
           y == <<z>>
<1>1. n \in Nat /\ a \in Nat /\ b \in Nat /\ c \in Nat OBVIOUS
<1>2. y \in Seq(T) /\ Len(y) = 1 /\ y[1] = z BY OneLong
<1>3. s = x3 \o y OBVIOUS
<1>4. /\ x1 \in Seq(T) /\ Len(x1) = n + a /\ Holds(x1, n + 1, w)
      /\ \A k \in 1 .. n : x1[k] = h[k]
  BY Grown, Zenon
<1> HIDE DEF x1, y
<1>5. /\ x2 \in Seq(T) /\ Len(x2) = Len(x1) + b /\ Holds(x2, Len(x1) + 1, p)
      /\ \A k \in 1 .. Len(x1) : x2[k] = x1[k]
  BY <1>4, Grown, Zenon
<1>6. Holds(x2, n + 1, w)
  <2>1. n + 1 \in Nat \ {0} BY <1>1
  <2> QED BY <1>1, <1>4, <2>1, StillHolds, Zenon
<1> HIDE DEF x2
<1>7. /\ x3 \in Seq(T) /\ Len(x3) = Len(x2) + c /\ Holds(x3, Len(x2) + 1, m)
      /\ \A k \in 1 .. Len(x2) : x3[k] = x2[k]
  BY <1>5, Grown, Zenon
<1>8. Holds(x3, n + 1, w) /\ Holds(x3, Len(x1) + 1, p)
  <2>1. n + 1 \in Nat \ {0} /\ Len(x1) + 1 \in Nat \ {0} BY <1>1, <1>4
  <2> QED BY <1>1, <1>5, <1>6, <2>1, StillHolds, Zenon
<1> HIDE DEF x3
<1>9. /\ s \in Seq(T) /\ Len(s) = Len(x3) + Len(y) /\ Holds(s, Len(x3) + 1, y)
      /\ \A k \in 1 .. Len(x3) : s[k] = x3[k]
  <2>1. /\ x3 \o y \in Seq(T) /\ Len(x3 \o y) = Len(x3) + Len(y) /\ Holds(x3 \o y, Len(x3) + 1, y)
        /\ \A k \in 1 .. Len(x3) : (x3 \o y)[k] = x3[k]
    <3>1. x3 \in Seq(T) /\ y \in Seq(T) BY <1>2, <1>7
    <3> QED BY <3>1, Grown, Zenon
  <2> QED BY <1>3, <2>1, Zenon
<1>10. Holds(s, n + 1, w) /\ Holds(s, Len(x1) + 1, p) /\ Holds(s, Len(x2) + 1, m)
  <2>1. n + 1 \in Nat \ {0} /\ Len(x1) + 1 \in Nat \ {0} /\ Len(x2) + 1 \in Nat \ {0}
    BY <1>1, <1>4, <1>5
  <2> QED BY <1>1, <1>2, <1>3, <1>7, <1>8, <2>1, StillHolds, Zenon
<1> HIDE DEF n, a, b, c
<1> DEFINE l1 == Len(x1)
           l2 == Len(x2)
           l3 == Len(x3)
<1>11. l1 = n + a /\ l2 = l1 + b /\ l3 = l2 + c /\ Len(s) = l3 + 1
  BY <1>2, <1>4, <1>5, <1>7, <1>9
<1>12. \A k \in 1 .. n : s[k] = h[k]
  <2>1. SUFFICES ASSUME NEW k \in 1 .. n PROVE s[k] = h[k] OBVIOUS
  <2>2. k \in 1 .. l1 /\ k \in 1 .. l2 /\ k \in 1 .. l3 BY <1>1, <1>11
  <2> QED BY <1>4, <1>5, <1>7, <1>9, <2>2
<1>13. s[l3 + 1] = z
  <2>1. 1 \in 1 .. Len(y) /\ (l3 + 1) + 1 - 1 = l3 + 1 BY <1>1, <1>2, <1>11
  <2>2. s[(l3 + 1) + 1 - 1] = y[1] BY <1>9, <2>1 DEF Holds
  <2> QED BY <1>2, <2>1, <2>2
<1> HIDE DEF l1, l2, l3
<1>14. /\ l1 + 1 = (n + 1) + a /\ l2 + 1 = (n + 1) + a + b
       /\ l3 + 1 = (n + 1) + a + b + c
  BY <1>1, <1>11
<1>15. /\ Holds(s, (n + 1) + a, p) /\ Holds(s, (n + 1) + a + b, m)
       /\ Len(s) = (n + 1) + a + b + c /\ s[(n + 1) + a + b + c] = z
  <2>1. Holds(s, l1 + 1, p) /\ Holds(s, l2 + 1, m) BY <1>10 DEF l1, l2
  <2>2. Len(s) = l3 + 1 BY <1>11
  <2> QED BY <1>13, <1>14, <2>1, <2>2, Zenon
<1> QED BY <1>9, <1>10, <1>12, <1>15 DEF n, a, b, c, InFive

LEMMA NumeralText ==
  ASSUME NEW t, NEW n, IsNumeral(t, 10, FALSE, n)
  PROVE  /\ t \in Seq(Decimal) /\ t \in Seq(STRING) /\ Len(t) \in Nat \ {0}
         /\ (n > 0 => t[1] # "0")
<1>1. PICK g : NumeralBy(g, t, 10, FALSE, n) BY DEF IsNumeral
<1>2. t \in Seq(DigitSet(FALSE)) /\ Len(t) > 0 /\ (n > 0 => t[1] # "0") BY DEF IsNumeral
<1>3. \A k \in 1 .. Len(t) : t[k] \in Decimal
  <2>1. SUFFICES ASSUME NEW k \in 1 .. Len(t) PROVE t[k] \in Decimal OBVIOUS
  <2>2. 0 .. 10 - 1 = 0 .. 9 OBVIOUS
  <2>3. PICK d \in 0 .. 9 : t[k] = DigitChar[FALSE][d + 1] BY <1>1, <2>2, Zenon DEF NumeralBy
  <2> QED BY <2>3, DecimalIs
<1> DEFINE C == DigitSet(FALSE)
<1> HIDE DEF C
<1>a. t \in Seq(C) BY <1>2 DEF C
<1>4. Len(t) \in Nat BY <1>a
<1>5. t \in Seq(Decimal) BY <1>3, <1>a
<1>6. t \in Seq(STRING)
  <2>1. \A k \in 1 .. Len(t) : t[k] \in STRING BY <1>3, LiteralAssumption
  <2> QED BY <1>a, <2>1
<1> QED BY <1>2, <1>4, <1>5, <1>6

LEMMA BufPutIntIs ==
  ASSUME NEW n \in Nat PROVE IsNumeral(BufPutInt(n), 10, FALSE, n)
<1>1. ~(n < 0) OBVIOUS
<1>2. BufPutInt(n) = U64ToBase(n, 10, FALSE) BY <1>1, Zenon DEF BufPutInt
<1> QED BY <1>2, U64IsNumeral

LEMMA WidthOfIs ==
  ASSUME NEW c, IsConversion(c)
  PROVE  /\ WidthOf(c) \in Seq(STRING)
         /\ c.star => Len(WidthOf(c)) = 1 /\ WidthOf(c)[1] = "*"
         /\ ~c.star /\ c.width = 0 => Len(WidthOf(c)) = 0
         /\ ~c.star /\ c.width # 0 => c.width > 0 /\ IsNumeral(WidthOf(c), 10, FALSE, c.width)
<1>1. c.width \in Int /\ (c.width < 0 => c.star) BY DEF IsConversion
<1>2. CASE c.star
  <2>1. WidthOf(c) = <<"*">> BY <1>2 DEF WidthOf
  <2>2. "*" \in STRING BY LiteralAssumption
  <2>3. WidthOf(c) \in Seq(STRING) BY <2>1, <2>2, OneLong
  <2> QED BY <1>2, <2>1, <2>3
<1>3. CASE ~c.star /\ c.width = 0
  <2>1. WidthOf(c) = <<>> BY <1>3 DEF WidthOf
  <2> QED BY <1>3, <2>1
<1>4. CASE ~c.star /\ c.width # 0
  <2>1. WidthOf(c) = BufPutInt(c.width) BY <1>4 DEF WidthOf
  <2>2. c.width \in Nat /\ c.width > 0 BY <1>1, <1>4
  <2>3. IsNumeral(WidthOf(c), 10, FALSE, c.width) BY <2>1, <2>2, BufPutIntIs
  <2>4. WidthOf(c) \in Seq(STRING) BY <2>3, NumeralText
  <2> QED BY <1>4, <2>2, <2>3, <2>4
<1> QED BY <1>2, <1>3, <1>4

LEMMA PrecOfIs ==
  ASSUME NEW c, IsConversion(c)
  PROVE  /\ PrecOf(c) \in Seq(STRING)
         /\ c.prec < 0 => Len(PrecOf(c)) = 0
         /\ c.prec >= 0 => PrecOf(c)[1] = "."
         /\ c.prec >= 0 /\ c.star => Len(PrecOf(c)) = 2 /\ PrecOf(c)[2] = "*"
         /\ c.prec >= 0 /\ ~c.star =>
              \E t : /\ IsNumeral(t, 10, FALSE, c.prec) /\ Len(PrecOf(c)) = 1 + Len(t)
                     /\ \A k \in 1 .. Len(t) : PrecOf(c)[k + 1] = t[k]
<1>1. c.prec \in Int BY DEF IsConversion
<1>2. CASE c.prec < 0
  <2>1. PrecOf(c) = <<>> BY <1>2 DEF PrecOf
  <2>2. ~(c.prec >= 0) BY <1>1, <1>2
  <2>3. PrecOf(c) \in Seq(STRING) /\ Len(PrecOf(c)) = 0 BY <2>1
  <2> QED BY <2>2, <2>3, Zenon
<1>3. CASE c.prec >= 0
  <2> DEFINE t == IF c.star THEN <<"*">> ELSE BufPutInt(c.prec)
             dot == <<".">>
  <2>1. PrecOf(c) = dot \o t BY <1>1, <1>3 DEF PrecOf
  <2>2. "*" \in STRING /\ "." \in STRING BY LiteralAssumption
  <2>3. dot \in Seq(STRING) /\ Len(dot) = 1 /\ dot[1] = "." BY <2>2, OneLong
  <2>4. c.star => t \in Seq(STRING) /\ Len(t) = 1 /\ t[1] = "*"
    <3>1. SUFFICES ASSUME c.star PROVE t \in Seq(STRING) /\ Len(t) = 1 /\ t[1] = "*" OBVIOUS
    <3>2. t = <<"*">> BY <3>1
    <3>3. t \in Seq(STRING) BY <2>2, <3>2, OneLong
    <3> QED BY <3>2, <3>3
  <2>5. ~c.star => t \in Seq(STRING) /\ IsNumeral(t, 10, FALSE, c.prec)
    <3>1. SUFFICES ASSUME ~c.star PROVE t \in Seq(STRING) /\ IsNumeral(t, 10, FALSE, c.prec)
      OBVIOUS
    <3>2. t = BufPutInt(c.prec) /\ c.prec \in Nat BY <1>1, <1>3, <3>1
    <3>3. IsNumeral(t, 10, FALSE, c.prec) BY <3>2, BufPutIntIs
    <3> QED BY <3>3, NumeralText
  <2>6. t \in Seq(STRING) BY <2>4, <2>5
  <2> HIDE DEF t, dot
  <2>7. /\ dot \o t \in Seq(STRING) /\ Len(dot \o t) = Len(dot) + Len(t)
        /\ \A k \in 1 .. Len(dot) : (dot \o t)[k] = dot[k]
        /\ Holds(dot \o t, Len(dot) + 1, t)
    BY <2>3, <2>6, Grown, Zenon
  <2> DEFINE v == PrecOf(c)
  <2>8. v \in Seq(STRING) /\ Len(v) = 1 + Len(t) /\ v[1] = "."
    <3>1. 1 \in 1 .. Len(dot) BY <2>3
    <3> QED BY <2>1, <2>3, <2>7, <3>1
  <2>9. \A k \in 1 .. Len(t) : v[k + 1] = t[k]
    <3>1. \A k \in 1 .. Len(t) : v[2 + k - 1] = t[k]
      <4>1. Holds(v, 2, t) BY <2>1, <2>3, <2>7
      <4> HIDE DEF v
      <4> QED BY <4>1 DEF Holds
    <3>2. \A k \in 1 .. Len(t) : 2 + k - 1 = k + 1 OBVIOUS
    <3> HIDE DEF v
    <3> QED BY <3>1, <3>2
  <2> HIDE DEF v
  <2>10. c.star => Len(v) = 2 /\ v[2] = "*"
    <3>1. SUFFICES ASSUME c.star PROVE Len(v) = 2 /\ v[2] = "*" OBVIOUS
    <3>2. Len(t) = 1 /\ t[1] = "*" BY <2>4, <3>1
    <3>3. 1 \in 1 .. Len(t) /\ 1 + 1 = 2 BY <3>2
    <3> QED BY <2>8, <2>9, <3>2, <3>3
  <2>11. ~(c.prec < 0) BY <1>1, <1>3
  <2> QED BY <1>3, <2>5, <2>8, <2>9, <2>10, <2>11, Zenon DEF v
<1>4. c.prec < 0 \/ c.prec >= 0 BY <1>1
<1> QED BY <1>2, <1>3, <1>4, Zenon


\* Where the parts of a conversion's format begin, and what they begin with.
Spelled(s, c, i1, i2, i3, i4) ==
  /\ s \in Seq(STRING) /\ Len(s) = i4
  /\ i1 \in Nat /\ i2 \in Nat /\ i3 \in Nat /\ i4 \in Nat
  /\ 2 <= i1 /\ i1 <= i2 /\ i2 <= i3 /\ i3 <= i4
  /\ s[1] = "%"
  /\ \A k \in 2 .. i1 - 1 : s[k] \in FlagsOf(c)
  /\ \A x \in FlagsOf(c) : \E k \in 2 .. i1 - 1 : s[k] = x
  /\ c.star => s[i1] = "*" /\ i2 = i1 + 1
  /\ ~c.star /\ c.width = 0 => i1 = i2
  /\ ~c.star /\ c.width # 0 =>
       /\ i1 < i2 /\ s[i1] # "0" /\ c.width \in Nat
       /\ ParseInt(s, i1, i2) = c.width /\ \A k \in i1 .. i2 - 1 : s[k] \in Decimal
  /\ c.prec < 0 => i2 = i3
  /\ c.prec >= 0 => s[i2] = "." /\ i2 < i3
  /\ c.prec >= 0 /\ c.star => s[i2 + 1] = "*" /\ i3 = i2 + 2
  /\ c.prec >= 0 /\ ~c.star =>
       /\ i2 + 1 < i3 
       /\ ParseInt(s, i2 + 1, i3) = c.prec /\ \A k \in i2 + 1 .. i3 - 1 : s[k] \in Decimal
  /\ c.modifier = <<>> => i3 = i4
  /\ c.modifier = <<"l">> => s[i3] = "l" /\ i4 = i3 + 1
  /\ c.modifier = <<"l", "l">> => s[i3] = "l" /\ s[i3 + 1] = "l" /\ i4 = i3 + 2
  /\ s[i4] = c.spec

LEMMA FirstHeld ==
  ASSUME NEW s, NEW i \in Nat, NEW t, Len(t) \in Nat, Holds(s, i, t)
  PROVE  /\ Len(t) >= 1 => s[i] = t[1]
         /\ Len(t) >= 2 => s[i + 1] = t[2]
<1>1. \A k \in 1 .. Len(t) : s[i + k - 1] = t[k] BY DEF Holds
<1>2. ASSUME Len(t) >= 1 PROVE s[i] = t[1]
  <2>1. 1 \in 1 .. Len(t) /\ i + 1 - 1 = i BY <1>2
  <2>2. s[i + 1 - 1] = t[1] BY <1>1, <2>1
  <2> QED BY <2>1, <2>2
<1>3. ASSUME Len(t) >= 2 PROVE s[i + 1] = t[2]
  <2>1. 2 \in 1 .. Len(t) /\ i + 2 - 1 = i + 1 BY <1>3
  <2>2. s[i + 2 - 1] = t[2] BY <1>1, <2>1
  <2> QED BY <2>1, <2>2
<1> QED BY <1>2, <1>3

LEMMA SpellSpelled ==
  ASSUME NEW c, IsConversion(c)
  PROVE  \E i1, i2, i3, i4 : Spelled(Spell(c), c, i1, i2, i3, i4)
<1> DEFINE w == WidthOf(c)
           p == PrecOf(c)
           m == c.modifier
           s == Spell(c)
<1>1. /\ {c.left, c.zero, c.plus, c.space, c.alt, c.star} \subseteq BOOLEAN
      /\ c.width \in Int /\ c.prec \in Int /\ m \in {<<>>, <<"l">>, <<"l", "l">>}
      /\ c.spec \in STRING /\ (c.width < 0 => c.star)
  BY LiteralAssumption DEF IsConversion
<1>2. PICK h : Flagged(h, FlagsOf(c)) /\ s = h \o w \o p \o m \o <<c.spec>>
  <2>1. {c.left, c.zero, c.plus, c.space, c.alt} \subseteq BOOLEAN BY <1>1
  <2> QED BY <2>1, SpellIs
<1>3. /\ h \in Seq(STRING) /\ Len(h) >= 1 /\ h[1] = "%"
      /\ \A k \in 2 .. Len(h) : h[k] \in FlagsOf(c)
      /\ \A x \in FlagsOf(c) : \E k \in 2 .. Len(h) : h[k] = x
  BY <1>2 DEF Flagged
<1>4. m \in Seq(STRING)
  <2>1. "l" \in STRING BY LiteralAssumption
  <2>2. <<>> \in Seq(STRING) /\ <<"l">> \in Seq(STRING) /\ <<"l", "l">> \in Seq(STRING) BY <2>1
  <2> QED BY <1>1, <2>2
<1>5. w \in Seq(STRING) /\ p \in Seq(STRING) BY WidthOfIs, PrecOfIs
<1> DEFINE i1 == Len(h) + 1
           i2 == i1 + Len(w)
           i3 == i2 + Len(p)
           i4 == i3 + Len(m)
<1> HIDE DEF s, w, p, m
<1>6. /\ s \in Seq(STRING) /\ Len(s) = i4 /\ s[i4] = c.spec
      /\ \A k \in 1 .. Len(h) : s[k] = h[k]
      /\ Holds(s, i1, w) /\ Holds(s, i2, p) /\ Holds(s, i3, m)
  <2>1. s = h \o w \o p \o m \o <<c.spec>> BY <1>2
  <2>2. h \in Seq(STRING) /\ w \in Seq(STRING) /\ p \in Seq(STRING) /\ m \in Seq(STRING)
    BY <1>3, <1>4, <1>5
  <2>3. c.spec \in STRING BY <1>1
  <2>4. InFive(s, STRING, h, w, p, m, c.spec) BY <2>1, <2>2, <2>3, FiveParts, Zenon
  <2> QED BY <2>4 DEF InFive
<1>7. /\ Len(h) \in Nat /\ Len(w) \in Nat /\ Len(p) \in Nat /\ Len(m) \in Nat
  BY <1>3, <1>4, <1>5
<1>8. /\ i1 \in Nat /\ i2 \in Nat /\ i3 \in Nat /\ i4 \in Nat
      /\ 2 <= i1 /\ i1 <= i2 /\ i2 <= i3 /\ i3 <= i4 /\ i1 - 1 = Len(h)
  BY <1>3, <1>7
<1>9. /\ s[1] = "%"
      /\ \A k \in 2 .. i1 - 1 : s[k] \in FlagsOf(c)
      /\ \A x \in FlagsOf(c) : \E k \in 2 .. i1 - 1 : s[k] = x
  <2> DEFINE n == Len(h)
  <2>1. n \in Nat /\ n >= 1 /\ i1 - 1 = n BY <1>3, <1>7, <1>8
  <2>2. \A k \in 2 .. n : k \in 1 .. n BY <2>1
  <2>3. 1 \in 1 .. n BY <2>1
  <2>4. s[1] = "%" BY <1>3, <1>6, <2>3
  <2>5. \A k \in 2 .. n : s[k] \in FlagsOf(c) BY <1>3, <1>6, <2>2
  <2>6. \A x \in FlagsOf(c) : \E k \in 2 .. n : s[k] = x BY <1>3, <1>6, <2>2
  <2> QED BY <2>1, <2>4, <2>5, <2>6, Zenon
<1> HIDE DEF i4
<1>10. c.star => s[i1] = "*" /\ i2 = i1 + 1
  <2>1. SUFFICES ASSUME c.star PROVE s[i1] = "*" /\ i2 = i1 + 1 OBVIOUS
  <2>2. Len(w) = 1 /\ w[1] = "*" BY <2>1, WidthOfIs DEF w
  <2>3. i2 = i1 + 1 BY <2>2
  <2> HIDE DEF i1, i2
  <2>4. s[i1] = w[1] BY <1>6, <1>7, <1>8, <2>2, FirstHeld
  <2> QED BY <2>2, <2>3, <2>4
<1>11. ~c.star /\ c.width = 0 => i1 = i2
  <2>1. SUFFICES ASSUME ~c.star /\ c.width = 0 PROVE i1 = i2 OBVIOUS
  <2>2. Len(w) = 0 BY <2>1, WidthOfIs DEF w
  <2> QED BY <1>8, <2>2
<1>12. ~c.star /\ c.width # 0 =>
         /\ i1 < i2 /\ s[i1] # "0" /\ c.width \in Nat
         /\ ParseInt(s, i1, i2) = c.width /\ \A k \in i1 .. i2 - 1 : s[k] \in Decimal
  <2>1. SUFFICES ASSUME ~c.star /\ c.width # 0
                 PROVE  /\ i1 < i2 /\ s[i1] # "0" /\ c.width \in Nat
                        /\ ParseInt(s, i1, i2) = c.width
                        /\ \A k \in i1 .. i2 - 1 : s[k] \in Decimal
    OBVIOUS
  <2>2. c.width > 0 /\ IsNumeral(w, 10, FALSE, c.width) BY <2>1, WidthOfIs DEF w
  <2>3. Len(w) >= 1 /\ w[1] # "0"
    <3>1. Len(w) \in Nat \ {0} /\ (c.width > 0 => w[1] # "0") BY <2>2, NumeralText, Zenon
    <3> QED BY <2>2, <3>1
  <2>4. i1 < i2 /\ i2 = i1 + Len(w) BY <1>7, <1>8, <2>3
  <2>5. c.width \in Nat BY <1>1, <2>2
  <2> HIDE DEF i1, i2
  <2>6. s[i1] = w[1] BY <1>6, <1>7, <1>8, <2>3, FirstHeld
  <2>7. ParseInt(s, i1, i2) = c.width /\ \A k \in i1 .. i2 - 1 : s[k] \in Decimal
    <3> DEFINE n == c.width
    <3>1. IsNumeral(w, 10, FALSE, n) /\ n \in Nat BY <2>2, <2>5
    <3> HIDE DEF n, i3
    <3>2. i1 \in Nat /\ Holds(s, i1, w) BY <1>6, <1>8
    <3>3. Parses(s, i1, i1 + Len(w), n) BY <3>1, <3>2, ParsesNumeral
    <3> QED BY <2>4, <3>3 DEF n, Parses
  <2> QED BY <2>3, <2>4, <2>5, <2>6, <2>7
<1> HIDE DEF i1
<1>13. c.prec < 0 => i2 = i3
  <2>1. SUFFICES ASSUME c.prec < 0 PROVE i2 = i3 OBVIOUS
  <2>2. Len(p) = 0 BY <2>1, PrecOfIs DEF p
  <2> QED BY <1>8, <2>2
<1>14. c.prec >= 0 /\ c.star => s[i2] = "." /\ s[i2 + 1] = "*" /\ i3 = i2 + 2
  <2>1. SUFFICES ASSUME c.prec >= 0 /\ c.star PROVE s[i2] = "." /\ s[i2 + 1] = "*" /\ i3 = i2 + 2
    OBVIOUS
  <2>2. Len(p) = 2 /\ p[1] = "." /\ p[2] = "*" BY <2>1, PrecOfIs DEF p
  <2>3. i3 = i2 + 2 BY <2>2
  <2> HIDE DEF i2, i3
  <2>4. Len(p) >= 1 /\ Len(p) >= 2 BY <2>2
  <2>5. s[i2] = p[1] /\ s[i2 + 1] = p[2] BY <1>6, <1>7, <1>8, <2>4, FirstHeld
  <2> QED BY <2>2, <2>3, <2>5
<1>15. c.prec >= 0 /\ ~c.star =>
       /\ s[i2] = "." /\ i2 + 1 < i3
       /\ ParseInt(s, i2 + 1, i3) = c.prec /\ \A k \in i2 + 1 .. i3 - 1 : s[k] \in Decimal
  <2>1. SUFFICES ASSUME c.prec >= 0 /\ ~c.star
                 PROVE  /\ s[i2] = "." /\ i2 + 1 < i3
                        /\ ParseInt(s, i2 + 1, i3) = c.prec
                        /\ \A k \in i2 + 1 .. i3 - 1 : s[k] \in Decimal
    OBVIOUS
  <2>2. p[1] = "." BY <2>1, PrecOfIs DEF p
  <2>3. PICK t : /\ IsNumeral(t, 10, FALSE, c.prec) /\ Len(p) = 1 + Len(t)
                 /\ \A k \in 1 .. Len(t) : p[k + 1] = t[k]
    BY <2>1, PrecOfIs, Zenon DEF p
  <2>4. Len(t) \in Nat /\ Len(t) >= 1
    <3>1. Len(t) \in Nat \ {0} BY <2>3, NumeralText, Zenon
    <3> QED BY <3>1
  <2>5. i3 = i2 + 1 + Len(t) /\ i2 + 1 < i3 /\ c.prec \in Nat BY <1>1, <1>8, <2>1, <2>3, <2>4
  <2> HIDE DEF i2, i3
  <2>6. s[i2] = p[1] BY <1>6, <1>7, <1>8, <2>3, <2>4, FirstHeld
  <2>7. Holds(s, i2 + 1, t)
    <3>1. i2 + Len(p) <= Len(s) + 1 /\ \A k \in 1 .. Len(p) : s[i2 + k - 1] = p[k]
      BY <1>6 DEF Holds
    <3> DEFINE n == Len(t)
    <3>2. (i2 + 1) + n <= Len(s) + 1 /\ n \in Nat BY <1>7, <1>8, <2>3, <2>4, <3>1
    <3>3. ASSUME NEW k \in 1 .. n PROVE s[(i2 + 1) + k - 1] = t[k]
      <4>1. k + 1 \in 1 .. Len(p) /\ i2 + (k + 1) - 1 = (i2 + 1) + k - 1
        BY <1>8, <2>3, <2>4
      <4>2. s[i2 + (k + 1) - 1] = p[k + 1] BY <3>1, <4>1
      <4> QED BY <2>3, <3>3, <4>1, <4>2
    <3> QED BY <3>2, <3>3 DEF Holds
  <2>8. ParseInt(s, i2 + 1, i3) = c.prec /\ \A k \in i2 + 1 .. i3 - 1 : s[k] \in Decimal
    <3>1. i2 + 1 \in Nat BY <1>8
    <3>2. IsNumeral(t, 10, FALSE, c.prec) /\ i3 = (i2 + 1) + Len(t) /\ c.prec \in Nat BY <2>3, <2>5
    <3> DEFINE i == i2 + 1
    <3> HIDE DEF i
    <3>3. i \in Nat /\ i3 = i + Len(t) /\ Holds(s, i, t) BY <2>7, <3>1, <3>2 DEF i
    <3>4. Parses(s, i, i + Len(t), c.prec) BY <3>2, <3>3, ParsesNumeral
    <3> QED BY <3>3, <3>4 DEF i, Parses
  <2> QED BY <2>2, <2>5, <2>6, <2>8
<1>16. c.prec >= 0 => s[i2] = "." /\ i2 < i3 BY <1>8, <1>14, <1>15
<1> HIDE DEF i2
<1>17. /\ m = <<>> => i3 = i4
       /\ m = <<"l">> => s[i3] = "l" /\ i4 = i3 + 1
       /\ m = <<"l", "l">> => s[i3] = "l" /\ s[i3 + 1] = "l" /\ i4 = i3 + 2
  <2>1. i4 = i3 + Len(m) BY DEF i4
  <2> HIDE DEF i3
  <2>2. /\ Len(m) >= 1 => s[i3] = m[1]
        /\ Len(m) >= 2 => s[i3 + 1] = m[2]
    BY <1>6, <1>7, <1>8, FirstHeld
  <2>3. m = <<>> => Len(m) = 0 OBVIOUS
  <2>4. m = <<"l">> => Len(m) = 1 /\ m[1] = "l" OBVIOUS
  <2>5. m = <<"l", "l">> => Len(m) = 2 /\ m[1] = "l" /\ m[2] = "l" OBVIOUS
  <2>6. m = <<>> => i3 = i4 BY <1>8, <2>1, <2>3
  <2>7. m = <<"l">> => s[i3] = "l" /\ i4 = i3 + 1
    <3>1. SUFFICES ASSUME m = <<"l">> PROVE s[i3] = "l" /\ i4 = i3 + 1 OBVIOUS
    <3>2. Len(m) = 1 /\ m[1] = "l" BY <2>4, <3>1
    <3>3. i4 = i3 + 1 /\ Len(m) >= 1 BY <2>1, <3>2
    <3> QED BY <2>2, <3>2, <3>3
  <2>8. m = <<"l", "l">> => s[i3] = "l" /\ s[i3 + 1] = "l" /\ i4 = i3 + 2
    <3>1. SUFFICES ASSUME m = <<"l", "l">>
                   PROVE s[i3] = "l" /\ s[i3 + 1] = "l" /\ i4 = i3 + 2
      OBVIOUS
    <3>2. Len(m) = 2 /\ m[1] = "l" /\ m[2] = "l" BY <2>5, <3>1
    <3>3. i4 = i3 + 2 /\ Len(m) >= 1 /\ Len(m) >= 2 BY <2>1, <3>2
    <3> QED BY <2>2, <3>2, <3>3
  <2> QED BY <2>6, <2>7, <2>8, Zenon
<1> HIDE DEF i3
<1>18. Spelled(s, c, i1, i2, i3, i4)
  BY <1>6, <1>8, <1>9, <1>10, <1>11, <1>12, <1>13, <1>14, <1>15, <1>16, <1>17, Zenon
     DEF Spelled, m
<1> QED BY <1>18 DEF s


\* What parse_format must read from the format of c, of length n.
Parsed(f, c, n) ==
  /\ f.left = (c.left \/ c.width < 0) /\ f.zero = c.zero /\ f.plus = c.plus /\ f.space = c.space
  /\ f.alt = (c.alt \/ c.spec = "p") /\ f.upper = (c.spec = "X")
  /\ f.width = (IF c.width < 0 THEN -c.width ELSE c.width)
  /\ f.prec = (IF c.prec < 0 THEN -1 ELSE c.prec)
  /\ f.spec = c.spec /\ f.next = n + 1
  /\ f.arg \in Nat /\ Arguments(c)[f.arg] = c.arg

LEMMA ParsesSpelled ==
  ASSUME NEW c, IsConversion(c), NEW s, NEW i1, NEW i2, NEW i3, NEW i4,
         Spelled(s, c, i1, i2, i3, i4)
  PROVE  /\ Parsed(ParseFormat(s, 2, Arguments(c), 1), c, Len(s))
         /\ Len(s) >= 2 /\ s[1] = "%" /\ s[2] # "%"
<1> DEFINE args == Arguments(c)
           iw == SpanEnd(s, 2, FlagChars)
           flags == ToSet(SubSeq(s, 2, iw - 1))
           starW == CharAt(s, iw) = "*"
           id == IF starW THEN iw + 1 ELSE SpanEnd(s, iw, Decimal)
           width == IF starW THEN args[1] ELSE ParseInt(s, iw, id)
           ap == IF starW THEN 1 + 1 ELSE 1
           dot == CharAt(s, id) = "."
           starP == dot /\ CharAt(s, id + 1) = "*"
           il == IF starP THEN id + 2 ELSE IF dot THEN SpanEnd(s, id + 1, Decimal) ELSE id
           prec == IF starP THEN args[ap] ELSE IF dot THEN ParseInt(s, id + 1, il) ELSE -1
           is == IF CharAt(s, il) # "l" THEN il
                 ELSE IF CharAt(s, il + 1) = "l" THEN il + 2 ELSE il + 1
           spec == CharAt(s, is)
           f == ParseFormat(s, 2, args, 1)
<1>1. /\ f.left = ("-" \in flags \/ width < 0) /\ f.zero = ("0" \in flags)
      /\ f.plus = ("+" \in flags) /\ f.space = (" " \in flags)
      /\ f.alt = ("#" \in flags \/ spec = "p") /\ f.upper = (spec = "X")
      /\ f.width = (IF width < 0 THEN -width ELSE width)
      /\ f.prec = (IF prec < 0 THEN -1 ELSE prec)
      /\ f.spec = spec /\ f.next = (IF spec = Nul THEN is ELSE is + 1)
      /\ f.arg = (IF starP THEN ap + 1 ELSE ap)
  BY DEF ParseFormat, FlagChars
<1> HIDE DEF f
<1>2. /\ {c.left, c.zero, c.plus, c.space, c.alt, c.star} \subseteq BOOLEAN
      /\ c.width \in Int /\ c.prec \in Int /\ c.modifier \in {<<>>, <<"l">>, <<"l", "l">>}
      /\ c.spec \in Specs /\ (c.width < 0 => c.star)
  BY DEF IsConversion, Specs
<1>3. /\ s \in Seq(STRING) /\ Len(s) = i4
      /\ i1 \in Nat /\ i2 \in Nat /\ i3 \in Nat /\ i4 \in Nat
      /\ 2 <= i1 /\ i1 <= i2 /\ i2 <= i3 /\ i3 <= i4
      /\ s[1] = "%" /\ s[i4] = c.spec
      /\ \A k \in 2 .. i1 - 1 : s[k] \in FlagsOf(c)
      /\ \A x \in FlagsOf(c) : \E k \in 2 .. i1 - 1 : s[k] = x
  BY DEF Spelled
<1>4. /\ c.star => s[i1] = "*" /\ i2 = i1 + 1
      /\ ~c.star /\ c.width = 0 => i1 = i2
      /\ ~c.star /\ c.width # 0 =>
           /\ i1 < i2 /\ s[i1] # "0" /\ c.width \in Nat
           /\ ParseInt(s, i1, i2) = c.width /\ \A k \in i1 .. i2 - 1 : s[k] \in Decimal
  BY DEF Spelled
<1>5. /\ c.prec < 0 => i2 = i3
      /\ c.prec >= 0 => s[i2] = "." /\ i2 < i3
      /\ c.prec >= 0 /\ c.star => s[i2 + 1] = "*" /\ i3 = i2 + 2
      /\ c.prec >= 0 /\ ~c.star =>
           /\ i2 + 1 < i3
           /\ ParseInt(s, i2 + 1, i3) = c.prec /\ \A k \in i2 + 1 .. i3 - 1 : s[k] \in Decimal
  BY DEF Spelled
<1>6. /\ c.modifier = <<>> => i3 = i4
      /\ c.modifier = <<"l">> => s[i3] = "l" /\ i4 = i3 + 1
      /\ c.modifier = <<"l", "l">> => s[i3] = "l" /\ s[i3 + 1] = "l" /\ i4 = i3 + 2
  BY DEF Spelled
<1>7. s[i3] \in Specs \union {"l"} BY <1>2, <1>3, <1>6
<1>8. s[i2] \in Specs \union {"l", "."} /\ (c.prec < 0 => s[i2] # ".")
  <2>1. c.prec < 0 \/ c.prec >= 0 BY <1>2
  <2> QED BY <1>5, <1>7, <2>1 DEF Specs
<1>9. /\ s[i1] \in Specs \union {"l", ".", "*"} \union (Decimal \ {"0"})
      /\ (s[i1] = "*" <=> c.star)
  <2>1. CASE c.star BY <1>4, <2>1
  <2>2. CASE ~c.star /\ c.width = 0
    <3>1. s[i1] = s[i2] BY <1>4, <2>2
    <3>2. "*" \notin Specs \union {"l", "."} BY DEF Specs
    <3> QED BY <1>8, <2>2, <3>1, <3>2
  <2>3. CASE ~c.star /\ c.width # 0
    <3>1. i1 \in i1 .. i2 - 1 BY <1>3, <1>4, <2>3
    <3>2. s[i1] \in Decimal /\ s[i1] # "0" BY <1>4, <2>3, <3>1
    <3>3. "*" \notin Decimal BY DEF Decimal
    <3> QED BY <2>3, <3>2, <3>3
  <2> QED BY <2>1, <2>2, <2>3
<1>10. \A k \in Nat : k <= i4 => CharAt(s, k) = s[k] BY <1>3 DEF CharAt
<1>11. iw = i1
  <2>1. FlagsOf(c) \subseteq FlagChars BY DEF FlagsOf, FlagChars
  <2>2. \A k \in 2 .. i1 - 1 : s[k] \in FlagChars BY <1>3, <2>1
  <2>3. s[i1] \notin FlagChars BY <1>9 DEF FlagChars, Specs, Decimal
  <2>4. 2 \in Nat \ {0} /\ i1 \in 2 .. Len(s) /\ s \in Seq(STRING) BY <1>3
  <2>5. Nul \notin FlagChars BY NoTerminator
  <2>6. SpanEnd(s, 2, FlagChars) = i1 BY <2>2, <2>3, <2>4, <2>5, SpanEndAt, Zenon
  <2> QED BY <2>6
<1>12. flags = FlagsOf(c)
  <2> DEFINE u == SubSeq(s, 2, i1 - 1)
  <2>1. DOMAIN u = 1 .. i1 - 2 /\ \A k \in 1 .. i1 - 2 : u[k] = s[k + 1]
    BY <1>3
  <2>2. flags = {u[k] : k \in DOMAIN u} BY <1>11 DEF ToSet
  <2> HIDE DEF u
  <2>3. \A x : x \in flags => x \in FlagsOf(c)
    <3>1. SUFFICES ASSUME NEW k \in 1 .. i1 - 2 PROVE u[k] \in FlagsOf(c) BY <2>1, <2>2
    <3>2. k + 1 \in 2 .. i1 - 1 BY <1>3
    <3> QED BY <1>3, <2>1, <3>2
  <2>4. \A x : x \in FlagsOf(c) => x \in flags
    <3>1. SUFFICES ASSUME NEW x \in FlagsOf(c) PROVE x \in {u[k] : k \in DOMAIN u} BY <2>2
    <3>2. PICK k \in 2 .. i1 - 1 : s[k] = x BY <1>3
    <3>3. k - 1 \in 1 .. i1 - 2 /\ (k - 1) + 1 = k BY <1>3
    <3>4. u[k - 1] = x BY <2>1, <3>2, <3>3
    <3> QED BY <2>1, <3>3, <3>4
  <2> QED BY <2>3, <2>4, Zenon
<1> HIDE DEF iw, flags
<1>13. starW <=> c.star BY <1>3, <1>9, <1>10, <1>11
<1>14. id = i2
  <2>1. CASE c.star BY <1>3, <1>4, <1>11, <1>13, <2>1
  <2>2. CASE ~c.star
    <3>1. \A k \in i1 .. i2 - 1 : s[k] \in Decimal BY <1>3, <1>4, <2>2
    <3>2. s[i2] \notin Decimal BY <1>8 DEF Decimal, Specs
    <3>3. i1 \in Nat \ {0} /\ i2 \in i1 .. Len(s) /\ s \in Seq(STRING) BY <1>3
    <3>4. SpanEnd(s, i1, Decimal) = i2
      <4>1. Nul \notin Decimal BY NoTerminator
      <4> QED BY <3>1, <3>2, <3>3, <4>1, SpanEndAt, Zenon
    <3> QED BY <1>11, <1>13, <2>2, <3>4
  <2> QED BY <2>1, <2>2
<1>15. args = IF ~c.star THEN <<c.arg>>
              ELSE IF c.prec >= 0 THEN <<c.width, c.prec, c.arg>> ELSE <<c.width, c.arg>>
  BY <1>2, ArgumentsIs
<1> HIDE DEF args, id
<1>16. width = c.width
  <2>1. CASE c.star BY <1>13, <1>15, <2>1
  <2>2. CASE ~c.star /\ c.width = 0
    <3>1. i1 = i2 BY <1>4, <2>2
    <3>2. \A k \in i1 .. i1 - 1 : s[k] \in Decimal BY <1>3
    <3>3. PICK g : ParseBy(g, s, i1, i1) /\ ParseInt(s, i1, i1) = g[i1]
      BY <1>3, <3>2, ParseIntFn
    <3>4. i1 \in i1 .. i1 BY <1>3
    <3>5. g[i1] = 0 BY <3>3, <3>4 DEF ParseBy
    <3> QED BY <1>11, <1>13, <1>14, <2>2, <3>1, <3>3, <3>5
  <2>3. CASE ~c.star /\ c.width # 0 BY <1>4, <1>11, <1>13, <1>14, <2>3
  <2> QED BY <2>1, <2>2, <2>3
<1>17. ap = (IF c.star THEN 2 ELSE 1) BY <1>13
<1> HIDE DEF starW, width, ap
<1>18. dot <=> c.prec >= 0
  <2>1. c.prec < 0 \/ c.prec >= 0 BY <1>2
  <2>2. CharAt(s, id) = s[i2] BY <1>3, <1>10, <1>14
  <2>3. ~(c.prec >= 0 /\ c.prec < 0) BY <1>2
  <2> QED BY <1>5, <1>8, <2>1, <2>2, <2>3
<1>19. starP <=> c.prec >= 0 /\ c.star
  <2>1. CASE c.prec >= 0 /\ c.star
    <3>1. i2 + 1 <= i4 /\ i2 + 1 \in Nat BY <1>3, <1>5, <2>1
    <3>2. CharAt(s, id + 1) = "*" BY <1>5, <1>10, <1>14, <2>1, <3>1
    <3> QED BY <1>18, <2>1, <3>2
  <2>2. CASE c.prec >= 0 /\ ~c.star
    <3>1. i2 + 1 <= i4 /\ i2 + 1 \in Nat /\ i2 + 1 \in i2 + 1 .. i3 - 1 BY <1>3, <1>5, <2>2
    <3>2. CharAt(s, id + 1) \in Decimal BY <1>5, <1>10, <1>14, <2>2, <3>1
    <3>3. "*" \notin Decimal BY DEF Decimal
    <3> QED BY <2>2, <3>2, <3>3
  <2>3. CASE ~(c.prec >= 0) BY <1>18, <2>3
  <2> QED BY <2>1, <2>2, <2>3
<1> HIDE DEF dot, starP
<1>20. il = i3
  <2>1. CASE c.prec >= 0 /\ c.star BY <1>5, <1>14, <1>19, <2>1
  <2>2. CASE c.prec >= 0 /\ ~c.star
    <3> DEFINE j == i2 + 1
    <3>1. \A k \in j .. i3 - 1 : s[k] \in Decimal BY <1>5, <2>2
    <3>2. s[i3] \notin Decimal BY <1>7 DEF Decimal, Specs
    <3>3. j \in Nat \ {0} /\ i3 \in j .. Len(s) /\ s \in Seq(STRING) BY <1>3, <1>5, <2>2
    <3> HIDE DEF j
    <3>4. SpanEnd(s, j, Decimal) = i3
      <4>1. Nul \notin Decimal BY NoTerminator
      <4> QED BY <3>1, <3>2, <3>3, <4>1, SpanEndAt, Zenon
    <3> QED BY <1>14, <1>18, <1>19, <2>2, <3>4 DEF j
  <2>3. CASE ~(c.prec >= 0)
    <3>1. i2 = i3 BY <1>2, <1>5, <2>3
    <3> QED BY <1>14, <1>18, <1>19, <2>3, <3>1
  <2> QED BY <2>1, <2>2, <2>3
<1> HIDE DEF il
<1>21. prec = (IF c.prec < 0 THEN -1 ELSE c.prec)
  <2>1. CASE c.prec >= 0 /\ c.star
    <3>1. args[2] = c.prec BY <1>15, <2>1
    <3>2. ~(c.prec < 0) BY <1>2, <2>1
    <3> QED BY <1>17, <1>19, <2>1, <3>1, <3>2
  <2>2. CASE c.prec >= 0 /\ ~c.star
    <3>1. ~(c.prec < 0) BY <1>2, <2>2
    <3> QED BY <1>5, <1>14, <1>18, <1>19, <1>20, <2>2, <3>1
  <2>3. CASE ~(c.prec >= 0)
    <3>1. c.prec < 0 BY <1>2, <2>3
    <3> QED BY <1>18, <1>19, <2>3, <3>1
  <2> QED BY <2>1, <2>2, <2>3
<1> HIDE DEF prec
<1>22. is = i4
  <2>1. CharAt(s, i3) = s[i3] /\ s[i4] # "l" BY <1>2, <1>3, <1>10 DEF Specs
  <2>2. CASE c.modifier = <<>> BY <1>6, <1>20, <2>1, <2>2
  <2>3. CASE c.modifier = <<"l">>
    <3>1. CharAt(s, il + 1) = s[i4] BY <1>3, <1>6, <1>10, <1>20, <2>3
    <3> QED BY <1>6, <1>20, <2>1, <2>3, <3>1
  <2>4. CASE c.modifier = <<"l", "l">>
    <3>1. i3 + 1 \in Nat /\ i3 + 1 <= i4 BY <1>3, <1>6, <2>4
    <3>2. CharAt(s, il + 1) = "l" BY <1>6, <1>10, <1>20, <2>4, <3>1
    <3> QED BY <1>6, <1>20, <2>1, <2>4, <3>2
  <2> QED BY <1>2, <2>2, <2>3, <2>4
<1> HIDE DEF is
<1>23. spec = c.spec /\ spec # Nul
  <2>1. spec = c.spec BY <1>3, <1>10, <1>22
  <2>2. Specs \subseteq STRING BY LiteralAssumption DEF Specs
  <2> QED BY <1>2, <2>1, <2>2, CharAssumption
<1> HIDE DEF spec
<1>24. f.arg \in Nat /\ args[f.arg] = c.arg
  <2>1. CASE ~c.star
    <3>1. f.arg = 1 BY <1>1, <1>17, <1>19, <2>1
    <3> QED BY <1>15, <2>1, <3>1
  <2>2. CASE c.star /\ c.prec >= 0
    <3>1. ap = 2 /\ starP BY <1>17, <1>19, <2>2
    <3>2. f.arg = ap + 1 BY <1>1, <3>1
    <3>3. f.arg = 3 BY <3>1, <3>2
    <3>4. args = <<c.width, c.prec, c.arg>> BY <1>15, <2>2
    <3> QED BY <3>3, <3>4
  <2>3. CASE c.star /\ ~(c.prec >= 0)
    <3>1. f.arg = 2 BY <1>1, <1>17, <1>19, <2>3
    <3> QED BY <1>15, <2>3, <3>1
  <2> QED BY <2>1, <2>2, <2>3
<1>25. /\ f.left = (c.left \/ c.width < 0) /\ f.zero = c.zero /\ f.plus = c.plus
       /\ f.space = c.space /\ f.alt = (c.alt \/ c.spec = "p") /\ f.upper = (c.spec = "X")
  <2>1. /\ ("-" \in flags) = c.left /\ ("0" \in flags) = c.zero /\ ("+" \in flags) = c.plus
        /\ (" " \in flags) = c.space /\ ("#" \in flags) = c.alt
    <3>1. /\ "-" \in flags <=> c.left
          /\ "0" \in flags <=> c.zero
          /\ "+" \in flags <=> c.plus
          /\ " " \in flags <=> c.space
          /\ "#" \in flags <=> c.alt
      BY <1>12, FlagsIn, Zenon
    <3>2. \A x : ("-" \in x) \in BOOLEAN /\ ("0" \in x) \in BOOLEAN /\ ("+" \in x) \in BOOLEAN
               /\ (" " \in x) \in BOOLEAN /\ ("#" \in x) \in BOOLEAN
      OBVIOUS
    <3> QED BY <1>2, <3>1, <3>2
  <2> QED BY <1>1, <1>16, <1>23, <2>1, Zenon
<1>26. /\ f.width = (IF c.width < 0 THEN -c.width ELSE c.width) /\ f.spec = c.spec
       /\ f.prec = (IF c.prec < 0 THEN -1 ELSE c.prec) /\ f.next = Len(s) + 1
  <2>1. prec < 0 <=> c.prec < 0 BY <1>2, <1>21
  <2>2. f.prec = (IF c.prec < 0 THEN -1 ELSE c.prec) BY <1>1, <1>21, <2>1
  <2>3. f.width = (IF c.width < 0 THEN -c.width ELSE c.width) /\ f.spec = c.spec
    BY <1>1, <1>16, <1>23
  <2>4. f.next = Len(s) + 1 BY <1>1, <1>3, <1>22, <1>23
  <2> QED BY <2>2, <2>3, <2>4
<1>27. Parsed(f, c, Len(s)) BY <1>24, <1>25, <1>26, Zenon DEF Parsed, args
<1>28. s[2] # "%"
  <2>1. CASE i1 = 2 BY <1>9, <2>1 DEF Specs, Decimal
  <2>2. CASE i1 # 2
    <3>1. 2 \in 2 .. i1 - 1 BY <1>3, <2>2
    <3>2. s[2] \in FlagsOf(c) BY <1>3, <3>1
    <3> QED BY <3>2 DEF FlagsOf
  <2> QED BY <2>1, <2>2
<1> QED BY <1>3, <1>27, <1>28 DEF f, args

\* A number in its field.

IsPad(s, T, c, n) == s \in Seq(T) /\ Len(s) = n /\ \A k \in 1 .. n : s[k] = c

LEMMA PadIs ==
  ASSUME NEW T, NEW c \in T, NEW n \in Int
  PROVE  /\ IsPad(Pad(n, c), T, c, Longer(n, 0))
         /\ Pad(n, c) = Pad(Longer(n, 0), c)
         /\ Longer(n, 0) \in Nat
<1> DEFINE N == Longer(n, 0)
           s == Pad(n, c)
<1>1. N \in Nat /\ 1 .. n = 1 .. N BY DEF Longer
<1> HIDE DEF N
<1>2. s = [k \in 1 .. N |-> c] /\ s = Pad(N, c) BY <1>1 DEF Pad
<1> HIDE DEF s
<1>3. s \in [1 .. N -> T] /\ \A k \in 1 .. N : s[k] = c BY <1>2
<1>4. s \in Seq(T) BY <1>1, <1>3, SeqDef
<1>5. Len(s) = N BY <1>1, <1>3, <1>4, LenProperties
<1> QED BY <1>1, <1>2, <1>3, <1>4, <1>5 DEF N, s, IsPad

LEMMA PadOf ==
  ASSUME NEW T, NEW c \in T, NEW n \in Nat
  PROVE  IsPad(Pad(n, c), T, c, n)
<1>1. Longer(n, 0) = n /\ n \in Int BY DEF Longer
<1>2. IsPad(Pad(n, c), T, c, Longer(n, 0)) BY <1>1, PadIs
<1> QED BY <1>1, <1>2, Zenon

LEMMA PadMore ==
  ASSUME NEW T, NEW c \in T, NEW m \in Nat, NEW n \in Nat
  PROVE  Pad(m, c) \o Pad(n, c) = Pad(m + n, c)
<1> DEFINE a == Pad(m, c)
           b == Pad(n, c)
           d == Pad(m + n, c)
<1>1. IsPad(a, T, c, m) /\ IsPad(b, T, c, n)
  BY PadOf, Zenon
<1>a. IsPad(d, T, c, m + n)
  <2>1. m + n \in Nat OBVIOUS
  <2> QED BY <2>1, PadOf, Zenon
<1> HIDE DEF a, b, d
<1>2. /\ a \in Seq(T) /\ Len(a) = m /\ \A k \in 1 .. m : a[k] = c
      /\ b \in Seq(T) /\ Len(b) = n /\ \A k \in 1 .. n : b[k] = c
      /\ d \in Seq(T) /\ Len(d) = m + n /\ \A k \in 1 .. m + n : d[k] = c
  BY <1>1, <1>a DEF IsPad
<1>3. /\ a \o b \in Seq(T) /\ Len(a \o b) = Len(a) + Len(b)
      /\ \A i \in 1 .. Len(a) + Len(b) : (a \o b)[i] = IF i <= Len(a) THEN a[i] ELSE b[i - Len(a)]
  BY <1>2, ConcatProperties
<1> DEFINE e == a \o b
<1> HIDE DEF e
<1>4. e \in Seq(T) /\ Len(e) = m + n BY <1>2, <1>3 DEF e
<1>5. ASSUME NEW i \in 1 .. m + n PROVE e[i] = d[i]
  <2>1. e[i] = IF i <= m THEN a[i] ELSE b[i - m] BY <1>2, <1>3 DEF e
  <2>2. i <= m => a[i] = c BY <1>2
  <2>3. ~(i <= m) => b[i - m] = c
    <3>1. SUFFICES ASSUME ~(i <= m) PROVE b[i - m] = c OBVIOUS
    <3>2. i - m \in 1 .. n BY <3>1
    <3> QED BY <1>2, <3>2
  <2> QED BY <1>2, <2>1, <2>2, <2>3
<1>6. e = d BY <1>2, <1>4, <1>5, SeqEqual
<1> QED BY <1>6 DEF e, a, b, d

LEMMA HeldIs ==
  ASSUME NEW T, NEW s \in Seq(T), NEW i \in Nat \ {0}, NEW t \in Seq(T), Holds(s, i, t)
  PROVE  SubSeq(s, i, i + Len(t) - 1) = t
<1> DEFINE n == Len(t)
           j == i + n - 1
           u == SubSeq(s, i, j)
<1>1. n \in Nat /\ i + n <= Len(s) + 1 /\ \A k \in 1 .. n : s[i + k - 1] = t[k] BY DEF Holds
<1> HIDE DEF n
<1>2. \A k \in i .. j : s[k] \in T
  <2>1. \A k \in i .. j : k \in 1 .. Len(s) BY <1>1
  <2> QED BY <2>1
<1>3. i \in Int /\ j \in Int /\ j - i + 1 = n BY <1>1
<1> HIDE DEF j
<1>4. /\ u \in Seq(T) /\ Len(u) = IF i <= j THEN j - i + 1 ELSE 0
      /\ \A k \in 1 .. j - i + 1 : u[k] = s[i + k - 1]
  BY <1>2, <1>3, SubSeqProperties
<1> HIDE DEF u
<1>5. Len(u) = n BY <1>1, <1>3, <1>4
<1>6. \A k \in 1 .. Len(u) : u[k] = t[k] BY <1>1, <1>3, <1>4, <1>5
<1>7. u = t BY <1>4, <1>5, <1>6, SeqEqual DEF n
<1> QED BY <1>7 DEF u, j, n

\* The shape of a printed number: before spaces, lead, zeros, digits, after spaces.
Field(out, before, lead, zeros, digits, after) ==
  out = Pad(before, " ") \o lead \o Pad(zeros, "0") \o digits \o Pad(after, " ")

HasParts(out, before, lead, zeros, digits, after) ==
  /\ out \in Seq(STRING) /\ Len(out) = before + Len(lead) + zeros + Len(digits) + after
  /\ SubSeq(out, before + Len(lead) + zeros + 1, before + Len(lead) + zeros + Len(digits))
       = digits

LEMMA FieldParts ==
  ASSUME NEW out, NEW b \in Nat, NEW lead \in Seq(STRING), NEW z \in Nat,
         NEW digits \in Seq(STRING), NEW a \in Nat, Field(out, b, lead, z, digits, a)
  PROVE  HasParts(out, b, lead, z, digits, a)
<1> DEFINE T == STRING
           x0 == Pad(b, " ")
           y0 == Pad(z, "0")
           y1 == Pad(a, " ")
           x1 == x0 \o lead
           x2 == x1 \o y0
           x3 == x2 \o digits
           i == Len(x2) + 1
<1>1. " " \in T /\ "0" \in T
  <2>1. " " \in STRING /\ "0" \in STRING BY LiteralAssumption DEF Decimal
  <2> QED BY <2>1
<1>2. IsPad(x0, T, " ", b) /\ IsPad(y0, T, "0", z) /\ IsPad(y1, T, " ", a)
  BY <1>1, PadOf, Zenon
<1> HIDE DEF x0, y0, y1
<1>3. /\ x0 \in Seq(T) /\ Len(x0) = b /\ y0 \in Seq(T) /\ Len(y0) = z
      /\ y1 \in Seq(T) /\ Len(y1) = a
  BY <1>2 DEF IsPad
<1>4. out = x3 \o y1 BY DEF Field, x0, y0, y1
<1> HIDE DEF T
<1>5. lead \in Seq(T) /\ digits \in Seq(T) BY DEF T
<1>6. x1 \in Seq(T) /\ Len(x1) = Len(x0) + Len(lead) BY <1>3, <1>5, Grown, Zenon
<1> HIDE DEF x1
<1>7. x2 \in Seq(T) /\ Len(x2) = Len(x1) + Len(y0) BY <1>3, <1>6, Grown, Zenon
<1> HIDE DEF x2
<1>8. x3 \in Seq(T) /\ Len(x3) = Len(x2) + Len(digits) /\ Holds(x3, i, digits)
  BY <1>5, <1>7, Grown, Zenon
<1> HIDE DEF x3
<1>9. x3 \o y1 \in Seq(T) /\ Len(x3 \o y1) = Len(x3) + Len(y1) BY <1>3, <1>8, Grown, Zenon
<1>10. Len(lead) \in Nat /\ Len(digits) \in Nat OBVIOUS
<1>11. i \in Nat \ {0} BY <1>7
<1> HIDE DEF i
<1>12. Holds(x3 \o y1, i, digits) BY <1>3, <1>8, <1>10, <1>11, StillHolds, Zenon
<1>13. out \in Seq(T) /\ Holds(out, i, digits) /\ Len(out) = Len(x3) + Len(y1)
  BY <1>4, <1>9, <1>12, Zenon
<1>14. SubSeq(out, i, i + Len(digits) - 1) = digits BY <1>5, <1>11, <1>13, HeldIs, Zenon
<1>15. /\ i = b + Len(lead) + z + 1 /\ i + Len(digits) - 1 = b + Len(lead) + z + Len(digits)
  BY <1>3, <1>6, <1>7, <1>10 DEF i
<1>16. Len(out) = b + Len(lead) + z + Len(digits) + a
  BY <1>3, <1>6, <1>7, <1>8, <1>10, <1>13
<1>17. SubSeq(out, b + Len(lead) + z + 1, b + Len(lead) + z + Len(digits)) = digits
  BY <1>14, <1>15, Zenon
<1> QED BY <1>13, <1>16, <1>17 DEF T, HasParts


\* How print_signed and print_unsigned put a field together.
NumberOut(left, zeroPad, padding, lead, zeros, digits) ==
  (IF ~left /\ ~zeroPad THEN Pad(padding, " ") ELSE <<>>)
  \o lead
  \o (IF zeroPad THEN Pad(padding, "0") ELSE <<>>)
  \o Pad(zeros, "0") \o digits
  \o (IF left THEN Pad(padding, " ") ELSE <<>>)

\* A padding that is there or not is a padding.
LEMMA PadIf ==
  ASSUME NEW T, NEW c \in T, NEW n \in Int, NEW here
  PROVE  /\ (IF here THEN Pad(n, c) ELSE <<>>) = Pad(IF here THEN Longer(n, 0) ELSE 0, c)
         /\ (IF here THEN Longer(n, 0) ELSE 0) \in Nat
<1>1. Longer(n, 0) \in Nat /\ Pad(n, c) = Pad(Longer(n, 0), c) BY PadIs
<1>2. Pad(0, c) = <<>>
  <2>1. 0 \in Nat OBVIOUS
  <2>2. IsPad(Pad(0, c), T, c, 0) BY <2>1, PadOf, Zenon
  <2> QED BY <2>2 DEF IsPad
<1>3. CASE here BY <1>1, <1>3
<1>4. CASE ~here BY <1>2, <1>4
<1> QED BY <1>3, <1>4

IsNumberOut(out, left, zeroPad, padding, lead, zeros, digits) ==
  LET fill == Longer(padding, 0)
  IN  /\ Field(out, IF ~left /\ ~zeroPad THEN fill ELSE 0, lead,
               (IF zeroPad THEN fill ELSE 0) + zeros, digits, IF left THEN fill ELSE 0)
      /\ fill \in Nat

LEMMA NumberField ==
  ASSUME NEW left, NEW zeroPad, NEW padding \in Int, NEW lead \in Seq(STRING),
         NEW zeros \in Nat, NEW digits \in Seq(STRING)
  PROVE  IsNumberOut(NumberOut(left, zeroPad, padding, lead, zeros, digits),
                     left, zeroPad, padding, lead, zeros, digits)
<1> DEFINE fill == Longer(padding, 0)
           b == IF ~left /\ ~zeroPad THEN fill ELSE 0
           z == IF zeroPad THEN fill ELSE 0
           a == IF left THEN fill ELSE 0
           out == NumberOut(left, zeroPad, padding, lead, zeros, digits)
           p0 == Pad(z, "0")
           p1 == Pad(zeros, "0")
           x == Pad(b, " ") \o lead
<1>1. " " \in STRING /\ "0" \in STRING BY LiteralAssumption DEF Decimal
<1>2. /\ (IF ~left /\ ~zeroPad THEN Pad(padding, " ") ELSE <<>>) = Pad(b, " ") /\ b \in Nat
      /\ (IF zeroPad THEN Pad(padding, "0") ELSE <<>>) = p0 /\ z \in Nat
      /\ (IF left THEN Pad(padding, " ") ELSE <<>>) = Pad(a, " ") /\ a \in Nat
  <2>1. (IF ~left /\ ~zeroPad THEN Pad(padding, " ") ELSE <<>>) = Pad(b, " ") /\ b \in Nat
    BY <1>1, PadIf
  <2>2. (IF zeroPad THEN Pad(padding, "0") ELSE <<>>) = p0 /\ z \in Nat
    BY <1>1, PadIf
  <2>3. (IF left THEN Pad(padding, " ") ELSE <<>>) = Pad(a, " ") /\ a \in Nat
    BY <1>1, PadIf
  <2> QED BY <2>1, <2>2, <2>3
<1>3. fill \in Nat BY DEF Longer
<1>4. out = Pad(b, " ") \o lead \o p0 \o p1 \o digits \o Pad(a, " ")
  BY <1>2 DEF NumberOut
<1> HIDE DEF fill, b, z, a, out
<1>5. Pad(b, " ") \in Seq(STRING) /\ p0 \in Seq(STRING) /\ p1 \in Seq(STRING)
  <2>1. IsPad(Pad(b, " "), STRING, " ", b) /\ IsPad(p0, STRING, "0", z) /\ IsPad(p1, STRING, "0", zeros)
    BY <1>1, <1>2, PadOf, Zenon
  <2> QED BY <2>1 DEF IsPad
<1>6. p0 \o p1 = Pad(z + zeros, "0") BY <1>1, <1>2, PadMore, Zenon
<1> HIDE DEF p0, p1
<1>7. x \in Seq(STRING) BY <1>5, Grown, Zenon
<1>8. out = x \o p0 \o p1 \o digits \o Pad(a, " ") BY <1>4
<1> HIDE DEF x
<1>9. (x \o p0) \o p1 = x \o (p0 \o p1)
  <2> DEFINE T == STRING
  <2>1. x \in Seq(T) /\ p0 \in Seq(T) /\ p1 \in Seq(T) BY <1>5, <1>7
  <2> HIDE DEF T
  <2>2. \A S : \A u, v, w \in Seq(S) : (u \o v) \o w = u \o (v \o w) BY ConcatAssociative
  <2> QED BY <2>1, <2>2
<1>10. out = x \o Pad(z + zeros, "0") \o digits \o Pad(a, " ") BY <1>6, <1>8, <1>9, Zenon
<1>11. Field(out, b, lead, z + zeros, digits, a) BY <1>10 DEF Field, x
<1> QED BY <1>3, <1>11 DEF out, b, z, a, fill, IsNumberOut

LEMMA PrintSignedIs ==
  ASSUME NEW f, NEW val
  PROVE  LET digits == U64ToBase(IF val < 0 THEN -val ELSE val, 10, FALSE)
             zeros == Longer(f.prec - Len(digits), 0)
             sign == IF val < 0 THEN <<"-">> ELSE IF f.plus THEN <<"+">>
                     ELSE IF f.space THEN <<" ">> ELSE <<>>
             zeroPad == ~f.left /\ f.zero /\ f.prec < 0
         IN  PrintSigned(f, val)
               = NumberOut(f.left, zeroPad, f.width - (zeros + Len(digits) + Len(sign)), sign,
                           zeros, digits)
BY DEF PrintSigned, NumberOut

LEMMA PrintUnsignedIs ==
  ASSUME NEW f, NEW val, NEW base, NEW altPrefix
  PROVE  LET digits == IF f.prec = 0 /\ val = 0 THEN <<>> ELSE U64ToBase(val, base, f.upper)
             zeros == Longer(f.prec - Len(digits), 0)
             prefix == IF altPrefix /\ f.alt /\ val # 0 /\ base = 16
                         THEN <<"0", IF f.upper THEN "X" ELSE "x">> ELSE <<>>
             zeroPad == ~f.left /\ f.zero /\ f.prec < 0
         IN  PrintUnsigned(f, val, base, altPrefix)
               = NumberOut(f.left, zeroPad, f.width - (Len(prefix) + zeros + Len(digits)), prefix,
                           zeros, digits)
BY DEF PrintUnsigned, NumberOut


LEMMA DigitsAreText == ASSUME NEW upper \in BOOLEAN PROVE DigitSet(upper) \subseteq STRING
<1>1. ASSUME NEW k \in 1 .. 16 PROVE DigitChar[upper][k] \in STRING
  <2>1. /\ {"0", "1", "2", "3", "4", "5", "6", "7", "8", "9"} \subseteq STRING
        /\ {"a", "b", "c", "d", "e", "f", "A", "B", "C", "D", "E", "F"} \subseteq STRING
    BY LiteralAssumption DEF Decimal
  <2>2. CASE upper
    <3>1. DigitChar[upper]
            = <<"0","1","2","3","4","5","6","7","8","9","A","B","C","D","E","F">>
      BY <2>2 DEF DigitChar
    <3> QED BY <2>1, <3>1
  <2>3. CASE ~upper
    <3>1. DigitChar[upper]
            = <<"0","1","2","3","4","5","6","7","8","9","a","b","c","d","e","f">>
      BY <2>3 DEF DigitChar
    <3> QED BY <2>1, <3>1
  <2> QED BY <2>2, <2>3
<1> QED BY <1>1 DEF DigitSet

\* The digits of n, or none for a zero.
IsDigits(t, base, upper, n) == IsNumeral(t, base, upper, n) \/ (t = <<>> /\ n = 0)

AreDigits(t, base, upper) ==
  \A k \in DOMAIN t : \E d \in 1 .. base : t[k] = DigitChar[upper][d]

LEMMA DigitsMean ==
  ASSUME NEW n \in Nat, NEW base \in {10, 16}, NEW upper \in BOOLEAN, NEW t,
         IsDigits(t, base, upper, n)
  PROVE  t \in Seq(STRING) /\ ValueOf(t, base) = n /\ AreDigits(t, base, upper)
<1>1. PICK g : t \in Seq(DigitSet(upper)) /\ NumeralBy(g, t, base, upper, n)
  <2>1. CASE IsNumeral(t, base, upper, n) BY <2>1 DEF IsNumeral
  <2>2. CASE t = <<>> /\ n = 0
    <3> DEFINE g == [k \in 0 .. 0 |-> 0]
    <3>1. Len(t) = 0 /\ t \in Seq(DigitSet(upper)) BY <2>2
    <3>2. g \in [0 .. 0 -> Nat] /\ g[0] = 0 OBVIOUS
    <3> HIDE DEF g
    <3>3. NumeralBy(g, t, base, upper, n) BY <2>2, <3>1, <3>2 DEF NumeralBy
    <3> QED BY <3>1, <3>3
  <2> QED BY <2>1, <2>2 DEF IsDigits
<1>2. t \in Seq(STRING) BY <1>1, DigitsAreText
<1>3. Len(t) \in Nat /\ DOMAIN t = 1 .. Len(t) BY <1>2
<1>4. ValueOf(t, base) = n BY <1>1, <1>3, ValueOfNumeral
<1>5. ASSUME NEW k \in DOMAIN t PROVE \E d \in 1 .. base : t[k] = DigitChar[upper][d]
  <2>1. PICK d \in 0 .. base - 1 : t[k] = DigitChar[upper][d + 1]
    BY <1>1, <1>3 DEF NumeralBy
  <2>2. d + 1 \in 1 .. base OBVIOUS
  <2> QED BY <2>1, <2>2
<1> QED BY <1>2, <1>4, <1>5 DEF AreDigits

\* A field of digits, with a width, a precision and flags as c asks, is what it must print.
BaseOf(c) == IF c.spec \in {"d", "u"} THEN 10 ELSE 16
Lead(c) ==
  IF c.spec = "d" THEN (IF c.arg < 0 THEN <<"-">> ELSE IF c.plus THEN <<"+">>
                        ELSE IF c.space THEN <<" ">> ELSE <<>>)
  ELSE IF BaseOf(c) = 16 /\ c.arg # 0 /\ (c.alt \/ c.spec = "p")
    THEN <<"0", IF c.spec = "X" THEN "X" ELSE "x">> ELSE <<>>

Magnitude(c) == IF c.arg < 0 THEN -c.arg ELSE c.arg
IsLeft(c) == c.left \/ c.width < 0
FieldWidth(c) == IF c.width < 0 THEN -c.width ELSE c.width

InField(c, n, lead, before, zeros, after) ==
  LET core == Longer(c.prec, n) + lead
  IN  /\ before + lead + zeros + n + after = Longer(FieldWidth(c), core)
      /\ before > 0 => ~IsLeft(c) /\ (c.zero => c.prec >= 0)
      /\ after > 0 => IsLeft(c)
      /\ (IsLeft(c) \/ c.prec >= 0 \/ ~c.zero) => zeros = core - lead - n

LEMMA FieldMeans ==
  ASSUME NEW c, IsConversion(c), c.arg \in Int, NEW out, NEW before \in Nat, NEW zeros \in Nat,
         NEW digits, NEW after \in Nat, Lead(c) \in Seq(STRING),
         Field(out, before, Lead(c), zeros, digits, after),
         IsDigits(digits, BaseOf(c), c.spec = "X", Magnitude(c)),
         c.arg = 0 => (Len(digits) = 0 <=> ZeroDigits(c) = 0),
         InField(c, Len(digits), Len(Lead(c)), before, zeros, after)
  PROVE  NumberPrinted(c, out)
<1> DEFINE n == Len(digits)
           lead == Lead(c)
           base == BaseOf(c)
           ll == Len(lead)
           ds == SubSeq(out, before + ll + zeros + 1, before + ll + zeros + n)
           a == Len(out) - (before + ll + zeros + n)
           core == Longer(c.prec, n) + ll
<1>1. Magnitude(c) \in Nat /\ base \in {10, 16} /\ (c.spec = "X") \in BOOLEAN
  BY DEF Magnitude, BaseOf
<1>2. /\ digits \in Seq(STRING) /\ ValueOf(digits, base) = Magnitude(c)
      /\ \A k \in DOMAIN digits : \E d \in 1 .. base : digits[k] = DigitChar[c.spec = "X"][d]
  <2> DEFINE u == (c.spec = "X")
             m == Magnitude(c)
  <2>1. IsDigits(digits, base, u, m) /\ u \in BOOLEAN /\ m \in Nat BY <1>1
  <2> HIDE DEF base, u, m
  <2>2. digits \in Seq(STRING) /\ ValueOf(digits, base) = m /\ AreDigits(digits, base, u)
    BY <1>1, <2>1, DigitsMean
  <2> QED BY <2>2 DEF u, m, AreDigits
<1>3. /\ out \in Seq(STRING) /\ Len(out) = before + ll + zeros + n + after /\ ds = digits
  <2>1. /\ lead \in Seq(STRING) /\ Field(out, before, lead, zeros, digits, after)
        /\ before \in Nat /\ zeros \in Nat /\ after \in Nat
    OBVIOUS
  <2> HIDE DEF lead
  <2>2. HasParts(out, before, lead, zeros, digits, after) BY <1>2, <2>1, FieldParts, Zenon
  <2> QED BY <2>2 DEF HasParts
<1>4. n \in Nat /\ ll \in Nat BY <1>2
<1> HIDE DEF ds
<1>5. a = after /\ {before, zeros, n} \subseteq 0 .. Len(out) BY <1>3, <1>4
<1>6. IF c.arg = 0 THEN n = ZeroDigits(c) ELSE n > 0 /\ digits[1] # "0"
  <2>1. CASE c.arg = 0
    <3>1. Magnitude(c) = 0 BY <2>1 DEF Magnitude
    <3>2. n = 0 \/ n = 1 BY <3>1 DEF IsDigits, IsNumeral
    <3>3. ZeroDigits(c) \in {0, 1} BY DEF ZeroDigits
    <3> QED BY <2>1, <3>2, <3>3
  <2>2. CASE c.arg # 0
    <3>1. Magnitude(c) > 0 BY <2>2 DEF Magnitude
    <3>2. n > 0 /\ digits[1] # "0" BY <1>1, <3>1 DEF IsDigits, IsNumeral
    <3> QED BY <2>2, <3>2
  <2> QED BY <2>1, <2>2
<1>7. /\ Len(out) = Longer(FieldWidth(c), core)
      /\ before > 0 => ~IsLeft(c) /\ (c.zero => c.prec >= 0)
      /\ a > 0 => IsLeft(c)
      /\ (IsLeft(c) \/ c.prec >= 0 \/ ~c.zero) => zeros = core - ll - n
  BY <1>3, <1>5 DEF InField
<1>8. out = Pad(before, " ") \o lead \o Pad(zeros, "0") \o ds \o Pad(a, " ")
  BY <1>3, <1>5 DEF Field
<1> DEFINE Shows(b, z, k) ==
             LET aft == Len(out) - (b + ll + z + k)
                 dd == SubSeq(out, b + ll + z + 1, b + ll + z + k)
                 cc == Longer(c.prec, k) + ll
             IN  /\ aft >= 0
                 /\ out = Pad(b, " ") \o lead \o Pad(z, "0") \o dd \o Pad(aft, " ")
                 /\ \A i \in DOMAIN dd : \E d \in 1 .. base : dd[i] = DigitChar[c.spec = "X"][d]
                 /\ ValueOf(dd, base) = Magnitude(c)
                 /\ IF c.arg = 0 THEN k = ZeroDigits(c)
                                 ELSE k > 0 /\ dd[1] # "0"
                 /\ Len(out) = Longer(FieldWidth(c), cc)
                 /\ b > 0 => ~IsLeft(c) /\ (c.zero => c.prec >= 0)
                 /\ aft > 0 => IsLeft(c)
                 /\ (IsLeft(c) \/ c.prec >= 0 \/ ~c.zero) => z = cc - ll - k
<1>9. Shows(before, zeros, n)
  <2>1. a >= 0 BY <1>5
  <2>2. /\ \A i \in DOMAIN ds : \E d \in 1 .. base : ds[i] = DigitChar[c.spec = "X"][d]
        /\ ValueOf(ds, base) = Magnitude(c)
    BY <1>2, <1>3
  <2>3. IF c.arg = 0 THEN n = ZeroDigits(c) ELSE n > 0 /\ ds[1] # "0"
    BY <1>3, <1>6
  <2> HIDE DEF n, lead, base, ll
  <2> QED BY <1>7, <1>8, <2>1, <2>2, <2>3, Zenon DEF ds
<1>10. \E b, z, k \in 0 .. Len(out) : Shows(b, z, k) BY <1>5, <1>9
<1> HIDE DEF Shows
<1>11. NumberPrinted(c, out) <=> \E b, z, k \in 0 .. Len(out) : Shows(b, z, k)
  BY DEF NumberPrinted, Shows, Lead, BaseOf, Magnitude, IsLeft, FieldWidth
<1> QED BY <1>10, <1>11


\* What print_signed and print_unsigned make of the digits and what leads them.
NumberText(f, lead, digits) ==
  LET zeros == Longer(f.prec - Len(digits), 0)
  IN  NumberOut(f.left, ~f.left /\ f.zero /\ f.prec < 0,
                f.width - (zeros + Len(digits) + Len(lead)), lead, zeros, digits)

LEMMA InFieldIs ==
  ASSUME NEW c, IsConversion(c), NEW n \in Nat, NEW ll \in Nat, NEW left, left <=> IsLeft(c),
         NEW zero, zero <=> c.zero, NEW p \in Int, p = (IF c.prec < 0 THEN -1 ELSE c.prec)
  PROVE  LET zeros == Longer(p - n, 0)
             fill == Longer(FieldWidth(c) - (zeros + n + ll), 0)
             zeroPad == ~left /\ zero /\ p < 0
         IN  InField(c, n, ll, IF ~left /\ ~zeroPad THEN fill ELSE 0,
                     (IF zeroPad THEN fill ELSE 0) + zeros, IF left THEN fill ELSE 0)
<1> DEFINE zeros == Longer(p - n, 0)
           w == FieldWidth(c)
           fill == Longer(w - (zeros + n + ll), 0)
           zeroPad == ~left /\ zero /\ p < 0
           core == Longer(c.prec, n) + ll
           q == c.prec
           b == IF ~left /\ ~zeroPad THEN fill ELSE 0
           z == (IF zeroPad THEN fill ELSE 0) + zeros
           a == IF left THEN fill ELSE 0
<1>1. q \in Int /\ w \in Int BY DEF IsConversion, FieldWidth
<1>2. zeros \in Nat /\ core \in Int /\ zeros = core - ll - n
  <2>1. p = IF q < 0 THEN -1 ELSE q OBVIOUS
  <2> HIDE DEF q
  <2>2. Longer(p - n, 0) = Longer(q, n) - n /\ Longer(p - n, 0) \in Nat /\ Longer(q, n) \in Int
    BY <1>1, <2>1 DEF Longer
  <2> QED BY <2>2 DEF q
<1> HIDE DEF zeros, w, core
<1>3. fill \in Nat /\ zeros + n + ll + fill = Longer(w, core) BY <1>1, <1>2 DEF Longer
<1> HIDE DEF fill
<1>4. b + ll + z + n + a = zeros + n + ll + fill
  <2>1. CASE left BY <1>2, <1>3, <2>1
  <2>2. CASE ~left /\ zeroPad BY <1>2, <1>3, <2>2
  <2>3. CASE ~left /\ ~zeroPad BY <1>2, <1>3, <2>3
  <2> QED BY <2>1, <2>2, <2>3
<1>5. p < 0 <=> ~(q >= 0) BY <1>1
<1>6. b > 0 => ~IsLeft(c) /\ (c.zero => q >= 0) BY <1>5
<1>7. a > 0 => IsLeft(c) OBVIOUS
<1>8. (IsLeft(c) \/ q >= 0 \/ ~c.zero) => z = core - ll - n
  <2>1. SUFFICES ASSUME IsLeft(c) \/ q >= 0 \/ ~c.zero PROVE z = core - ll - n OBVIOUS
  <2>2. ~zeroPad BY <1>5, <2>1
  <2> QED BY <1>2, <2>2
<1> HIDE DEF b, z, a, zeroPad
<1>9. b + ll + z + n + a = Longer(w, core) BY <1>3, <1>4
<1>10. InField(c, n, ll, b, z, a) BY <1>6, <1>7, <1>8, <1>9 DEF InField, core, q, w
<1> QED BY <1>10 DEF b, z, a, zeroPad, fill, zeros, w

LEMMA NumberMeans ==
  ASSUME NEW c, IsConversion(c), c.arg \in Int, NEW f, NEW N, Parsed(f, c, N),
         Lead(c) \in Seq(STRING), NEW digits,
         IsDigits(digits, BaseOf(c), c.spec = "X", Magnitude(c))
  PROVE  /\ NumberText(f, Lead(c), digits) \in Seq(STRING)
         /\ (c.arg = 0 => (Len(digits) = 0 <=> ZeroDigits(c) = 0)) =>
              NumberPrinted(c, NumberText(f, Lead(c), digits))
<1> DEFINE n == Len(digits)
           lead == Lead(c)
           ll == Len(lead)
           p == f.prec
           left == f.left
           zero == f.zero
           zeros == Longer(p - n, 0)
           padding == FieldWidth(c) - (zeros + n + ll)
           fill == Longer(padding, 0)
           zeroPad == ~left /\ zero /\ p < 0
           b == IF ~left /\ ~zeroPad THEN fill ELSE 0
           z == (IF zeroPad THEN fill ELSE 0) + zeros
           a == IF left THEN fill ELSE 0
           out == NumberText(f, Lead(c), digits)
<1>1. digits \in Seq(STRING)
  <2> DEFINE u == (c.spec = "X")
             m == Magnitude(c)
             base == BaseOf(c)
  <2>1. IsDigits(digits, base, u, m) /\ u \in BOOLEAN /\ m \in Nat /\ base \in {10, 16}
    BY DEF Magnitude, BaseOf
  <2> HIDE DEF base, u, m
  <2> QED BY <2>1, DigitsMean
<1>2. n \in Nat /\ ll \in Nat BY <1>1
<1>3. /\ (left <=> IsLeft(c)) /\ (zero <=> c.zero)
      /\ f.width = FieldWidth(c) /\ p = (IF c.prec < 0 THEN -1 ELSE c.prec)
  BY DEF Parsed, IsLeft, FieldWidth
<1>4. c.prec \in Int /\ FieldWidth(c) \in Int BY DEF IsConversion, FieldWidth
<1>5. p \in Int BY <1>3, <1>4
<1>6. zeros \in Nat /\ padding \in Int BY <1>2, <1>4, <1>5 DEF Longer
<1>7. out = NumberOut(left, zeroPad, padding, lead, zeros, digits) BY <1>3 DEF NumberText
<1> HIDE DEF left, zero, p, n, lead, out
<1>8. InField(c, n, ll, b, z, a) BY <1>2, <1>3, <1>5, InFieldIs
<1>9. Field(out, b, lead, z, digits, a) /\ fill \in Nat
  <2> HIDE DEF zeros, zeroPad, padding
  <2>1. /\ padding \in Int /\ zeros \in Nat
        /\ lead \in Seq(STRING) /\ digits \in Seq(STRING)
    BY <1>1, <1>6 DEF lead
  <2>2. IsNumberOut(NumberOut(left, zeroPad, padding, lead, zeros, digits),
                    left, zeroPad, padding, lead, zeros, digits)
    BY <2>1, NumberField, Zenon
  <2>3. IsNumberOut(out, left, zeroPad, padding, lead, zeros, digits) BY <1>7, <2>2, Zenon
  <2> QED BY <2>3 DEF IsNumberOut
<1>10. b \in Nat /\ z \in Nat /\ a \in Nat BY <1>6, <1>9
<1> HIDE DEF b, z, a
<1>11. out \in Seq(STRING)
  <2>1. lead \in Seq(STRING) BY DEF lead
  <2>2. b \in Nat /\ z \in Nat /\ a \in Nat /\ digits \in Seq(STRING)
    BY <1>1, <1>10
  <2> HIDE DEF lead
  <2>3. HasParts(out, b, lead, z, digits, a) BY <1>9, <2>1, <2>2, FieldParts, Zenon
  <2> QED BY <2>3 DEF HasParts
<1>12. ASSUME c.arg = 0 => (n = 0 <=> ZeroDigits(c) = 0) PROVE NumberPrinted(c, out)
  BY <1>8, <1>9, <1>10, <1>12, FieldMeans DEF n, lead
<1> QED BY <1>11, <1>12 DEF out, n, lead


LEMMA StringMeans ==
  ASSUME NEW c, IsConversion(c), NEW f, NEW N, Parsed(f, c, N), NEW s \in Seq(STRING)
  PROVE  PrintString(f, s) \in Seq(STRING) /\ StringPrinted(c, s, PrintString(f, s))
<1> DEFINE n == Len(s)
           q == c.prec
           w == FieldWidth(c)
           shown == IF f.prec >= 0 /\ f.prec < n THEN SubSeq(s, 1, f.prec) ELSE s
           told == IF q >= 0 THEN SubSeq(s, 1, IF q < n THEN q ELSE n) ELSE s
           fill == Pad(w - Len(shown), " ")
<1>1. q \in Int /\ w \in Int /\ n \in Nat BY DEF IsConversion, FieldWidth
<1>2. /\ f.left = IsLeft(c) /\ f.width = w /\ f.prec = (IF q < 0 THEN -1 ELSE q)
  BY DEF Parsed, IsLeft, FieldWidth
<1>3. SubSeq(s, 1, n) = s BY SubSeqFull
<1>4. shown = told /\ shown \in Seq(STRING)
  <2>1. CASE q < 0
    <3>1. f.prec = -1 BY <1>2, <2>1
    <3>2. shown = s /\ told = s BY <1>1, <2>1, <3>1
    <3> QED BY <3>2
  <2>2. CASE q >= 0 /\ q < n
    <3>1. f.prec = q /\ ~(q < 0) BY <1>1, <1>2, <2>2
    <3>2. shown = SubSeq(s, 1, q) /\ told = SubSeq(s, 1, q) BY <2>2, <3>1
    <3>3. \A k \in 1 .. q : s[k] \in STRING BY <1>1, <2>2
    <3>4. SubSeq(s, 1, q) \in Seq(STRING) BY <1>1, <3>3, SubSeqProperties
    <3> QED BY <3>2, <3>4
  <2>3. CASE q >= 0 /\ ~(q < n)
    <3>1. f.prec = q /\ ~(q < 0) BY <1>1, <1>2, <2>3
    <3>2. shown = s /\ told = SubSeq(s, 1, n) BY <2>3, <3>1
    <3> QED BY <1>3, <3>2
  <2> QED BY <1>1, <2>1, <2>2, <2>3
<1>5. PrintString(f, s) = IF f.left THEN shown \o fill ELSE fill \o shown
  BY <1>2 DEF PrintString
<1>6. StringPrinted(c, s, PrintString(f, s))
        <=> PrintString(f, s) = IF IsLeft(c) THEN told \o Pad(w - Len(told), " ")
                                ELSE Pad(w - Len(told), " ") \o told
  BY DEF StringPrinted, IsLeft, FieldWidth
<1> HIDE DEF shown, told, w
<1>7. fill \in Seq(STRING)
  <2>1. " " \in STRING BY LiteralAssumption
  <2>2. w - Len(shown) \in Int BY <1>1, <1>4
  <2>3. IsPad(fill, STRING, " ", Longer(w - Len(shown), 0)) BY <2>1, <2>2, PadIs
  <2> QED BY <2>3 DEF IsPad
<1>8. PrintString(f, s) = IF IsLeft(c) THEN told \o Pad(w - Len(told), " ")
                          ELSE Pad(w - Len(told), " ") \o told
  BY <1>2, <1>4, <1>5
<1> HIDE DEF fill
<1>9. shown \o fill \in Seq(STRING) /\ fill \o shown \in Seq(STRING) BY <1>4, <1>7
<1>10. PrintString(f, s) \in Seq(STRING) BY <1>5, <1>9
<1> QED BY <1>6, <1>8, <1>10

LEMMA TwoLong == ASSUME NEW S, NEW x \in S, NEW y \in S PROVE <<x, y>> \in Seq(S)
OBVIOUS

LEMMA LeadIsText == ASSUME NEW c PROVE Lead(c) \in Seq(STRING)
<1>1. "-" \in STRING /\ "+" \in STRING /\ " " \in STRING /\ "0" \in STRING
  BY LiteralAssumption DEF Decimal
<1>2. "x" \in STRING /\ "X" \in STRING BY LiteralAssumption
<1>3. /\ <<>> \in Seq(STRING) /\ <<"-">> \in Seq(STRING) /\ <<"+">> \in Seq(STRING)
      /\ <<" ">> \in Seq(STRING) /\ <<"0", "x">> \in Seq(STRING) /\ <<"0", "X">> \in Seq(STRING)
  <2>1. <<>> \in Seq(STRING) OBVIOUS
  <2>2. <<"-">> \in Seq(STRING) /\ <<"+">> \in Seq(STRING) /\ <<" ">> \in Seq(STRING)
    BY <1>1, OneLong, Zenon
  <2>3. <<"0", "x">> \in Seq(STRING) /\ <<"0", "X">> \in Seq(STRING)
    BY <1>1, <1>2, TwoLong, Zenon
  <2> QED BY <2>1, <2>2, <2>3
<1>4. Lead(c) \in {<<>>, <<"-">>, <<"+">>, <<" ">>, <<"0", "x">>, <<"0", "X">>} BY Zenon DEF Lead
<1> QED BY <1>3, <1>4

LEMMA SignedMeans ==
  ASSUME NEW c, IsConversion(c), c.spec = "d", NEW f, NEW N, Parsed(f, c, N)
  PROVE  /\ PrintSigned(f, c.arg) \in Seq(STRING)
         /\ NumberPrinted(c, PrintSigned(f, c.arg))
<1> DEFINE m == Magnitude(c)
           t == U64ToBase(m, 10, FALSE)
<1>1. c.arg \in Int /\ BaseOf(c) = 10 /\ (c.spec = "X") = FALSE BY DEF IsConversion, BaseOf
<1>2. m \in Nat BY <1>1 DEF Magnitude
<1>3. IsNumeral(t, 10, FALSE, m) BY <1>2, U64IsNumeral
<1>4. PrintSigned(f, c.arg) = NumberText(f, Lead(c), t)
  BY PrintSignedIs DEF NumberText, Lead, Magnitude, Parsed
<1> HIDE DEF m, t
<1>5. Len(t) > 0 BY <1>3 DEF IsNumeral
<1>6. IsDigits(t, BaseOf(c), c.spec = "X", m) BY <1>1, <1>3 DEF IsDigits
<1>7. /\ NumberText(f, Lead(c), t) \in Seq(STRING)
      /\ (c.arg = 0 => (Len(t) = 0 <=> ZeroDigits(c) = 0)) =>
              NumberPrinted(c, NumberText(f, Lead(c), t))
  BY <1>1, <1>6, LeadIsText, NumberMeans DEF m
<1>8. Len(t) # 0 /\ ZeroDigits(c) = 1 BY <1>3, <1>5 DEF ZeroDigits, IsNumeral
<1> QED BY <1>4, <1>7, <1>8

LEMMA UnsignedMeans ==
  ASSUME NEW c, IsConversion(c), c.spec \in {"u", "x", "X", "p"}, NEW f, NEW N, Parsed(f, c, N),
         NEW base, base = BaseOf(c), NEW alt, alt <=> base = 16
  PROVE  /\ PrintUnsigned(f, c.arg, base, alt) \in Seq(STRING)
         /\ NumberPrinted(c, PrintUnsigned(f, c.arg, base, alt))
<1> DEFINE n == c.arg
           upper == f.upper
           t == IF f.prec = 0 /\ n = 0 THEN <<>> ELSE U64ToBase(n, base, upper)
<1>1. n \in Nat /\ c.prec \in Int BY DEF IsConversion
<1>2. base \in {10, 16} /\ upper = (c.spec = "X") /\ Magnitude(c) = n
  BY <1>1 DEF BaseOf, Parsed, Magnitude
<1>3. f.prec = 0 <=> ZeroDigits(c) = 0 BY <1>1 DEF Parsed, ZeroDigits
<1>4. PrintUnsigned(f, n, base, alt) = NumberText(f, Lead(c), t)
  <2>1. Lead(c) = IF alt /\ f.alt /\ n # 0 /\ base = 16
                    THEN <<"0", IF upper THEN "X" ELSE "x">> ELSE <<>>
    BY DEF Lead, Parsed
  <2> HIDE DEF t
  <2>2. PrintUnsigned(f, n, base, alt)
          = LET zeros == Longer(f.prec - Len(t), 0)
            IN  NumberOut(f.left, ~f.left /\ f.zero /\ f.prec < 0,
                          f.width - (Len(Lead(c)) + zeros + Len(t)), Lead(c), zeros, t)
    BY <2>1, PrintUnsignedIs DEF t
  <2>3. Len(Lead(c)) + Longer(f.prec - Len(t), 0) + Len(t)
          = Longer(f.prec - Len(t), 0) + Len(t) + Len(Lead(c))
    <3>1. upper \in BOOLEAN BY <1>2
    <3>2. t \in Seq(STRING)
      <4>1. CASE f.prec = 0 /\ n = 0 BY <4>1 DEF t
      <4>2. CASE ~(f.prec = 0 /\ n = 0)
        <5>1. IsNumeral(t, base, upper, n) BY <1>1, <1>2, <3>1, <4>2, U64IsNumeral DEF t
        <5>2. t \in Seq(DigitSet(upper)) BY <5>1 DEF IsNumeral
        <5> QED BY <3>1, <5>2, DigitsAreText
      <4> QED BY <4>1, <4>2
    <3>3. Len(t) \in Nat /\ Len(Lead(c)) \in Nat BY <3>2, LeadIsText
    <3>4. f.prec \in Int BY <1>1 DEF Parsed
    <3> QED BY <3>3, <3>4 DEF Longer
  <2> QED BY <2>2, <2>3 DEF NumberText
<1>5. IsDigits(t, base, upper, n) /\ (n = 0 => (Len(t) = 0 <=> ZeroDigits(c) = 0))
  <2>1. CASE f.prec = 0 /\ n = 0 BY <1>3, <2>1 DEF IsDigits
  <2>2. CASE ~(f.prec = 0 /\ n = 0)
    <3>1. upper \in BOOLEAN BY <1>2
    <3>2. IsNumeral(t, base, upper, n) BY <1>1, <1>2, <2>2, <3>1, U64IsNumeral
    <3>3. Len(t) > 0 BY <3>2 DEF IsNumeral
    <3> QED BY <1>3, <2>2, <3>2, <3>3 DEF IsDigits
  <2> QED BY <2>1, <2>2
<1> HIDE DEF t
<1>6. IsDigits(t, BaseOf(c), c.spec = "X", Magnitude(c)) BY <1>2, <1>5
<1>7. c.arg \in Int BY <1>1
<1>8. /\ NumberText(f, Lead(c), t) \in Seq(STRING)
      /\ (c.arg = 0 => (Len(t) = 0 <=> ZeroDigits(c) = 0)) =>
              NumberPrinted(c, NumberText(f, Lead(c), t))
  BY <1>6, <1>7, LeadIsText, NumberMeans
<1> QED BY <1>4, <1>5, <1>8

\* What a conversion must print.
Means(c, out) ==
  CASE c.spec = "s" -> StringPrinted(c, c.arg, out)
    [] c.spec = "c" -> StringPrinted(c, <<c.arg>>, out)
    [] OTHER -> NumberPrinted(c, out)

LEMMA ConvertMeans ==
  ASSUME NEW c, IsConversion(c), NEW f, NEW N, Parsed(f, c, N), NEW args,
         args = Arguments(c)
  PROVE  Convert(f, args) \in Seq(STRING) /\ Means(c, Convert(f, args))
<1> DEFINE out == Convert(f, args)
<1>1. f.spec = c.spec /\ args[f.arg] = c.arg /\ f.spec # Nul
  <2>1. f.spec = c.spec /\ args[f.arg] = c.arg BY DEF Parsed
  <2>2. c.spec \in STRING BY LiteralAssumption DEF IsConversion
  <2> QED BY <2>1, <2>2, CharAssumption
<1>2. c.spec \in {"c", "d", "p", "s", "u", "x", "X"} BY DEF IsConversion
<1>3. CASE c.spec = "s"
  <2>1. out = PrintString(f, c.arg) BY <1>1, <1>3 DEF Convert
  <2>2. c.arg \in Seq(STRING) BY <1>3 DEF IsConversion, Text
  <2>3. out \in Seq(STRING) /\ StringPrinted(c, c.arg, out) BY <2>1, <2>2, StringMeans
  <2> HIDE DEF out
  <2>4. Means(c, out) BY <1>3, <2>3 DEF Means
  <2> QED BY <2>3, <2>4 DEF out
<1>4. CASE c.spec = "c"
  <2> DEFINE s == <<c.arg>>
  <2>1. out = PrintString(f, s) BY <1>1, <1>4 DEF Convert
  <2>2. c.arg \in STRING BY <1>4 DEF IsConversion
  <2>3. s \in Seq(STRING) BY <2>2, OneLong, Zenon
  <2> HIDE DEF s
  <2>4. out \in Seq(STRING) /\ StringPrinted(c, s, out) BY <2>1, <2>3, StringMeans
  <2> HIDE DEF out
  <2>5. Means(c, out) BY <1>4, <2>4 DEF Means, s
  <2> QED BY <2>4, <2>5 DEF out
<1>5. CASE c.spec = "d"
  <2>1. out = PrintSigned(f, c.arg) BY <1>1, <1>5 DEF Convert
  <2>2. out \in Seq(STRING) /\ NumberPrinted(c, out)
    BY <1>5, <2>1, SignedMeans
  <2> HIDE DEF out
  <2>4. Means(c, out) BY <1>5, <2>2 DEF Means
  <2> QED BY <2>2, <2>4 DEF out
<1>6. CASE c.spec = "u"
  <2>1. out = PrintUnsigned(f, c.arg, 10, FALSE) BY <1>1, <1>6 DEF Convert
  <2>2. 10 = BaseOf(c) /\ (FALSE <=> 10 = 16) BY <1>6 DEF BaseOf
  <2>3. out \in Seq(STRING) /\ NumberPrinted(c, out) BY <1>6, <2>1, <2>2, UnsignedMeans
  <2> HIDE DEF out
  <2>4. Means(c, out) BY <1>6, <2>3 DEF Means
  <2> QED BY <2>3, <2>4 DEF out
<1>7. CASE c.spec \in {"x", "X", "p"}
  <2>1. out = PrintUnsigned(f, c.arg, 16, TRUE) BY <1>1, <1>7 DEF Convert
  <2>2. 16 = BaseOf(c) /\ (TRUE <=> 16 = 16) BY <1>7 DEF BaseOf
  <2>3. out \in Seq(STRING) /\ NumberPrinted(c, out) BY <1>7, <2>1, <2>2, UnsignedMeans
  <2> HIDE DEF out
  <2>4. Means(c, out) BY <1>7, <2>3 DEF Means
  <2> QED BY <2>3, <2>4 DEF out
<1> QED BY <1>2, <1>3, <1>4, <1>5, <1>6, <1>7 DEF out

LEMMA PrintfIs ==
  ASSUME NEW c, IsConversion(c)
  PROVE  \E f, N : /\ Parsed(f, c, N)
                  /\ Printf(Spell(c), Arguments(c)) = Convert(f, Arguments(c))
<1> DEFINE s == Spell(c)
           args == Arguments(c)
           f == ParseFormat(s, 2, args, 1)
<1>1. PICK i1, i2, i3, i4 : Spelled(s, c, i1, i2, i3, i4) BY SpellSpelled
<1>2. /\ Parsed(f, c, Len(s)) /\ Len(s) >= 2 /\ s[1] = "%" /\ s[2] # "%"
  BY <1>1, ParsesSpelled
<1>3. s \in Seq(STRING) BY <1>1 DEF Spelled
<1> HIDE DEF s, args
<1>4. PICK g : PrintBy(g, s, args) /\ Printf(s, args) = g[<<1, 1>>] BY <1>3, PrintfFn
<1> DEFINE next == PrintNext(s, args, 1, 1)
           at == <<1, 1>>
<1>5. at \in Places /\ at[1] = 1 /\ at[2] = 1 BY DEF Places
<1>6. g[at] = Convert(f, args) \o g[next]
  <2>1. g[at] = PrintFrom(g, s, args, at) BY <1>4, <1>5 DEF PrintBy
  <2>2. ~(1 > Len(s)) /\ CharAt(s, 1 + 1) # "%" /\ 1 + 1 = 2 BY <1>2, <1>3 DEF CharAt
  <2> HIDE DEF at, next, f
  <2>3. g[at] = Convert(ParseFormat(s, 1 + 1, args, 1), args) \o g[PrintNext(s, args, 1, 1)]
    BY <1>2, <1>5, <2>1, <2>2, Zenon DEF PrintFrom
  <2> QED BY <2>2, <2>3 DEF f, next
<1>7. g[next] = <<>>
  <2>1. 1 + 1 = 2 OBVIOUS
  <2>2. next = <<f.next, IF Consumes(f.spec) THEN f.arg + 1 ELSE f.arg>>
    BY <2>1 DEF PrintNext
  <2> HIDE DEF f
  <2>3. f.next = Len(s) + 1 /\ f.arg \in Nat BY <1>2 DEF Parsed
  <2>4. next \in Places /\ next[1] > Len(s) BY <1>3, <2>2, <2>3 DEF Places
  <2> HIDE DEF next
  <2>5. g[next] = PrintFrom(g, s, args, next) BY <1>4, <2>4 DEF PrintBy
  <2> QED BY <2>4, <2>5 DEF PrintFrom
<1>8. Convert(f, args) \in Seq(STRING) BY <1>2, ConvertMeans DEF args
<1> HIDE DEF f, next, at
<1>9. Convert(f, args) \o <<>> = Convert(f, args) BY <1>8
<1>10. Printf(s, args) = Convert(f, args) BY <1>4, <1>6, <1>7, <1>9 DEF at
<1> QED BY <1>2, <1>10 DEF s, args

LEMMA PrintsConversion ==
  ASSUME NEW c, IsConversion(c)
  PROVE  /\ Printf(Spell(c), Arguments(c)) \in Seq(STRING)
         /\ Means(c, Printf(Spell(c), Arguments(c)))
BY PrintfIs, ConvertMeans
===============================================================================
