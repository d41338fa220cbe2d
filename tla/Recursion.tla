----------------------------- MODULE Recursion -----------------------------
(***************************************************************************)
(* Induction over the natural numbers and definitions by recursion over    *)
(* them, from the library's theorem that < is well founded; and what       *)
(* follows for the operators on sequences that are defined that way.       *)
(***************************************************************************)
EXTENDS Integers, SequencesExt, SequenceTheorems, WellFoundedInduction, TLAPS

(* A set of natural numbers that is not empty has a least element.         *)
LEMMA Least ==
  ASSUME NEW T \in SUBSET Nat, T # {}
  PROVE  \E n \in T : \A m \in T : n <= m
  <1> DEFINE R == OpToRel(<, Nat)
  <1>1. IsWellFoundedOn(R, Nat)
    BY NatLessThanWellFounded
  <1>2. \A x, y \in Nat : <<x, y>> \in R <=> x < y
    BY DEF OpToRel
  <1> HIDE DEF R
  <1>3. PICK x \in T : \A y \in T : ~(<<y, x>> \in R)
    BY <1>1, WFMin
  <1>4. \A y \in T : x <= y
    <2> SUFFICES ASSUME NEW y \in T PROVE x <= y
      OBVIOUS
    <2>1. x \in Nat /\ y \in Nat
      OBVIOUS
    <2>2. ~(y < x)
      BY <2>1, <1>2, <1>3
    <2> QED
      BY <2>1, <2>2
  <1> QED
    BY <1>4

(* So Min is its least element, ...                                        *)
LEMMA MinIs ==
  ASSUME NEW T \in SUBSET Nat, T # {}
  PROVE  Min(T) \in T /\ \A m \in T : Min(T) <= m
  BY Least DEF Min

(* ... and Max the greatest of one that is bounded.                        *)
LEMMA MaxIs ==
  ASSUME NEW n \in Nat, NEW T \in SUBSET (0 .. n), T # {}
  PROVE  Max(T) \in T /\ \A m \in T : m <= Max(T)
  <1> DEFINE Rest == {n - m : m \in T}
  <1>1. Rest \in SUBSET Nat /\ Rest # {}
    <2>1. \A m \in T : n - m \in Nat
      OBVIOUS
    <2>2. PICK m : m \in T
      OBVIOUS
    <2>3. n - m \in Rest
      BY <2>2
    <2> QED BY <2>1, <2>3
  <1>2. PICK r \in Rest : \A s \in Rest : r <= s
    <2> HIDE DEF Rest
    <2> QED BY <1>1, Least
  <1>3. PICK m \in T : r = n - m
    BY <1>2
  <1>4. \A k \in T : m >= k
    <2> SUFFICES ASSUME NEW k \in T PROVE m >= k
      OBVIOUS
    <2>1. r <= n - k
      BY <1>2
    <2> QED BY <1>3, <2>1
  <1> QED BY <1>4 DEF Max

(* A set that has 0 and with each number the next one has them all.        *)
LEMMA Induction ==
  ASSUME NEW S \in SUBSET Nat, 0 \in S, \A n \in S : n + 1 \in S
  PROVE  S = Nat
  <1>1. SUFFICES ASSUME Nat \ S # {} PROVE FALSE
    OBVIOUS
  <1>2. PICK n \in Nat \ S : \A m \in Nat \ S : n <= m
    BY <1>1, Least
  <1>3. n - 1 \in Nat /\ n - 1 \in S
    BY <1>2
  <1> QED
    BY <1>2, <1>3

(* f begins with first and goes on by step.                                *)
Follows(f, first, step) ==
  f[0] = first /\ \A n \in Nat : f[n + 1] = step[n][f[n]]

(* A first value and a step define a sequence of values: there are finite  *)
(* ones of every length, they agree, and together they are the sequence.   *)
LEMMA RecursionExists ==
  ASSUME NEW X, NEW first \in X, NEW step \in [Nat -> [X -> X]]
  PROVE  \E f \in [Nat -> X] : Follows(f, first, step)
  <1> DEFINE Run(n, g) ==
        /\ g \in [0 .. n -> X] /\ g[0] = first
        /\ \A i \in Nat : i < n => g[i + 1] = step[i][g[i]]
  <1>1. \A n \in Nat : \E g : Run(n, g)
    <2> DEFINE S == {n \in Nat : \E g : Run(n, g)}
    <2>1. 0 \in S
      <3> DEFINE g == [i \in 0 .. 0 |-> first]
      <3>1. g \in [0 .. 0 -> X] /\ g[0] = first
        OBVIOUS
      <3>2. \A i \in Nat : ~(i < 0)
        OBVIOUS
      <3>3. Run(0, g)
        BY <3>1, <3>2
      <3> QED BY <3>3
    <2>2. ASSUME NEW n \in S PROVE n + 1 \in S
      <3>1. PICK g : Run(n, g)
        OBVIOUS
      <3>2. n \in Nat /\ n \in 0 .. n
        OBVIOUS
      <3>3. g[n] \in X /\ step[n][g[n]] \in X
        BY <3>1, <3>2
      <3> DEFINE h == [i \in 0 .. (n + 1) |-> IF i = n + 1 THEN step[n][g[n]]
                                              ELSE g[i]]
      <3>4. \A i \in 0 .. (n + 1) : i # n + 1 => i \in 0 .. n
        BY <3>2
      <3>5. h \in [0 .. (n + 1) -> X]
        BY <3>1, <3>3, <3>4
      <3>6. h[0] = first
        BY <3>1, <3>2
      <3>7. ASSUME NEW i \in Nat, i < n + 1
            PROVE  h[i + 1] = step[i][h[i]]
        <4>1. i \in 0 .. (n + 1) /\ i + 1 \in 0 .. (n + 1) /\ i # n + 1
          BY <3>2, <3>7
        <4>2. h[i] = g[i]
          BY <4>1
        <4>3. CASE i = n
          BY <4>1, <4>2, <4>3
        <4>4. CASE i # n
          <5>1. i < n /\ i + 1 # n + 1
            BY <3>2, <3>7, <4>4
          <5>2. h[i + 1] = g[i + 1]
            BY <4>1, <5>1
          <5> QED BY <3>1, <4>2, <5>1, <5>2
        <4> QED BY <4>3, <4>4
      <3> HIDE DEF h
      <3>8. Run(n + 1, h)
        BY <3>5, <3>6, <3>7
      <3>9. n + 1 \in Nat
        BY <3>2
      <3> QED BY <3>8, <3>9
    <2>3. S = Nat
      <3> HIDE DEF S
      <3>1. S \in SUBSET Nat
        BY DEF S
      <3> QED BY <2>1, <2>2, <3>1, Induction
    <2> HIDE DEF Run
    <2> QED BY <2>3
  <1>2. ASSUME NEW n \in Nat, NEW h, Run(n, h)
        PROVE  \A m \in Nat : m <= n => \A g : Run(m, g) => g[m] = h[m]
    <2> DEFINE S == {m \in Nat : m <= n => \A g : Run(m, g) => g[m] = h[m]}
    <2>1. 0 \in S
      BY <1>2
    <2>2. ASSUME NEW m \in S PROVE m + 1 \in S
      <3>1. SUFFICES ASSUME m + 1 <= n, NEW g, Run(m + 1, g)
                     PROVE  g[m + 1] = h[m + 1]
        OBVIOUS
      <3>2. m \in Nat /\ m <= n /\ m < n /\ m < m + 1
        BY <3>1
      <3> DEFINE k == [i \in 0 .. m |-> g[i]]
      <3>3. \A i \in 0 .. m : i \in 0 .. (m + 1)
        BY <3>2
      <3>4. k \in [0 .. m -> X]
        BY <3>1, <3>3
      <3>5. k[0] = first /\ k[m] = g[m]
        BY <3>1, <3>2
      <3>6. ASSUME NEW i \in Nat, i < m
            PROVE  k[i + 1] = step[i][k[i]]
        <4>1. i \in 0 .. m /\ i + 1 \in 0 .. m /\ i < m + 1
          BY <3>2, <3>6
        <4> QED BY <3>1, <4>1
      <3> HIDE DEF k
      <3>7. Run(m, k)
        BY <3>4, <3>5, <3>6
      <3>8. k[m] = h[m]
        BY <3>2, <3>7
      <3>9. g[m + 1] = step[m][g[m]] /\ h[m + 1] = step[m][h[m]]
        BY <1>2, <3>1, <3>2
      <3> QED BY <3>5, <3>8, <3>9
    <2>3. S = Nat
      <3> HIDE DEF S
      <3>1. S \in SUBSET Nat
        BY DEF S
      <3> QED BY <2>1, <2>2, <3>1, Induction
    <2> HIDE DEF Run
    <2> QED BY <2>3
  <1> DEFINE run(n) == CHOOSE g : Run(n, g)
             f == [n \in Nat |-> run(n)[n]]
  <1>3. ASSUME NEW n \in Nat
        PROVE  f[n] \in X /\ f[0] = first /\ f[n + 1] = step[n][f[n]]
    <2> HIDE DEF Run
    <2>1. Run(n, run(n)) /\ Run(n + 1, run(n + 1)) /\ Run(0, run(0))
      BY <1>1
    <2> HIDE DEF run
    <2>2. f[n] = run(n)[n] /\ f[n + 1] = run(n + 1)[n + 1] /\ f[0] = run(0)[0]
      OBVIOUS
    <2>3. run(n)[n] = run(n + 1)[n]
      <3>1. n + 1 \in Nat /\ n <= n + 1
        OBVIOUS
      <3> QED BY <1>2, <2>1, <3>1
    <2>4. run(n + 1)[n + 1] = step[n][run(n + 1)[n]]
      BY <2>1 DEF Run
    <2>5. run(n)[n] \in X /\ run(0)[0] = first
      BY <2>1 DEF Run
    <2> QED BY <2>2, <2>3, <2>4, <2>5
  <1>4. f \in [Nat -> X]
    BY <1>3
  <1> HIDE DEF f
  <1>5. Follows(f, first, step)
    BY <1>3 DEF Follows
  <1> QED BY <1>4, <1>5

(* A set that has each element of which it has all those of lower rank has *)
(* them all.                                                               *)
LEMMA RankInduction ==
  ASSUME NEW S, NEW rank \in [S -> Nat]
  PROVE  \A P \in SUBSET S :
           (\A x \in S : (\A y \in S : rank[y] < rank[x] => y \in P) => x \in P)
             => P = S
  <1> SUFFICES ASSUME NEW P \in SUBSET S,
        \A x \in S : (\A y \in S : rank[y] < rank[x] => y \in P) => x \in P
               PROVE  P = S
    OBVIOUS
  <1> DEFINE T == {rank[x] : x \in S \ P}
  <1>1. SUFFICES ASSUME S \ P # {} PROVE FALSE
    OBVIOUS
  <1>2. T \in SUBSET Nat /\ T # {}
    BY <1>1
  <1>3. PICK n \in T : \A m \in T : n <= m
    <2> HIDE DEF T
    <2> QED BY <1>2, Least
  <1>4. PICK x \in S \ P : rank[x] = n
    BY <1>3
  <1>5. ASSUME NEW y \in S, rank[y] < rank[x], y \notin P PROVE FALSE
    <2>1. rank[y] \in T
      BY <1>5
    <2>2. rank[x] <= rank[y] /\ rank[x] \in Nat /\ rank[y] \in Nat
      BY <1>3, <1>4, <2>1
    <2> QED BY <1>5, <2>2
  <1> QED
    BY <1>4, <1>5

(* Each element makes a value of X of the values of the ones of lower rank. *)
Ranked(S, X, rank, step) ==
  /\ rank \in [S -> Nat] /\ step \in [S -> [[S -> X] -> X]]
  /\ \A x \in S : \A f, g \in [S -> X] :
       (\A y \in S : rank[y] < rank[x] => f[y] = g[y])
         => step[x][f] = step[x][g]

(* That defines a function.                                                *)
LEMMA RankedRecursion ==
  ASSUME NEW S, NEW X, NEW x0 \in X, NEW rank, NEW step,
         Ranked(S, X, rank, step)
  PROVE  \E f \in [S -> X] : \A x \in S : f[x] = step[x][f]
  <1> USE DEF Ranked
  <1> DEFINE Y == [S -> X]
             first == [x \in S |-> x0]
             Over(f) == [x \in S |-> step[x][f]]
             next == [n \in Nat |-> [f \in Y |-> Over(f)]]
  <1>1. first \in Y
    OBVIOUS
  <1>2. \A f \in Y : Over(f) \in Y
    OBVIOUS
  <1>3. next \in [Nat -> [Y -> Y]]
    BY <1>2
  <1>4. PICK G \in [Nat -> Y] : Follows(G, first, next)
    <2> HIDE DEF Y, first, next
    <2> QED BY <1>1, <1>3, RecursionExists
  <1>5. \A n \in Nat : G[n + 1] = Over(G[n])
    BY <1>4 DEF Follows
  <1>6. \A n \in Nat : G[n] \in [S -> X]
    BY <1>4
  <1>7. \A n \in Nat : \A x \in S : G[n + 1][x] = step[x][G[n]]
    <2> SUFFICES ASSUME NEW n \in Nat, NEW x \in S
                 PROVE  G[n + 1][x] = step[x][G[n]]
      OBVIOUS
    <2>1. G[n + 1] = [z \in S |-> step[z][G[n]]]
      BY <1>5
    <2> QED BY <2>1
  <1> DEFINE Steady(x, n) == G[n + 1][x] = G[n][x]
             P == {x \in S : \A n \in Nat : rank[x] < n => Steady(x, n)}
  <1>8. P = S
    <2> HIDE DEF next, first, Y
    <2>1. ASSUME NEW x \in S, \A y \in S : rank[y] < rank[x] => y \in P,
                 NEW n \in Nat, rank[x] < n
          PROVE  Steady(x, n)
      <3>1. n - 1 \in Nat /\ (n - 1) + 1 = n /\ rank[x] \in Nat
        BY <2>1
      <3>2. ASSUME NEW y \in S, rank[y] < rank[x]
            PROVE  G[n][y] = G[n - 1][y]
        <4>1. y \in P /\ rank[y] \in Nat /\ rank[y] < n - 1
          BY <2>1, <3>1, <3>2
        <4>2. G[(n - 1) + 1][y] = G[n - 1][y]
          BY <3>1, <4>1
        <4> QED BY <3>1, <4>2
      <3>3. step[x][G[n]] = step[x][G[n - 1]]
        BY <1>6, <3>1, <3>2
      <3>4. G[n + 1][x] = step[x][G[n]]
        BY <1>7
      <3>5. G[(n - 1) + 1][x] = step[x][G[n - 1]]
        BY <1>7, <3>1
      <3> QED BY <3>1, <3>3, <3>4, <3>5
    <2>2. P \in SUBSET S
      OBVIOUS
    <2>3. \A x \in S : (\A y \in S : rank[y] < rank[x] => y \in P) => x \in P
      BY <2>1
    <2>4. \A Q \in SUBSET S :
            (\A x \in S : (\A y \in S : rank[y] < rank[x] => y \in Q) => x \in Q)
              => Q = S
      BY RankInduction
    <2> HIDE DEF P
    <2> QED BY <2>2, <2>3, <2>4
  <1> DEFINE f == [x \in S |-> G[rank[x] + 1][x]]
  <1>9. ASSUME NEW x \in S, NEW n \in Nat, rank[x] < n
        PROVE  G[n][x] = f[x]
    <2> DEFINE Q == {m \in Nat : G[rank[x] + 1 + m][x] = f[x]}
    <2>1. 0 \in Q
      OBVIOUS
    <2>2. ASSUME NEW m \in Q PROVE m + 1 \in Q
      <3>1. /\ m \in Nat /\ rank[x] \in Nat
            /\ rank[x] + 1 + m \in Nat /\ rank[x] < rank[x] + 1 + m
        BY <2>2
      <3>2. G[(rank[x] + 1 + m) + 1][x] = G[rank[x] + 1 + m][x]
        BY <1>8, <3>1
      <3>3. (rank[x] + 1 + m) + 1 = rank[x] + 1 + (m + 1)
        BY <3>1
      <3>4. G[rank[x] + 1 + m][x] = f[x]
        BY <2>2
      <3> HIDE DEF f
      <3> QED BY <3>1, <3>2, <3>3, <3>4
    <2>3. Q = Nat
      <3>1. Q \in SUBSET Nat
        OBVIOUS
      <3> HIDE DEF Q
      <3> QED BY <2>1, <2>2, <3>1, Induction
    <2>4. n - rank[x] - 1 \in Nat /\ rank[x] + 1 + (n - rank[x] - 1) = n
      BY <1>9
    <2>5. n - rank[x] - 1 \in Q
      BY <2>3, <2>4
    <2> HIDE DEF f
    <2> QED BY <2>4, <2>5
  <1>10. f \in [S -> X]
    BY <1>6
  <1>11. ASSUME NEW x \in S PROVE f[x] = step[x][f]
    <2>1. rank[x] \in Nat /\ f[x] = G[rank[x] + 1][x]
      OBVIOUS
    <2>2. f[x] = step[x][G[rank[x]]]
      BY <1>7, <2>1
    <2> HIDE DEF f, P
    <2>3. \A y \in S : rank[y] < rank[x] => G[rank[x]][y] = f[y]
      BY <1>9, <2>1
    <2>4. step[x][G[rank[x]]] = step[x][f]
      BY <1>6, <1>10, <2>1, <2>3
    <2> QED BY <2>2, <2>4
  <1> HIDE DEF f
  <1> QED
    BY <1>10, <1>11

(* Each value of F is in X when those of lower rank are.                   *)
Inherits(S, X, rank, F) ==
  /\ rank \in [S -> Nat] /\ F = [x \in S |-> F[x]]
  /\ \A x \in S : (\A y \in S : rank[y] < rank[x] => F[y] \in X) => F[x] \in X

(* Then all are.                                                           *)
LEMMA RankedValues ==
  ASSUME NEW S, NEW X, NEW rank, NEW F, Inherits(S, X, rank, F)
  PROVE  F \in [S -> X]
  <1> USE DEF Inherits
  <1> DEFINE P == {x \in S : F[x] \in X}
  <1>1. P \in SUBSET S
    OBVIOUS
  <1>2. \A x \in S : (\A y \in S : rank[y] < rank[x] => y \in P) => x \in P
    OBVIOUS
  <1>3. P = S
    <2> HIDE DEF P
    <2> QED BY <1>1, <1>2, RankInduction
  <1>4. \A x \in S : F[x] \in X
    BY <1>3
  <1> QED BY <1>4

(* The function that FlattenSeq computes with exists, so that it is what   *)
(* its definition says.                                                    *)
LEMMA FlattenSteps ==
  ASSUME NEW S, NEW seqs \in Seq(Seq(S)), seqs # <<>>
  PROVE  \E f \in [1 .. Len(seqs) -> Seq(S)] :
           /\ FlattenSeq(seqs) = f[Len(seqs)]
           /\ f[1] = seqs[1]
           /\ \A i \in 2 .. Len(seqs) : f[i] = f[i - 1] \o seqs[i]
  <1> DEFINE n == Len(seqs)
  <1>1. n \in Nat /\ n >= 1 /\ n # 0
    OBVIOUS
  <1>2. \A i \in 1 .. n : seqs[i] \in Seq(S)
    OBVIOUS
  <1> DEFINE step == [k \in Nat |-> [t \in Seq(S) |->
                        IF k + 2 <= n THEN t \o seqs[k + 2] ELSE t]]
  <1>3. step \in [Nat -> [Seq(S) -> Seq(S)]]
    <2>1. \A k \in Nat, t \in Seq(S) : k + 2 <= n => t \o seqs[k + 2] \in Seq(S)
      BY <1>1, <1>2, ConcatProperties
    <2> QED BY <2>1
  <1>4. seqs[1] \in Seq(S)
    BY <1>1, <1>2
  <1>5. PICK g \in [Nat -> Seq(S)] :
          g[0] = seqs[1] /\ \A k \in Nat : g[k + 1] = step[k][g[k]]
    <2> DEFINE X == Seq(S)
               first == seqs[1]
    <2>1. step \in [Nat -> [X -> X]] /\ first \in X
      BY <1>3, <1>4
    <2> HIDE DEF step, X, first
    <2>2. \E g \in [Nat -> X] : Follows(g, first, step)
      BY <2>1, RecursionExists
    <2> QED BY <2>2 DEF X, first, Follows
  <1> DEFINE h == [i \in 1 .. n |-> g[i - 1]]
             Flat(f) == [i \in 1 .. n |-> IF i = 1 THEN seqs[i]
                                          ELSE f[i - 1] \o seqs[i]]
             flatten == CHOOSE f : f = Flat(f)
  <1>6. h = Flat(h)
    <2>1. ASSUME NEW i \in 1 .. n, i # 1
          PROVE  g[i - 1] = g[i - 2] \o seqs[i]
      <3>1. i - 2 \in Nat /\ (i - 2) + 1 = i - 1 /\ (i - 2) + 2 = i
        BY <1>1, <2>1
      <3>2. g[i - 1] = step[i - 2][g[i - 2]]
        <4> HIDE DEF step
        <4> QED BY <1>5, <3>1
      <3>3. g[i - 2] \in Seq(S)
        BY <1>5, <3>1
      <3>4. \A k \in Nat, t \in Seq(S) : k + 2 <= n =>
              step[k][t] = t \o seqs[k + 2]
        OBVIOUS
      <3>5. i <= n
        BY <1>1
      <3> HIDE DEF step
      <3> QED BY <3>1, <3>2, <3>3, <3>4, <3>5
    <2>2. ASSUME NEW i \in 1 .. n, i # 1
          PROVE  h[i] = h[i - 1] \o seqs[i]
      <3>1. i - 1 \in 1 .. n /\ (i - 1) - 1 = i - 2
        BY <1>1, <2>2
      <3>2. h[i] = g[i - 1] /\ h[i - 1] = g[i - 2]
        BY <3>1
      <3> HIDE DEF h
      <3> QED BY <2>1, <2>2, <3>2
    <2>3. h[1] = seqs[1]
      BY <1>1, <1>5
    <2> HIDE DEF h
    <2>4. \A i \in 1 .. n : h[i] = IF i = 1 THEN seqs[i] ELSE h[i - 1] \o seqs[i]
      BY <2>2, <2>3
    <2> QED BY <2>4 DEF h
  <1>7. flatten = Flat(flatten)
    <2> HIDE DEF Flat, h
    <2> QED BY <1>6
  <1>8. FlattenSeq(seqs) = flatten[n]
    BY <1>1 DEF FlattenSeq
  <1> HIDE DEF flatten
  <1>9. flatten[1] = seqs[1]
    BY <1>1, <1>7
  <1>10. \A i \in 2 .. n : flatten[i] = flatten[i - 1] \o seqs[i]
    <2> SUFFICES ASSUME NEW i \in 2 .. n
                 PROVE  flatten[i] = flatten[i - 1] \o seqs[i]
      OBVIOUS
    <2>1. i \in 1 .. n /\ i # 1
      BY <1>1
    <2>2. Flat(flatten)[i] = flatten[i - 1] \o seqs[i]
      BY <2>1
    <2> HIDE DEF Flat
    <2>3. flatten[i] = Flat(flatten)[i]
      BY <1>7
    <2> QED BY <2>2, <2>3
  <1>11. \A k \in Nat : k + 1 <= n => flatten[k + 1] \in Seq(S)
    <2>0. flatten[1] \in Seq(S) /\ 0 + 1 = 1
      BY <1>4, <1>9
    <2> DEFINE T == {k \in Nat : k + 1 <= n => flatten[k + 1] \in Seq(S)}
    <2>1. 0 \in T
      BY <2>0
    <2>2. ASSUME NEW k \in T PROVE k + 1 \in T
      <3>1. SUFFICES ASSUME (k + 1) + 1 <= n
                     PROVE  flatten[(k + 1) + 1] \in Seq(S)
        OBVIOUS
      <3>2. k \in Nat /\ k + 1 <= n /\ k + 2 \in 2 .. n /\ k + 2 \in 1 .. n
        BY <1>1, <3>1
      <3>3. flatten[k + 2] = flatten[(k + 2) - 1] \o seqs[k + 2]
        BY <1>10, <3>2
      <3>4. (k + 2) - 1 = k + 1 /\ (k + 1) + 1 = k + 2
        BY <3>2
      <3>5. flatten[k + 1] \in Seq(S)
        BY <3>2
      <3>6. flatten[k + 2] = flatten[k + 1] \o seqs[k + 2]
        BY <3>3, <3>4
      <3>7. seqs[k + 2] \in Seq(S)
        BY <1>2, <3>2
      <3>8. flatten[k + 1] \o seqs[k + 2] \in Seq(S)
        BY <3>5, <3>7, ConcatProperties
      <3> QED BY <3>4, <3>6, <3>8
    <2>3. T = Nat
      <3> HIDE DEF T
      <3>1. T \in SUBSET Nat
        BY DEF T
      <3> QED BY <2>1, <2>2, <3>1, Induction
    <2> QED BY <2>3
  <1>12. \A i \in 1 .. n : flatten[i] \in Seq(S)
    <2> SUFFICES ASSUME NEW i \in 1 .. n PROVE flatten[i] \in Seq(S)
      OBVIOUS
    <2>1. i - 1 \in Nat /\ (i - 1) + 1 = i /\ i <= n
      BY <1>1
    <2> QED BY <1>11, <2>1
  <1>13. flatten = [i \in 1 .. n |-> flatten[i]]
    BY <1>7
  <1>14. flatten \in [1 .. n -> Seq(S)]
    BY <1>12, <1>13
  <1> QED BY <1>8, <1>9, <1>10, <1>14

(* What sequences of elements of S are flattened to is one of them.        *)
LEMMA FlattenIsSeq ==
  ASSUME NEW S, NEW seqs \in Seq(Seq(S))
  PROVE  FlattenSeq(seqs) \in Seq(S)
  <1>1. CASE seqs = <<>>
    BY <1>1 DEF FlattenSeq
  <1>2. CASE seqs # <<>>
    <2>1. Len(seqs) \in 1 .. Len(seqs)
      BY <1>2
    <2>2. PICK f \in [1 .. Len(seqs) -> Seq(S)] :
            FlattenSeq(seqs) = f[Len(seqs)]
      BY <1>2, FlattenSteps
    <2>3. f[Len(seqs)] \in Seq(S)
      BY <2>1
    <2> QED BY <2>2, <2>3
  <1> QED BY <1>1, <1>2
=============================================================================
