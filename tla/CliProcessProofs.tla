-------------------------- MODULE CliProcessProofs --------------------------
(***************************************************************************)
(* Whatever the program and the command line, a parse keeps the words:     *)
(* WordsKept is invariant.  The proof follows each token from the line,    *)
(* args, to who keeps it (an option its results, an app its remaining      *)
(* arguments) through an inductive invariant, Inv:                         *)
(*    Tidy      args and each keeper are in order, what is kept precedes   *)
(*              what is still to be read, and no word has two keepers;     *)
(*    AllThere  a word is still to be read, or kept, or it named a         *)
(*              subcommand that has begun;                                 *)
(*    Seen      a token that is to be read is one of the line, or what     *)
(*              follows the names of it that were read;                    *)
(*    Running   the calls of _parse, the steps and the items that are left *)
(*              are what they should be.                                   *)
(* Sections: the tree, and what is found in it; the order of tokens; what  *)
(* an option takes; what a step can do to tokens (GainsKept, MissingKept,  *)
(* ResultsKept, BegunKept, OthersKept); one lemma for each action.         *)
(***************************************************************************)
EXTENDS CliProcess, Recursion, FiniteSetTheorems

(* The program that is run and the line it is given.                       *)
Given == IsProgram(cli) /\ IsLine(line)

----------------------------------------------------------------------------
(* The tree of apps, and the functions that are defined by recursion       *)
(* through it.                                                             *)

(* What the apps and options of a program are.                             *)
LEMMA TreeIs ==
  ASSUME IsProgram(cli)
  PROVE  /\ Main \in Apps /\ None \notin Apps /\ None \notin Options
         /\ \A a \in Apps :
              /\ A(a).subs \in Seq(Apps) /\ A(a).opts \in Seq(Options)
              /\ Parent(a) \in Apps \cup {None}
  BY DEF IsProgram, IsTree, Apps, Options, A, Parent

(* Subcommands are less high than their parent.                            *)
LEMMA Heights ==
  ASSUME IsProgram(cli)
  PROVE  \E h \in [Apps -> Nat] :
           \A a \in Apps : \A i \in DOMAIN A(a).subs :
             A(a).subs[i] \in Apps /\ h[A(a).subs[i]] < h[a]
  <1> DEFINE n == Cardinality(Apps)
  <1>1. n \in Nat
    BY FS_CardinalityType DEF IsProgram, IsTree, Apps
  <1>2. PICK depth \in [Apps -> 0..n] :
          \A a \in Apps : Parent(a) # None => depth[Parent(a)] < depth[a]
    BY DEF IsProgram, IsTree, Apps, Parent, A
  <1>3. \A a \in Apps : \A i \in DOMAIN A(a).subs :
          A(a).subs[i] \in Apps /\ Parent(A(a).subs[i]) = a
    BY TreeIs DEF IsProgram, IsTree, Apps, Parent, A
  <1> DEFINE h == [a \in Apps |-> n - depth[a]]
  <1> HIDE DEF n
  <1>4. h \in [Apps -> Nat]
    BY <1>1, <1>2
  <1>5. ASSUME NEW a \in Apps, NEW i \in DOMAIN A(a).subs
        PROVE  A(a).subs[i] \in Apps /\ h[A(a).subs[i]] < h[a]
    <2> DEFINE s == A(a).subs[i]
    <2>1. s \in Apps /\ Parent(s) = a /\ a # None
      BY <1>3, TreeIs
    <2> HIDE DEF s
    <2>2. depth[a] < depth[s] /\ depth[a] \in 0..n /\ depth[s] \in 0..n
      BY <1>2, <2>1
    <2>3. h[s] = n - depth[s] /\ h[a] = n - depth[a]
      BY <2>1
    <2>4. h[s] < h[a]
      BY <1>1, <2>2, <2>3
    <2> QED BY <2>1, <2>4 DEF s
  <1> HIDE DEF h
  <1> QED BY <1>4, <1>5

(* And a parent is less deep.                                              *)
LEMMA Depths ==
  ASSUME IsProgram(cli)
  PROVE  \E depth \in [Apps -> Nat] :
           \A a \in Apps : Parent(a) # None => depth[Parent(a)] < depth[a]
  <1> DEFINE n == Cardinality(Apps)
  <1>1. n \in Nat
    BY FS_CardinalityType DEF IsProgram, IsTree, Apps
  <1>2. PICK depth \in [Apps -> 0..n] :
          \A a \in Apps : Parent(a) # None => depth[Parent(a)] < depth[a]
    BY DEF IsProgram, IsTree, Apps, Parent, A
  <1>3. depth \in [Apps -> Nat]
    BY <1>1, <1>2
  <1> QED BY <1>2, <1>3

(* What is found is one of what is looked for.                             *)
LEMMA FirstInIs ==
  ASSUME NEW X, NEW s \in Seq(X), NEW T
  PROVE  \/ FirstIn(s, T) = None /\ \A i \in DOMAIN s : s[i] \notin T
         \/ FirstIn(s, T) \in T /\ FirstIn(s, T) \in X
  <1> DEFINE at == {i \in DOMAIN s : s[i] \in T}
  <1>1. CASE at = {}
    BY <1>1 DEF FirstIn
  <1>2. CASE at # {}
    <2>1. at \in SUBSET Nat
      OBVIOUS
    <2>2. PICK n \in at : \A m \in at : n <= m
      <3> HIDE DEF at
      <3> QED BY <1>2, <2>1, Least
    <2>3. n \in 1..Len(s) /\ s[n] \in T
      OBVIOUS
    <2>4. \A j \in 1..(n - 1) : s[j] \notin T
      <3> SUFFICES ASSUME NEW j \in 1..(n - 1), s[j] \in T PROVE FALSE
        OBVIOUS
      <3>1. j \in DOMAIN s /\ j < n
        BY <2>3
      <3>2. n <= j
        BY <2>2, <3>1
      <3> QED BY <2>3, <3>1, <3>2
    <2> DEFINE i == CHOOSE i \in DOMAIN s :
                      s[i] \in T /\ \A j \in 1..(i - 1) : s[j] \notin T
    <2>5. i \in DOMAIN s /\ s[i] \in T
      BY <2>3, <2>4
    <2>6. FirstIn(s, T) = s[i]
      BY <2>5 DEF FirstIn
    <2> HIDE DEF i
    <2> QED BY <2>5, <2>6
  <1> QED BY <1>1, <1>2

(* What Reach makes of the values of the subcommands, ...                  *)
ReachBody(skipped, f, a) ==
  FlattenSeq([i \in DOMAIN A(a).subs |->
    IF A(a).subs[i] \in skipped THEN <<>>
    ELSE IF IsGroup(A(a).subs[i])
         THEN Append(f[A(a).subs[i]], A(a).subs[i]) ELSE <<A(a).subs[i]>>])

(* ... a sequence of apps if theirs are, ...                               *)
LEMMA ReachBodyTyped ==
  ASSUME IsProgram(cli), NEW skipped, NEW f, NEW a \in Apps,
         \A i \in DOMAIN A(a).subs : f[A(a).subs[i]] \in Seq(Apps)
  PROVE  ReachBody(skipped, f, a) \in Seq(Apps)
  <1> DEFINE subs == A(a).subs
             Visit(i) == IF subs[i] \in skipped THEN <<>>
                         ELSE IF IsGroup(subs[i])
                              THEN Append(f[subs[i]], subs[i]) ELSE <<subs[i]>>
             parts == [i \in DOMAIN subs |-> Visit(i)]
  <1>1. subs \in Seq(Apps)
    BY TreeIs
  <1>2. \A i \in DOMAIN subs : f[subs[i]] \in Seq(Apps) /\ subs[i] \in Apps
    BY <1>1
  <1>3. ReachBody(skipped, f, a) = FlattenSeq(parts)
    BY DEF ReachBody
  <1> HIDE DEF subs
  <1>4. \A i \in DOMAIN subs : Visit(i) \in Seq(Apps)
    BY <1>2
  <1> HIDE DEF Visit
  <1>5. parts \in Seq(Seq(Apps))
    BY <1>1, <1>4
  <1> QED BY <1>3, <1>5, FlattenIsSeq

(* ... and of theirs only.                                                 *)
LEMMA ReachBodyLocal ==
  ASSUME NEW skipped, NEW f, NEW g, NEW a,
         \A i \in DOMAIN A(a).subs : f[A(a).subs[i]] = g[A(a).subs[i]]
  PROVE  ReachBody(skipped, f, a) = ReachBody(skipped, g, a)
  BY DEF ReachBody

(* So an app reaches a sequence of apps.                                   *)
LEMMA ReachIs ==
  ASSUME IsProgram(cli), NEW skipped
  PROVE  Reach(skipped) \in [Apps -> Seq(Apps)]
  <1> DEFINE X == Seq(Apps)
             Is(f) == f = [a \in Apps |-> ReachBody(skipped, f, a)]
             F == Reach(skipped)
             step == [a \in Apps |-> [f \in [Apps -> X] |->
                                        ReachBody(skipped, f, a)]]
  <1>1. PICK h \in [Apps -> Nat] :
          \A a \in Apps : \A i \in DOMAIN A(a).subs :
            A(a).subs[i] \in Apps /\ h[A(a).subs[i]] < h[a]
    BY Heights
  <1>2. step \in [Apps -> [[Apps -> X] -> X]]
    <2>1. \A a \in Apps : \A f \in [Apps -> X] : ReachBody(skipped, f, a) \in X
      BY <1>1, ReachBodyTyped
    <2> QED BY <2>1
  <1>3. ASSUME NEW a \in Apps, NEW f \in [Apps -> X], NEW g \in [Apps -> X],
               \A b \in Apps : h[b] < h[a] => f[b] = g[b]
        PROVE  step[a][f] = step[a][g]
    <2>1. ReachBody(skipped, f, a) = ReachBody(skipped, g, a)
      BY <1>1, <1>3, ReachBodyLocal
    <2> QED BY <2>1
  <1>4. \A a \in Apps : \A f \in [Apps -> X] :
          step[a][f] = ReachBody(skipped, f, a)
    OBVIOUS
  <1>5. <<>> \in X
    OBVIOUS
  <1>6. PICK f \in [Apps -> X] : \A a \in Apps : f[a] = step[a][f]
    <2>1. \A a \in Apps : \A f, g \in [Apps -> X] :
            (\A b \in Apps : h[b] < h[a] => f[b] = g[b])
              => step[a][f] = step[a][g]
      BY <1>3
    <2> HIDE DEF X, step
    <2>2. Ranked(Apps, X, h, step)
      BY <1>2, <2>1 DEF Ranked
    <2> QED BY <1>5, <2>2, RankedRecursion
  <1>7. Is(f)
    BY <1>4, <1>6
  <1>8. F = CHOOSE g : Is(g)
    BY DEF Reach, ReachBody
  <1>9. Is(F)
    <2> HIDE DEF Is
    <2> QED BY <1>7, <1>8
  <1>10. ASSUME NEW a \in Apps, \A b \in Apps : h[b] < h[a] => F[b] \in X
         PROVE  F[a] \in X
    <2>1. F[a] = ReachBody(skipped, F, a)
      BY <1>9
    <2> HIDE DEF F
    <2>2. \A i \in DOMAIN A(a).subs : F[A(a).subs[i]] \in Seq(Apps)
      BY <1>1, <1>10
    <2> QED BY <2>1, <2>2, ReachBodyTyped
  <1>11. F = [a \in Apps |-> F[a]]
    BY <1>9
  <1>12. h \in [Apps -> Nat]
    OBVIOUS
  <1> HIDE DEF F, X
  <1>13. F \in [Apps -> X]
    <2>1. Inherits(Apps, X, h, F)
      BY <1>10, <1>11, <1>12 DEF Inherits
    <2> QED BY <2>1, RankedValues
  <1> QED BY <1>13 DEF F, X

(* What Ancestors makes of the value of the parent.                        *)
AncestorsBody(f, a) ==
  LET p == Parent(a)
  IN IF p = None THEN <<>>
     ELSE (IF IsGroup(p) /\ Parent(p) # None THEN <<>> ELSE <<p>>) \o f[p]

(* Whom an app asks are apps.                                              *)
LEMMA AncestorsIs ==
  ASSUME IsProgram(cli)
  PROVE  Ancestors \in [Apps -> Seq(Apps)]
  <1> DEFINE X == Seq(Apps)
             Is(f) == f = [a \in Apps |-> AncestorsBody(f, a)]
             F == Ancestors
             step == [a \in Apps |-> [f \in [Apps -> X] |-> AncestorsBody(f, a)]]
  <1>1. PICK depth \in [Apps -> Nat] :
          \A a \in Apps : Parent(a) # None => depth[Parent(a)] < depth[a]
    BY Depths
  <1>2. ASSUME NEW a \in Apps, NEW f,
               \A b \in Apps : depth[b] < depth[a] => f[b] \in X
        PROVE  AncestorsBody(f, a) \in X
    <2> DEFINE p == Parent(a)
    <2>1. p # None => p \in Apps /\ f[p] \in X
      BY <1>1, <1>2, TreeIs
    <2> HIDE DEF p
    <2>2. AncestorsBody(f, a) =
            IF p = None THEN <<>>
            ELSE (IF IsGroup(p) /\ Parent(p) # None THEN <<>> ELSE <<p>>) \o f[p]
      BY DEF AncestorsBody, p
    <2>3. p # None => <<p>> \in Seq(Apps) /\ <<>> \in Seq(Apps)
      BY <2>1
    <2> QED BY <2>1, <2>2, <2>3, ConcatProperties
  <1>3. ASSUME NEW a \in Apps, NEW f, NEW g,
               \A b \in Apps : depth[b] < depth[a] => f[b] = g[b]
        PROVE  AncestorsBody(f, a) = AncestorsBody(g, a)
    BY <1>1, <1>3, TreeIs DEF AncestorsBody
  <1>4. PICK f \in [Apps -> X] : \A a \in Apps : f[a] = step[a][f]
    <2>1. step \in [Apps -> [[Apps -> X] -> X]]
      BY <1>2
    <2>2. \A a \in Apps : \A f, g \in [Apps -> X] :
            (\A b \in Apps : depth[b] < depth[a] => f[b] = g[b])
              => step[a][f] = step[a][g]
      BY <1>3
    <2>3. <<>> \in X
      OBVIOUS
    <2> HIDE DEF X, step
    <2>4. Ranked(Apps, X, depth, step)
      BY <2>1, <2>2 DEF Ranked
    <2> QED BY <2>3, <2>4, RankedRecursion
  <1>5. Is(f)
    BY <1>4
  <1>6. F = CHOOSE g : Is(g)
    BY DEF Ancestors, AncestorsBody
  <1>7. Is(F)
    <2> HIDE DEF Is
    <2> QED BY <1>5, <1>6
  <1>8. ASSUME NEW a \in Apps, \A b \in Apps : depth[b] < depth[a] => F[b] \in X
        PROVE  F[a] \in X
    <2>1. F[a] = AncestorsBody(F, a)
      BY <1>7
    <2> HIDE DEF F
    <2> QED BY <1>2, <1>8, <2>1
  <1>9. F = [a \in Apps |-> F[a]] /\ depth \in [Apps -> Nat]
    BY <1>7
  <1> HIDE DEF F, X
  <1>10. F \in [Apps -> X]
    <2>1. Inherits(Apps, X, depth, F)
      BY <1>8, <1>9 DEF Inherits
    <2> QED BY <2>1, RankedValues
  <1> QED BY <1>10 DEF F, X

(* What Ways makes of the values of the groups.                            *)
WaysBody(first, second, f, a) ==
  LET group == FirstIn(A(a).subs, {g \in ActiveGroups(a) : f[g] # <<>>})
  IN IF a \in first THEN <<a>>
     ELSE IF group # None THEN <<a>> \o f[group]
     ELSE IF a \in second THEN <<a>> ELSE <<>>

(* Who is passed on the way to a positional: apps, the last of which has   *)
(* one that takes the word.                                                *)
LEMMA WaysAre ==
  ASSUME IsProgram(cli), NEW first, NEW second
  PROVE  Ways(first, second) \in
           [Apps -> {w \in Seq(Apps) :
                       w # <<>> => Last(w) \in first \cup second}]
  <1> DEFINE X == {w \in Seq(Apps) : w # <<>> => Last(w) \in first \cup second}
             Body(f, a) == WaysBody(first, second, f, a)
             Is(f) == f = [a \in Apps |-> Body(f, a)]
             F == Ways(first, second)
             step == [a \in Apps |-> [f \in [Apps -> X] |-> Body(f, a)]]
             Groups(f, a) == {g \in ActiveGroups(a) : f[g] # <<>>}
             group(f, a) == FirstIn(A(a).subs, Groups(f, a))
  <1>1. PICK h \in [Apps -> Nat] :
          \A a \in Apps : \A i \in DOMAIN A(a).subs :
            A(a).subs[i] \in Apps /\ h[A(a).subs[i]] < h[a]
    BY Heights
  <1>2. \A a \in Apps : \A g \in ActiveGroups(a) : g \in Apps /\ h[g] < h[a]
    BY <1>1 DEF ActiveGroups, ToSet
  <1>3. ASSUME NEW a \in Apps, NEW f, group(f, a) # None
        PROVE  group(f, a) \in ActiveGroups(a) /\ f[group(f, a)] # <<>>
    <2> HIDE DEF Groups
    <2>1. A(a).subs \in Seq(Apps)
      BY TreeIs
    <2>2. group(f, a) \in Groups(f, a)
      BY <1>3, <2>1, FirstInIs
    <2> HIDE DEF group
    <2> QED BY <2>2 DEF Groups
  <1>4. \A a \in Apps : \A f :
          Body(f, a) = IF a \in first THEN <<a>>
                       ELSE IF group(f, a) # None THEN <<a>> \o f[group(f, a)]
                       ELSE IF a \in second THEN <<a>> ELSE <<>>
    BY DEF WaysBody
  <1>5. ASSUME NEW a \in Apps, NEW f, \A b \in Apps : h[b] < h[a] => f[b] \in X
        PROVE  Body(f, a) \in X
    <2> HIDE DEF Body
    <2>1. <<a>> \in Seq(Apps) /\ Last(<<a>>) = a /\ <<>> \in Seq(Apps)
      BY DEF Last
    <2>2. CASE a \in first
      BY <1>4, <2>1, <2>2
    <2>3. CASE a \notin first /\ group(f, a) # None
      <3> DEFINE g == group(f, a)
      <3>1. f[g] \in X /\ f[g] # <<>>
        BY <1>2, <1>3, <1>5, <2>3
      <3>2. Body(f, a) = <<a>> \o f[g]
        BY <1>4, <2>3
      <3> HIDE DEF g
      <3>3. /\ <<a>> \o f[g] \in Seq(Apps) /\ <<a>> \o f[g] # <<>>
            /\ Last(<<a>> \o f[g]) = Last(f[g])
        BY <2>1, <3>1 DEF Last
      <3> QED BY <3>1, <3>2, <3>3
    <2>4. CASE a \notin first /\ group(f, a) = None
      BY <1>4, <2>1, <2>4
    <2> QED BY <2>2, <2>3, <2>4
  <1>6. ASSUME NEW a \in Apps, NEW f, NEW g,
               \A b \in Apps : h[b] < h[a] => f[b] = g[b]
        PROVE  Body(f, a) = Body(g, a)
    <2>1. Groups(f, a) = Groups(g, a)
      BY <1>2, <1>6
    <2>2. group(f, a) = group(g, a)
      BY <2>1
    <2> HIDE DEF Body, group
    <2>3. group(f, a) # None => f[group(f, a)] = g[group(f, a)]
      BY <1>2, <1>3, <1>6
    <2> QED BY <1>4, <2>2, <2>3
  <1>7. PICK f \in [Apps -> X] : \A a \in Apps : f[a] = step[a][f]
    <2>1. step \in [Apps -> [[Apps -> X] -> X]]
      <3> HIDE DEF Body, X
      <3> QED BY <1>5
    <2>2. \A a \in Apps : \A f, g \in [Apps -> X] :
            (\A b \in Apps : h[b] < h[a] => f[b] = g[b])
              => step[a][f] = step[a][g]
      <3> HIDE DEF Body, X
      <3> QED BY <1>6
    <2>3. <<>> \in X
      OBVIOUS
    <2> HIDE DEF X, step
    <2>4. Ranked(Apps, X, h, step)
      BY <2>1, <2>2 DEF Ranked
    <2> QED BY <2>3, <2>4, RankedRecursion
  <1>8. Is(f)
    <2> HIDE DEF Body, X
    <2> QED BY <1>7
  <1>9. F = CHOOSE g : Is(g)
    BY DEF Ways, WaysBody
  <1>10. Is(F)
    <2> HIDE DEF Is
    <2> QED BY <1>8, <1>9
  <1>11. ASSUME NEW a \in Apps, \A b \in Apps : h[b] < h[a] => F[b] \in X
         PROVE  F[a] \in X
    <2> HIDE DEF Body, X
    <2>1. F[a] = Body(F, a)
      BY <1>10
    <2> HIDE DEF F
    <2> QED BY <1>5, <1>11, <2>1
  <1>12. F = [a \in Apps |-> F[a]] /\ h \in [Apps -> Nat]
    BY <1>10
  <1> HIDE DEF F, X
  <1>13. F \in [Apps -> X]
    <2>1. Inherits(Apps, X, h, F)
      BY <1>11, <1>12 DEF Inherits
    <2> QED BY <2>1, RankedValues
  <1> QED BY <1>13 DEF F, X

(* Who is found is an app that has the name.                               *)
LEMMA SearchIs ==
  ASSUME IsProgram(cli), NEW a \in Apps, NEW name, NEW skipped, NEW fresh,
         Search(a, name, skipped, fresh) # None
  PROVE  /\ Search(a, name, skipped, fresh) \in Apps
         /\ name \in A(Search(a, name, skipped, fresh)).names
  <1>1. Reach(skipped)[a] \in Seq(Apps)
    BY ReachIs
  <1>2. Search(a, name, skipped, fresh) \in Called(name, fresh)
    BY <1>1, FirstInIs DEF Search
  <1> QED BY <1>2 DEF Called

(* What a word names is an app that has its name.                          *)
LEMMA FindTokenIs ==
  ASSUME IsProgram(cli), NEW a \in Apps, NEW t, NEW fresh,
         FindToken(a, t, fresh) # None
  PROVE  /\ FindToken(a, t, fresh) \in Apps /\ t.k = "word" /\ Len(t.n) = 1
         /\ Last(t.n) \in A(FindToken(a, t, fresh)).names
  BY SearchIs DEF FindToken, Find, Last

(* What Follow makes of the name at place i and of what is before it.      *)
FollowBody(names, skipped, fresh, a, f, i) ==
  IF i = 0 THEN a
  ELSE IF f[i - 1] = None THEN None
  ELSE Search(f[i - 1], names[i], skipped, fresh)

(* Names lead to apps, as long as they lead anywhere.                      *)
LEMMA FollowIs ==
  ASSUME IsProgram(cli), NEW a \in Apps, NEW N, NEW names \in Seq(N),
         NEW skipped, NEW fresh
  PROVE  /\ Follow(a, names, skipped, fresh)
              \in [0 .. Len(names) -> Apps \cup {None}]
         /\ Follow(a, names, skipped, fresh)[Len(names)] # None =>
              Follow(a, names, skipped, fresh) \in [0 .. Len(names) -> Apps]
  <1> DEFINE S == 0 .. Len(names)
             X == Apps \cup {None}
             Body(f, i) == FollowBody(names, skipped, fresh, a, f, i)
             Is(f) == f = [i \in S |-> Body(f, i)]
             F == Follow(a, names, skipped, fresh)
             step == [i \in S |-> [f \in [S -> X] |-> Body(f, i)]]
  <1>1. PICK rank \in [S -> Nat] :
          \A i \in S : i # 0 => i - 1 \in S /\ rank[i - 1] < rank[i]
    <2> WITNESS [i \in S |-> i] \in [S -> Nat]
    <2> QED OBVIOUS
  <1>2. rank \in [S -> Nat]
    OBVIOUS
  <1>3. \A i \in S : \A f :
          Body(f, i) = IF i = 0 THEN a
                       ELSE IF f[i - 1] = None THEN None
                       ELSE Search(f[i - 1], names[i], skipped, fresh)
    BY DEF FollowBody
  <1> HIDE DEF Body
  <1>4. ASSUME NEW i \in S, NEW f, \A j \in S : rank[j] < rank[i] => f[j] \in X
        PROVE  Body(f, i) \in X
    <2>1. i # 0 => f[i - 1] \in X
      BY <1>1, <1>4
    <2>2. i # 0 /\ f[i - 1] # None =>
            Search(f[i - 1], names[i], skipped, fresh) \in X
      BY <2>1, SearchIs
    <2> QED BY <1>3, <2>2
  <1>5. ASSUME NEW i \in S, NEW f, NEW g,
               \A j \in S : rank[j] < rank[i] => f[j] = g[j]
        PROVE  Body(f, i) = Body(g, i)
    BY <1>1, <1>3, <1>5
  <1>6. PICK f \in [S -> X] : \A i \in S : f[i] = step[i][f]
    <2> HIDE DEF X, S
    <2>1. step \in [S -> [[S -> X] -> X]]
      BY <1>4
    <2>2. \A i \in S : \A f, g \in [S -> X] :
            (\A j \in S : rank[j] < rank[i] => f[j] = g[j])
              => step[i][f] = step[i][g]
      BY <1>5
    <2>3. a \in X
      BY DEF X
    <2> HIDE DEF step
    <2>4. Ranked(S, X, rank, step)
      BY <1>2, <2>1, <2>2 DEF Ranked
    <2> QED BY <2>3, <2>4, RankedRecursion
  <1>7. Is(f)
    <2> HIDE DEF X, S
    <2> QED BY <1>6
  <1>8. F = CHOOSE g : Is(g)
    BY DEF Follow, FollowBody, Body
  <1>9. Is(F)
    <2> HIDE DEF Is
    <2> QED BY <1>7, <1>8
  <1> HIDE DEF F
  <1>10. \A i \in S : F[i] = Body(F, i)
    BY <1>9
  <1>11. F = [i \in S |-> F[i]]
    BY <1>9
  <1>12. F \in [S -> X]
    <2> HIDE DEF S, X
    <2>1. ASSUME NEW i \in S, \A j \in S : rank[j] < rank[i] => F[j] \in X
          PROVE  F[i] \in X
      BY <1>4, <1>10, <2>1
    <2>2. Inherits(S, X, rank, F)
      BY <1>2, <1>11, <2>1 DEF Inherits
    <2> QED BY <2>2, RankedValues
  <1>13. ASSUME F[Len(names)] # None
         PROVE  F \in [S -> Apps]
    <2> DEFINE P == {n \in Nat : n <= Len(names) => F[Len(names) - n] # None}
    <2>1. Len(names) \in Nat /\ 0 \in P
      BY <1>13
    <2>2. ASSUME NEW n \in P PROVE n + 1 \in P
      <3>1. SUFFICES ASSUME n + 1 <= Len(names)
                     PROVE  F[Len(names) - (n + 1)] # None
        OBVIOUS
      <3> DEFINE i == Len(names) - n
      <3>2. n \in Nat /\ i \in S /\ i # 0 /\ F[i] # None
        BY <2>1, <3>1
      <3>3. Len(names) - (n + 1) = i - 1
        BY <2>1, <3>2
      <3> HIDE DEF i
      <3> QED BY <1>3, <1>10, <3>2, <3>3
    <2>3. P = Nat
      <3>1. P \in SUBSET Nat
        OBVIOUS
      <3> HIDE DEF P
      <3> QED BY <2>1, <2>2, <3>1, Induction
    <2>4. ASSUME NEW i \in S PROVE F[i] # None
      <3>1. /\ Len(names) - i \in Nat /\ Len(names) - i <= Len(names)
            /\ Len(names) - (Len(names) - i) = i
        BY <2>1
      <3>2. Len(names) - i \in P
        <4> HIDE DEF P
        <4> QED BY <2>3, <3>1
      <3> QED BY <3>1, <3>2
    <2> QED BY <1>12, <2>4
  <1> QED BY <1>12, <1>13 DEF F

----------------------------------------------------------------------------
(* Decisions.                                                              *)

(* Somebody is asked, and one of those that are asked is looked at.        *)
LEMMA AskedAre ==
  ASSUME IsProgram(cli), NEW a \in Apps, NEW answers,
         answers \in SUBSET (DOMAIN Asked(a))
  PROVE  /\ Asked(a) \in Seq(Apps)
         /\ FirstOrLast(answers, Asked(a)) \in DOMAIN Asked(a)
  <1> DEFINE all == <<a>> \o Ancestors[a]
             Reached(i) == \A j \in 1..(i - 1) : A(all[j]).fallthrough
             reached == {i \in DOMAIN all : Reached(i)}
             n == Max(reached)
  <1>1. Ancestors[a] \in Seq(Apps) /\ <<a>> \in Seq(Apps)
    BY AncestorsIs
  <1>2. all \in Seq(Apps) /\ 1 \in DOMAIN all
    BY <1>1
  <1>3. Asked(a) = SubSeq(all, 1, n)
    BY DEF Asked
  <1> HIDE DEF all
  <1>4. reached \in SUBSET (0 .. Len(all)) /\ 1 \in reached /\ Len(all) \in Nat
    BY <1>2
  <1>5. n \in reached
    <2> HIDE DEF reached
    <2> QED BY <1>4, MaxIs
  <1>6. n \in 1 .. Len(all)
    BY <1>2, <1>5
  <1> HIDE DEF n
  <1>7. Asked(a) \in Seq(Apps) /\ Len(Asked(a)) = n
    BY <1>2, <1>3, <1>6
  <1>8. /\ answers \cup {Len(Asked(a))} \in SUBSET Nat
        /\ answers \cup {Len(Asked(a))} \in SUBSET (DOMAIN Asked(a))
    BY <1>6, <1>7
  <1>9. FirstOrLast(answers, Asked(a)) \in answers \cup {Len(Asked(a))}
    BY <1>8, MinIs DEF FirstOrLast
  <1> QED BY <1>7, <1>8, <1>9

(* Who takes a word: an option, or a subcommand that has its name.         *)
LEMMA PositionalTargetIs ==
  ASSUME IsProgram(cli), NEW a \in Apps, NEW t, NEW p,
         p = PositionalTarget(a, t)
  PROVE  /\ p.at \in Apps /\ p.groups \in SUBSET Apps
         /\ p.to = "option" => p.on \in Options
         /\ p.to = "repeat" =>
              /\ p.on \in Apps /\ t.k = "word"
              /\ Last(t.n) \in A(p.on).names
  <1> DEFINE takers == {x \in Apps : PositionalOption(x, t) # None}
             others == {x \in Apps : /\ IsGroup(x) /\ Parent(x) # None
                                     /\ \/ Repeats(x, t)
                                        \/ ~Elsewhere(x, t) /\ A(x).atEnd}
             ways == Ways(takers, others)
             asked == Asked(a)
             answers == {i \in DOMAIN asked : ways[asked[i]] # <<>>}
             n == FirstOrLast(answers, asked)
             way == ways[asked[n]]
             route == PositionalRoute(a, t)
             at == route.at
             groups == route.groups
             Is(to, on) == [Target(to, at, on, t) EXCEPT !.groups = groups]
  <1>1. p = IF PositionalOption(at, t) # None
              THEN Is("option", PositionalOption(at, t))
            ELSE IF Repeats(at, t)
              THEN IF route.halt THEN Is("refused", None)
                   ELSE Is("repeat", FindToken(at, t, FALSE))
            ELSE IF Elsewhere(at, t) THEN Is("refused", None)
            ELSE IF A(at).atEnd THEN Is("extras", None)
            ELSE Is("missing", None)
    BY DEF PositionalTarget, PositionalAnswer
  <1> HIDE DEF takers, others
  <1>2. asked[n] \in Apps
    <2>1. answers \in SUBSET (DOMAIN Asked(a))
      OBVIOUS
    <2> HIDE DEF answers, ways
    <2> QED BY <2>1, AskedAre
  <1>3. way \in Seq(Apps)
    <2> HIDE DEF asked, n
    <2> QED BY <1>2, WaysAre
  <1>4. at \in Apps /\ groups \in SUBSET Apps
    <2>1. /\ at = IF way = <<>> THEN asked[n] ELSE Last(way)
          /\ groups = ToSet(way) \ {asked[n]}
      BY DEF PositionalRoute, Route, takers, others
    <2> HIDE DEF asked, n, ways, way
    <2> QED BY <1>2, <1>3, <2>1 DEF Last, ToSet
  <1> HIDE DEF asked, n, ways, way
  <1> HIDE DEF at, groups, route
  <1> HIDE DEF Is
  <1>5. \/ /\ PositionalOption(at, t) # None
           /\ p = Is("option", PositionalOption(at, t))
        \/ Repeats(at, t) /\ p = Is("repeat", FindToken(at, t, FALSE))
        \/ p = Is("refused", None) \/ p = Is("extras", None)
        \/ p = Is("missing", None)
    BY <1>1, Zenon
  <1>6. /\ p.at = at /\ p.groups = groups
        /\ \/ /\ PositionalOption(at, t) # None
              /\ p.to = "option" /\ p.on = PositionalOption(at, t)
           \/ /\ Repeats(at, t)
              /\ p.to = "repeat" /\ p.on = FindToken(at, t, FALSE)
           \/ p.to \in {"refused", "extras", "missing"}
    <2>1. CASE /\ PositionalOption(at, t) # None
               /\ p = Is("option", PositionalOption(at, t))
      BY <2>1 DEF Is, Target
    <2>2. CASE Repeats(at, t) /\ p = Is("repeat", FindToken(at, t, FALSE))
      BY <2>2 DEF Is, Target
    <2>3. CASE \/ p = Is("refused", None) \/ p = Is("extras", None)
               \/ p = Is("missing", None)
      BY <2>3 DEF Is, Target
    <2> QED BY <1>5, <2>1, <2>2, <2>3
  <1>7. ASSUME p.to = "option"
        PROVE  p.on \in Options
    <2>1. PositionalOption(at, t) # None /\ p.on = PositionalOption(at, t)
      BY <1>6, <1>7
    <2>2. A(at).opts \in Seq(Options)
      BY <1>4, TreeIs
    <2>3. p.on # None
      BY <2>1
    <2>4. \A T : FirstIn(A(at).opts, T) = None \/ FirstIn(A(at).opts, T) \in Options
      BY <2>2, FirstInIs
    <2>5. p.on = None \/ p.on \in Options
      BY <2>1, <2>4 DEF PositionalOption
    <2> QED BY <2>3, <2>5
  <1>8. ASSUME p.to = "repeat"
        PROVE  /\ p.on \in Apps /\ t.k = "word"
               /\ Last(t.n) \in A(p.on).names
    <2>1. Repeats(at, t) /\ p.on = FindToken(at, t, FALSE)
      BY <1>6, <1>8
    <2> QED BY <1>4, <2>1, FindTokenIs DEF Repeats
  <1> QED BY <1>4, <1>6, <1>7, <1>8

(* Tokens keep their place when they are seen without the dots.            *)
LEMMA SeenTokens ==
  ASSUME NEW t \in Tokens
  PROVE  /\ Undotted(t) \in Tokens /\ Undotted(t).id = t.id
         /\ Detached(t) \in Tokens /\ Detached(t).id = t.id
         /\ Front(t.n) \in Seq(Names) /\ Len(Front(t.n)) = Len(t.n) - 1
         /\ Len(t.n) - 1 \in Nat
  <1>1. /\ t.n \in Seq(Names) /\ t.n # <<>> /\ Len(t.n) \in Nat /\ Len(t.n) > 0
        /\ Last(t.n) \in Names
    BY DEF Tokens, Last
  <1>2. <<Last(t.n)>> \in Seq(Names) \ {<<>>}
    BY <1>1
  <1>3. <<None>> \in Seq(Names) \ {<<>>}
    BY DEF Names
  <1>4. Undotted(t) \in Tokens /\ Undotted(t).id = t.id
    BY <1>2 DEF Undotted, Tokens
  <1>5. Detached(t) \in Tokens /\ Detached(t).id = t.id
    BY <1>3 DEF Detached, Tokens
  <1>6. Front(t.n) \in Seq(Names) /\ Len(Front(t.n)) = Len(t.n) - 1
    BY <1>1 DEF Front
  <1> QED BY <1>1, <1>4, <1>5, <1>6

(* Who takes the name of an option: the option that has it.                *)
LEMMA ArgTargetIs ==
  ASSUME IsProgram(cli), NEW a \in Apps, NEW t \in Tokens, NEW p,
         p = ArgTarget(a, t)
  PROVE  /\ p.at \in Apps /\ p.groups \in SUBSET Apps
         /\ p.to # "missing" => p.on \in Options
         /\ p.token \in Tokens /\ p.token.id = t.id
         /\ p.behind \in Seq(Tokens)
         /\ \A i \in DOMAIN p.behind : p.behind[i].id = t.id
         /\ p.dots \in Seq(Apps \X Apps)
  <1> DEFINE dots == Len(t.n) - 1
             token == Undotted(t)
             takers == {x \in Apps : Named(x, token) # None}
             ways == Ways(takers, {})
             asked == Asked(a)
             Path(x) == Follow(x, Front(t.n), disabled, FALSE)
             Goal(x) == Path(x)[dots]
             Way(x) == IF Goal(x) = None THEN <<>> ELSE ways[Goal(x)]
             answers == {i \in DOMAIN asked : Way(asked[i]) # <<>>}
             n == FirstOrLast(answers, asked)
             x == asked[n]
             way == Way(x)
             path == Path(x)
             tries == Cardinality({i \in 1..n : Goal(asked[i]) # None})
             behind == IF OneLetter(t) /\ t.v
                       THEN [i \in 1..tries |-> Detached(t)] ELSE <<>>
             pairs == [i \in 1..dots |-> <<path[dots - i], path[dots - i + 1]>>]
  <1>1. \/ /\ way = <<>>
           /\ p = [Target("missing", x, None, t) EXCEPT !.behind = behind]
        \/ /\ way # <<>>
           /\ p = [to |-> "option", at |-> Last(way),
                   on |-> Named(Last(way), token),
                   groups |-> ToSet(way) \ {path[dots]},
                   token |-> token, behind |-> behind, dots |-> pairs]
    BY DEF ArgTarget, ArgAnswer
  <1>2. x \in Apps /\ n \in 1 .. Len(asked) /\ asked \in Seq(Apps)
    <2>1. answers \in SUBSET (DOMAIN Asked(a))
      OBVIOUS
    <2> HIDE DEF answers
    <2> QED BY <2>1, AskedAre
  <1>3. behind \in Seq(Tokens) /\ \A i \in DOMAIN behind : behind[i].id = t.id
    <2>1. tries \in Nat
      <3>1. n \in Nat
        BY <1>2
      <3>2. IsFiniteSet(1 .. n)
        BY <3>1, FS_Interval
      <3> HIDE DEF Goal, n
      <3>3. IsFiniteSet({i \in 1..n : Goal(asked[i]) # None})
        BY <3>2, FS_Subset
      <3> QED BY <3>3, FS_CardinalityType
    <2> HIDE DEF tries
    <2> QED BY <2>1, SeenTokens
  <1> HIDE DEF answers, asked, n, tries, ways, behind
  <1>4. way # <<>> =>
          /\ path \in [0 .. dots -> Apps]
          /\ path[dots] \in Apps /\ path[dots] = Goal(x) /\ dots \in Nat
    <2>1. Front(t.n) \in Seq(Names) /\ Len(Front(t.n)) = dots /\ dots \in Nat
      BY SeenTokens
    <2>2. way # <<>> => path[dots] # None
      OBVIOUS
    <2> HIDE DEF dots, way
    <2>3. path[dots] # None => path \in [0 .. dots -> Apps]
      <3> HIDE DEF x
      <3>1. path[Len(Front(t.n))] # None =>
              path \in [0 .. Len(Front(t.n)) -> Apps]
        BY <1>2, <2>1, FollowIs
      <3> QED BY <2>1, <3>1
    <2> HIDE DEF path
    <2>4. dots \in 0 .. dots
      BY <2>1
    <2> QED BY <2>1, <2>2, <2>3, <2>4 DEF path
  <1>5. way # <<>> =>
          way \in Seq(Apps) /\ Last(way) \in takers /\ Last(way) \in Apps
    <2> HIDE DEF takers
    <2>1. way # <<>> => Goal(x) \in Apps /\ way = ways[Goal(x)]
      BY <1>4
    <2> HIDE DEF Goal, way, x
    <2> QED BY <2>1, WaysAre DEF ways, Last
  <1>6. way # <<>> => pairs \in Seq(Apps \X Apps)
    <2> HIDE DEF path, dots, way
    <2> SUFFICES ASSUME way # <<>> PROVE pairs \in Seq(Apps \X Apps)
      OBVIOUS
    <2>1. dots \in Nat /\ path \in [0 .. dots -> Apps]
      BY <1>4
    <2>2. \A i \in 1 .. dots : dots - i \in 0 .. dots /\ dots - i + 1 \in 0 .. dots
      BY <2>1
    <2>3. \A i \in 1 .. dots :
            <<path[dots - i], path[dots - i + 1]>> \in Apps \X Apps
      BY <2>1, <2>2
    <2> QED BY <2>1, <2>3
  <1> HIDE DEF path, Goal, way, dots, pairs, x
  <1>7. CASE /\ way = <<>>
             /\ p = [Target("missing", x, None, t) EXCEPT !.behind = behind]
    <2>1. /\ p.to = "missing" /\ p.at = x /\ p.groups = {} /\ p.token = t
          /\ p.behind = behind /\ p.dots = <<>>
      BY <1>7 DEF Target
    <2> QED BY <1>2, <1>3, <2>1
  <1>8. CASE /\ way # <<>>
             /\ p = [to |-> "option", at |-> Last(way),
                     on |-> Named(Last(way), token),
                     groups |-> ToSet(way) \ {path[dots]},
                     token |-> token, behind |-> behind, dots |-> pairs]
    <2>1. /\ p.to = "option" /\ p.at = Last(way) /\ p.token = token
          /\ p.on = Named(Last(way), token)
          /\ p.groups = ToSet(way) \ {path[dots]}
          /\ p.behind = behind /\ p.dots = pairs
      BY <1>8
    <2>2. p.groups \in SUBSET Apps
      BY <1>5, <1>8, <2>1 DEF ToSet
    <2>3. token \in Tokens /\ token.id = t.id
      BY SeenTokens
    <2> HIDE DEF token
    <2>4. p.on \in Options
      <3>1. A(Last(way)).opts \in Seq(Options)
        BY <1>5, <1>8, TreeIs
      <3>2. Named(Last(way), token) # None
        BY <1>5, <1>8
      <3> QED BY <2>1, <3>1, <3>2, FirstInIs DEF Named
    <2> QED BY <1>3, <1>5, <1>6, <1>8, <2>1, <2>2, <2>3, <2>4
  <1> QED BY <1>1, <1>7, <1>8

(* What nobody takes is kept by an app.                                    *)
LEMMA MissingAtIs ==
  ASSUME IsProgram(cli), NEW a \in Apps
  PROVE  MissingAt(a) \in Apps
  <1>1. A(a).subs \in Seq(Apps)
    BY TreeIs
  <1>2. \A T : FirstIn(A(a).subs, T) = None \/ FirstIn(A(a).subs, T) \in Apps
    BY <1>1, FirstInIs
  <1> QED BY <1>2 DEF MissingAt

----------------------------------------------------------------------------
(* The order of the command line.                                          *)

(* x may stand before y.                                                   *)
NotAfter(x, y) ==
  Ordered(x) /\ Ordered(y) => x < y \/ (x = y /\ x \notin Words)

(* All of s may stand before all of t.                                     *)
Precedes(s, t) == \A i \in DOMAIN s, j \in DOMAIN t : NotAfter(s[i], t[j])

(* The elements of s are some of t, or no places of the command line.      *)
Within(s, t) ==
  \A i \in DOMAIN s : s[i] = 0 \/ \E j \in DOMAIN t : s[i] = t[j]

(* x is an element of s.                                                   *)
In(x, s) == \E i \in DOMAIN s : s[i] = x

(* What is at no place may stand anywhere, and only a word not twice.      *)
LEMMA NotAfterIs ==
  ASSUME IsLine(line)
  PROVE  /\ 0 \notin Words /\ Words \subseteq Nat
         /\ \A x : NotAfter(0, x) /\ NotAfter(x, 0)
         /\ \A x \in Words : ~NotAfter(x, x)
         /\ \A x : x \notin Words => NotAfter(x, x)
  <1>1. 0 \notin DOMAIN line /\ DOMAIN line \subseteq Nat
    BY DEF IsLine
  <1>2. 0 \notin Words /\ Words \subseteq Nat
    BY <1>1 DEF Words
  <1>3. ~Ordered(0)
    BY <1>1, <1>2 DEF Ordered
  <1>4. \A x \in Words : Ordered(x) /\ ~(x < x)
    BY <1>2 DEF Ordered, Words
  <1> QED BY <1>2, <1>3, <1>4 DEF NotAfter

(* A sequence is in order when of any two elements the first may stand     *)
(* before the second.                                                      *)
LEMMA InOrderIs ==
  ASSUME NEW s
  PROVE  InOrder(s) <=>
           \A i, j \in DOMAIN s : i < j => NotAfter(s[i], s[j])
  BY DEF InOrder, NotAfter

(* What precedes still does when some of it is left out.                   *)
LEMMA PrecedesWithin ==
  ASSUME IsLine(line), NEW s, NEW t, NEW u, NEW v,
         Precedes(s, t), Within(u, s), Within(v, t)
  PROVE  Precedes(u, v)
  BY NotAfterIs DEF Precedes, Within

(* Two sequences, one behind the other, are in order when both are and the *)
(* first precedes the second.                                              *)
LEMMA ConcatInOrder ==
  ASSUME NEW s \in Seq(Nat), NEW t \in Seq(Nat)
  PROVE  InOrder(s \o t) <=> InOrder(s) /\ InOrder(t) /\ Precedes(s, t)
  <1>1. /\ Len(s) \in Nat /\ Len(t) \in Nat /\ Len(s \o t) = Len(s) + Len(t)
        /\ DOMAIN s = 1 .. Len(s) /\ DOMAIN t = 1 .. Len(t)
        /\ DOMAIN (s \o t) = 1 .. (Len(s) + Len(t))
    OBVIOUS
  <1>2. \A i \in DOMAIN s : i \in DOMAIN (s \o t) /\ (s \o t)[i] = s[i]
    OBVIOUS
  <1>3. \A i \in DOMAIN t : /\ Len(s) + i \in DOMAIN (s \o t)
                            /\ (s \o t)[Len(s) + i] = t[i]
    OBVIOUS
  <1>4. \A i \in DOMAIN (s \o t) :
          i \in DOMAIN s \/ (i > Len(s) /\ i - Len(s) \in DOMAIN t
                             /\ (s \o t)[i] = t[i - Len(s)])
    BY <1>1
  <1>5. ASSUME InOrder(s \o t)
        PROVE  InOrder(s) /\ InOrder(t) /\ Precedes(s, t)
    <2>1. \A i, j \in DOMAIN (s \o t) :
            i < j => NotAfter((s \o t)[i], (s \o t)[j])
      BY <1>5, InOrderIs
    <2>2. \A i, j \in DOMAIN s : i < j => NotAfter(s[i], s[j])
      BY <1>2, <2>1
    <2>3. ASSUME NEW i \in DOMAIN t, NEW j \in DOMAIN t, i < j
          PROVE  NotAfter(t[i], t[j])
      <3>1. Len(s) + i < Len(s) + j
        BY <1>1, <2>3
      <3> QED BY <1>3, <2>1, <3>1
    <2>4. ASSUME NEW i \in DOMAIN s, NEW j \in DOMAIN t
          PROVE  NotAfter(s[i], t[j])
      <3>1. i < Len(s) + j
        BY <1>1
      <3> QED BY <1>2, <1>3, <2>1, <3>1
    <2> QED BY <2>2, <2>3, <2>4, InOrderIs DEF Precedes
  <1>6. ASSUME InOrder(s), InOrder(t), Precedes(s, t)
        PROVE  InOrder(s \o t)
    <2>1. ASSUME NEW i \in DOMAIN (s \o t), NEW j \in DOMAIN (s \o t), i < j
          PROVE  NotAfter((s \o t)[i], (s \o t)[j])
      <3>1. CASE j \in DOMAIN s
        <4>1. i \in DOMAIN s
          BY <1>1, <2>1, <3>1
        <4> QED BY <1>2, <1>6, <2>1, <3>1, <4>1, InOrderIs
      <3>2. CASE j \notin DOMAIN s /\ i \in DOMAIN s
        BY <1>2, <1>4, <1>6, <3>2 DEF Precedes
      <3>3. CASE j \notin DOMAIN s /\ i \notin DOMAIN s
        <4>1. /\ i - Len(s) \in DOMAIN t /\ (s \o t)[i] = t[i - Len(s)]
              /\ j - Len(s) \in DOMAIN t /\ (s \o t)[j] = t[j - Len(s)]
          BY <1>4, <3>3
        <4>2. i - Len(s) < j - Len(s)
          BY <1>1, <2>1
        <4> QED BY <1>6, <4>1, <4>2, InOrderIs
      <3> QED BY <3>1, <3>2, <3>3
    <2> QED BY <2>1, InOrderIs
  <1> QED BY <1>5, <1>6

(* What is true of the elements of two sequences is true of the elements   *)
(* of the two together, ...                                                *)
LEMMA ConcatElements ==
  ASSUME NEW s \in Seq(Nat), NEW t \in Seq(Nat), NEW u
  PROVE  /\ \A x : In(x, s \o t) <=> In(x, s) \/ In(x, t)
         /\ Within(s \o t, u) <=> Within(s, u) /\ Within(t, u)
         /\ Precedes(s \o t, u) <=> Precedes(s, u) /\ Precedes(t, u)
         /\ Precedes(u, s \o t) <=> Precedes(u, s) /\ Precedes(u, t)
  <1>1. /\ Len(s) \in Nat /\ Len(t) \in Nat
        /\ DOMAIN s = 1 .. Len(s) /\ DOMAIN t = 1 .. Len(t)
        /\ DOMAIN (s \o t) = 1 .. (Len(s) + Len(t))
    OBVIOUS
  <1>2. \A i \in DOMAIN s : i \in DOMAIN (s \o t) /\ (s \o t)[i] = s[i]
    OBVIOUS
  <1>3. \A i \in DOMAIN t : /\ Len(s) + i \in DOMAIN (s \o t)
                            /\ (s \o t)[Len(s) + i] = t[i]
    OBVIOUS
  <1>4. \A i \in DOMAIN (s \o t) :
          \/ i \in DOMAIN s /\ (s \o t)[i] = s[i]
          \/ i - Len(s) \in DOMAIN t /\ (s \o t)[i] = t[i - Len(s)]
    BY <1>1
  <1> DEFINE c == s \o t
  <1> HIDE DEF c
  <1>5. \A x : In(x, s \o t) <=> In(x, s) \/ In(x, t)
    BY <1>2, <1>3, <1>4 DEF In
  <1>6. /\ Within(s \o t, u) <=> Within(s, u) /\ Within(t, u)
        /\ Precedes(s \o t, u) <=> Precedes(s, u) /\ Precedes(t, u)
        /\ Precedes(u, s \o t) <=> Precedes(u, s) /\ Precedes(u, t)
    <2>1. /\ \A x : Within(x, u) <=>
                      \A y : In(y, x) => y = 0 \/ In(y, u)
          /\ \A x : Precedes(x, u) <=>
                      \A y, z : In(y, x) /\ In(z, u) => NotAfter(y, z)
          /\ \A x : Precedes(u, x) <=>
                      \A y, z : In(y, u) /\ In(z, x) => NotAfter(y, z)
      BY DEF Within, Precedes, In
    <2> QED BY <1>5, <2>1
  <1> QED BY <1>5, <1>6

(* ... one of which is in the first or in the second, ...                  *)
LEMMA InConcat ==
  ASSUME NEW s \in Seq(Nat), NEW t \in Seq(Nat), NEW x
  PROVE  In(x, s \o t) <=> In(x, s) \/ In(x, t)
  BY ConcatElements

(* ... all of which are in another when they are in it by themselves, ...  *)
LEMMA WithinConcat ==
  ASSUME NEW s \in Seq(Nat), NEW t \in Seq(Nat), NEW u
  PROVE  Within(s \o t, u) <=> Within(s, u) /\ Within(t, u)
  BY ConcatElements

(* ... precede another when both precede it, ...                           *)
LEMMA ConcatPrecedes ==
  ASSUME NEW s \in Seq(Nat), NEW t \in Seq(Nat), NEW u
  PROVE  Precedes(s \o t, u) <=> Precedes(s, u) /\ Precedes(t, u)
  BY ConcatElements

(* ... and follow another when both follow it.                             *)
LEMMA PrecedesConcat ==
  ASSUME NEW s \in Seq(Nat), NEW t \in Seq(Nat), NEW u
  PROVE  Precedes(u, s \o t) <=> Precedes(u, s) /\ Precedes(u, t)
  BY ConcatElements

(* Who keeps what was read, and what: r are the results, m the remaining   *)
(* arguments.                                                              *)
Keepers == ({"option"} \X Options) \cup ({"app"} \X Apps)
Keep(r, m) ==
  [h \in Keepers |-> IF h[1] = "option" THEN r[h[2]] ELSE Ids(m[h[2]])]

(* a, to be read, and k, kept, are in order, and share no word.            *)
Tidy(a, k) ==
  /\ a \in Seq(Nat) /\ k \in [Keepers -> Seq(Nat)]
  /\ InOrder(a)
  /\ \A h \in Keepers : InOrder(k[h]) /\ Precedes(k[h], a)
  /\ \A g, h \in Keepers :
       g # h => \A x \in Words : ~(In(x, k[g]) /\ In(x, k[h]))

(* b and l come of them: h keeps some of its own and then some of a.       *)
Gains(a, k, b, l, h, old, gain) ==
  /\ b \in Seq(Nat) /\ InOrder(b) /\ Within(b, a)
  /\ l \in [Keepers -> Seq(Nat)] /\ h \in Keepers
  /\ \A g \in Keepers : g # h => l[g] = k[g] \/ l[g] = <<>>
  /\ old \in Seq(Nat) /\ gain \in Seq(Nat) /\ l[h] = old \o gain
  /\ InOrder(old) /\ Within(old, k[h])
  /\ InOrder(gain) /\ Within(gain, a) /\ Precedes(gain, b)

(* An empty sequence is in order with any other.                           *)
LEMMA EmptyIs ==
  ASSUME NEW t
  PROVE  /\ InOrder(<<>>) /\ Within(<<>>, t) /\ \A x : ~In(x, <<>>)
         /\ Precedes(<<>>, t) /\ Precedes(t, <<>>)
  BY DEF InOrder, Within, In, Precedes

(* What a keeper gains of what is read leaves it all in order.             *)
LEMMA GainsTidily ==
  ASSUME IsLine(line), NEW a, NEW k, Tidy(a, k),
         NEW b, NEW l, NEW h, NEW old, NEW gain,
         Gains(a, k, b, l, h, old, gain)
  PROVE  Tidy(b, l)
  <1>1. Within(a, a)
    BY DEF Within
  <1>2. Precedes(old, gain) /\ Precedes(old, b)
    BY PrecedesWithin DEF Gains, Tidy
  <1>3. InOrder(l[h]) /\ Precedes(l[h], b)
    BY <1>2, ConcatInOrder, ConcatElements DEF Gains
  <1>4. ASSUME NEW g \in Keepers, g # h
        PROVE  InOrder(l[g]) /\ Precedes(l[g], b)
    <2>1. Within(k[g], k[g])
      BY DEF Within
    <2>2. Precedes(k[g], b)
      BY <2>1, PrecedesWithin DEF Gains, Tidy
    <2> QED BY <1>4, <2>2, EmptyIs DEF Gains, Tidy
  <1>5. ASSUME NEW g \in Keepers, g # h, NEW x \in Words,
               In(x, l[g]), In(x, l[h])
        PROVE  FALSE
    <2>1. In(x, k[g])
      BY <1>5, EmptyIs DEF Gains
    <2>2. In(x, old) \/ In(x, gain)
      BY <1>5, ConcatElements DEF Gains
    <2>3. x # 0
      BY NotAfterIs
    <2>4. CASE In(x, old)
      <3>1. In(x, k[h])
        <4>1. Within(old, k[h])
          BY DEF Gains
        <4> QED BY <2>3, <2>4, <4>1 DEF Within, In
      <3> QED BY <1>5, <2>1, <3>1 DEF Gains, Tidy
    <2>5. CASE In(x, gain)
      <3>1. In(x, a)
        <4>1. Within(gain, a)
          BY DEF Gains
        <4> QED BY <2>3, <2>5, <4>1 DEF Within, In
      <3>2. NotAfter(x, x)
        BY <2>1, <3>1 DEF Tidy, Precedes, In
      <3> QED BY <3>2, NotAfterIs
    <2> QED BY <2>2, <2>4, <2>5
  <1>6. ASSUME NEW g \in Keepers, NEW j \in Keepers, g # j, NEW x \in Words,
               In(x, l[g]), In(x, l[j])
        PROVE  FALSE
    <2>1. CASE g = h
      BY <1>5, <1>6, <2>1
    <2>2. CASE j = h
      BY <1>5, <1>6, <2>2
    <2>3. CASE g # h /\ j # h
      BY <1>6, <2>3, EmptyIs DEF Gains, Tidy
    <2> QED BY <2>1, <2>2, <2>3
  <1>7. b \in Seq(Nat) /\ InOrder(b) /\ l \in [Keepers -> Seq(Nat)]
    BY DEF Gains
  <1> QED BY <1>3, <1>4, <1>6, <1>7 DEF Tidy

(* So does what is dropped, or forgotten.                                  *)
LEMMA ShrinksTidily ==
  ASSUME Given, NEW a, NEW k, Tidy(a, k),
         NEW b \in Seq(Nat), InOrder(b), Within(b, a),
         NEW l \in [Keepers -> Seq(Nat)],
         \A g \in Keepers : l[g] = k[g] \/ l[g] = <<>>
  PROVE  Tidy(b, l)
  <1> DEFINE h == <<"app", Main>>
  <1>1. h \in Keepers
    BY TreeIs DEF Given, Keepers
  <1> HIDE DEF h
  <1>2. l[h] \in Seq(Nat) /\ <<>> \in Seq(Nat) /\ l[h] = l[h] \o <<>>
    BY <1>1
  <1>3. InOrder(l[h]) /\ Within(l[h], k[h])
    <2>1. Within(k[h], k[h])
      BY DEF Within
    <2> QED BY <1>1, <2>1, EmptyIs DEF Tidy
  <1>4. Gains(a, k, b, l, h, l[h], <<>>)
    BY <1>1, <1>2, <1>3, EmptyIs DEF Gains
  <1> QED BY <1>4, GainsTidily DEF Given

(* The places of tokens: of two sequences, of one token, of the first and  *)
(* the others.                                                             *)
LEMMA IdsOf ==
  ASSUME NEW s \in Seq(Tokens), NEW t \in Seq(Tokens)
  PROVE  /\ Ids(s) \in Seq(Nat) /\ Ids(s \o t) = Ids(s) \o Ids(t)
         /\ \A x : Ids(<<x>>) = <<x.id>>
         /\ Ids(<<>>) = <<>>
         /\ s # <<>> => /\ Head(s) \in Tokens /\ Tail(s) \in Seq(Tokens)
                        /\ s = <<Head(s)>> \o Tail(s)
                        /\ Ids(s) = <<Head(s).id>> \o Ids(Tail(s))
  <1>1. ASSUME NEW r \in Seq(Tokens)
        PROVE  /\ Ids(r) \in Seq(Nat) /\ Len(Ids(r)) = Len(r)
               /\ \A i \in 1 .. Len(r) : Ids(r)[i] = r[i].id
    <2>1. DOMAIN r = 1 .. Len(r) /\ Len(r) \in Nat
      OBVIOUS
    <2>2. \A x \in Tokens : x.id \in Nat
      BY DEF Tokens
    <2>4. \A i \in 1 .. Len(r) : r[i].id \in Nat
      BY <2>2
    <2>3. Ids(r) = [i \in 1 .. Len(r) |-> r[i].id]
      BY <2>1 DEF Ids
    <2> QED BY <2>1, <2>3, <2>4
  <1>2. ASSUME NEW q \in Seq(Tokens), NEW r \in Seq(Tokens)
        PROVE  Ids(q \o r) = Ids(q) \o Ids(r)
    <2> DEFINE e == Ids(q)
               f == Ids(r)
               d == Ids(q \o r)
    <2>1. q \o r \in Seq(Tokens) /\ Len(q \o r) = Len(q) + Len(r)
      OBVIOUS
    <2>2. /\ d \in Seq(Nat) /\ Len(d) = Len(q) + Len(r)
          /\ \A i \in 1 .. (Len(q) + Len(r)) : d[i] = (q \o r)[i].id
      BY <1>1, <2>1
    <2>3. /\ e \in Seq(Nat) /\ Len(e) = Len(q)
          /\ f \in Seq(Nat) /\ Len(f) = Len(r)
          /\ \A i \in 1 .. Len(q) : e[i] = q[i].id
          /\ \A i \in 1 .. Len(r) : f[i] = r[i].id
      BY <1>1
    <2> HIDE DEF e, f, d
    <2>7. e \in Seq(Nat) /\ f \in Seq(Nat)
      BY <2>3
    <2>8. e \o f \in Seq(Nat) /\ Len(e \o f) = Len(e) + Len(f)
      BY <2>7, ConcatProperties
    <2>4. e \o f \in Seq(Nat) /\ Len(e \o f) = Len(q) + Len(r)
      BY <2>3, <2>8
    <2>5. \A i \in 1 .. (Len(q) + Len(r)) : (e \o f)[i] = d[i]
      <3> SUFFICES ASSUME NEW i \in 1 .. (Len(q) + Len(r))
                   PROVE  (e \o f)[i] = d[i]
        OBVIOUS
      <3>4. d[i] = (q \o r)[i].id
        BY <2>2
      <3>5. Len(q) \in Nat /\ Len(r) \in Nat
        OBVIOUS
      <3>6. i \in Nat
        BY <3>5
      <3>1. /\ d[i] = (q \o r)[i].id
            /\ Len(q) \in Nat /\ Len(r) \in Nat /\ i \in Nat
        BY <3>4, <3>5, <3>6
      <3>2. CASE i <= Len(q)
        <4>1. i \in 1 .. Len(q)
          BY <3>1, <3>2
        <4>2. (q \o r)[i] = q[i] /\ (e \o f)[i] = e[i]
          BY <2>3, <4>1
        <4> QED BY <2>3, <3>1, <4>1, <4>2
      <3>3. CASE i > Len(q)
        <4>1. i - Len(q) \in 1 .. Len(r)
          BY <3>1, <3>3
        <4>2. (q \o r)[i] = r[i - Len(q)] /\ (e \o f)[i] = f[i - Len(q)]
          BY <2>3, <3>1, <3>3, <4>1
        <4> QED BY <2>3, <3>1, <4>1, <4>2
      <3>7. i <= Len(q) \/ i > Len(q)
        BY <3>1
      <3> QED BY <3>2, <3>3, <3>7
    <2>6. e \o f = d
      BY <2>2, <2>4, <2>5, SeqEqual
    <2> QED BY <2>6 DEF e, f, d
  <1>3. \A x : Ids(<<x>>) = <<x.id>>
    BY DEF Ids
  <1>4. Ids(<<>>) = <<>>
    BY DEF Ids
  <1>5. ASSUME s # <<>>
        PROVE  /\ Head(s) \in Tokens /\ Tail(s) \in Seq(Tokens)
               /\ s = <<Head(s)>> \o Tail(s)
               /\ Ids(s) = <<Head(s).id>> \o Ids(Tail(s))
    <2>1. Head(s) \in Tokens /\ Tail(s) \in Seq(Tokens)
      BY <1>5
    <2>2. s = <<Head(s)>> \o Tail(s)
      BY <1>5
    <2>3. Ids(<<Head(s)>> \o Tail(s)) = <<Head(s).id>> \o Ids(Tail(s))
      <3> DEFINE x == Head(s)
                 r == Tail(s)
      <3> HIDE DEF x, r
      <3>1. x \in Tokens /\ r \in Seq(Tokens)
        BY <2>1 DEF x, r
      <3>2. <<x>> \in Seq(Tokens)
        BY <3>1
      <3>3. Ids(<<x>> \o r) = <<x.id>> \o Ids(r)
        BY <1>2, <1>3, <3>1, <3>2
      <3> QED BY <3>3 DEF x, r
    <2> QED BY <2>1, <2>2, <2>3
  <1> QED BY <1>1, <1>2, <1>3, <1>4, <1>5

(* The next argument and the ones behind it.                               *)
LEMMA HeadFirst ==
  ASSUME NEW x \in Nat, NEW r \in Seq(Nat), NEW a, a = <<x>> \o r
  PROVE  /\ \A y : In(y, a) <=> y = x \/ In(y, r)
         /\ Within(r, a) /\ Within(<<x>>, a) /\ InOrder(<<x>>)
         /\ InOrder(a) <=> InOrder(r) /\ Precedes(<<x>>, r)
  <1>1. <<x>> \in Seq(Nat) /\ \A y : In(y, <<x>>) <=> y = x
    BY DEF In
  <1>2. InOrder(<<x>>)
    BY DEF InOrder
  <1>3. \A y : In(y, a) <=> y = x \/ In(y, r)
    BY <1>1, ConcatElements
  <1>4. Within(a, a)
    BY DEF Within
  <1> QED BY <1>1, <1>2, <1>3, <1>4, ConcatElements, ConcatInOrder

(* The numbers of an option, and who takes nothing.                        *)
LEMMA OptionNumbers ==
  ASSUME IsProgram(cli), NEW o \in Options
  PROVE  /\ O(o).tmin \in Nat /\ ItemsMin(o) \in Nat /\ Most(o) \in Nat
         /\ Most(o) = 0 => ItemsMin(o) = 0 /\ O(o).tmin * O(o).emin = 0
  <1>1. /\ O(o).tmin \in Nat /\ O(o).tmax \in Nat /\ O(o).tmin <= O(o).tmax
        /\ O(o).emin \in Nat /\ O(o).emax \in Nat /\ O(o).emin <= O(o).emax
    BY DEF IsProgram, IsOption, Options, O
  <1>2. \A x, y \in Nat : x * y \in Nat /\ (x * y = 0 <=> x = 0 \/ y = 0)
    OBVIOUS
  <1>3. /\ ItemsMin(o) = O(o).tmin * O(o).emin
        /\ \/ Most(o) = O(o).tmax * O(o).emin
           \/ Most(o) = O(o).tmax * O(o).emax
    BY DEF ItemsMin, ItemsMax, Most
  <1>4. ItemsMin(o) \in Nat /\ Most(o) \in Nat
    BY <1>1, <1>2, <1>3
  <1>5. ASSUME Most(o) = 0 PROVE ItemsMin(o) = 0
    <2>1. O(o).tmax = 0 \/ O(o).emin = 0 \/ O(o).emax = 0
      BY <1>1, <1>2, <1>3, <1>5
    <2>2. O(o).tmin = 0 \/ O(o).emin = 0
      BY <1>1, <2>1
    <2> QED BY <1>1, <1>2, <1>3, <2>2
  <1> QED BY <1>1, <1>3, <1>4, <1>5

(* How many tokens it must have: none if it takes none.                    *)
LEMMA ForcedIs ==
  ASSUME IsProgram(cli), NEW o \in Options, NEW len \in Nat, NEW inline \in Nat,
         NEW least, least = Min({O(o).tmin, ItemsMin(o)}),
         NEW forced,
         forced = Min({len, IF least > inline THEN least - inline ELSE 0})
  PROVE  forced \in 0 .. len /\ (Most(o) = 0 => forced = 0)
  <1>1. least \in Nat /\ least <= ItemsMin(o)
    <2>1. {O(o).tmin, ItemsMin(o)} \in SUBSET Nat
      BY OptionNumbers
    <2> QED BY <2>1, MinIs
  <1> DEFINE more == IF least > inline THEN least - inline ELSE 0
  <1>2. more \in Nat
    BY <1>1
  <1>3. forced \in {len, more} /\ forced <= len /\ forced <= more
    <2> HIDE DEF more
    <2>1. {len, more} \in SUBSET Nat
      BY <1>2
    <2>2. forced = Min({len, more})
      BY DEF more
    <2> QED BY <2>1, <2>2, MinIs
  <1>4. forced \in Nat
    <2> HIDE DEF more
    <2> QED BY <1>2, <1>3
  <1>5. Most(o) = 0 => more = 0
    BY <1>1, OptionNumbers
  <1> HIDE DEF more
  <1> QED BY <1>3, <1>4, <1>5

(* A sequence is its first n elements and the others.                      *)
LEMMA SplitAt ==
  ASSUME NEW S, NEW s \in Seq(S), NEW n \in 0 .. Len(s)
  PROVE  /\ SubSeq(s, 1, n) \in Seq(S) /\ SubSeq(s, n + 1, Len(s)) \in Seq(S)
         /\ s = SubSeq(s, 1, n) \o SubSeq(s, n + 1, Len(s))
         /\ n < Len(s) =>
              /\ SubSeq(s, n + 1, Len(s)) # <<>>
              /\ Head(SubSeq(s, n + 1, Len(s))) = s[n + 1]
              /\ Tail(SubSeq(s, n + 1, Len(s))) = SubSeq(s, n + 2, Len(s))
  <1> DEFINE p == SubSeq(s, 1, n)
             q == SubSeq(s, n + 1, Len(s))
  <1>1. /\ p \in Seq(S) /\ Len(p) = n /\ \A i \in 1 .. n : p[i] = s[i]
        /\ q \in Seq(S) /\ Len(q) = Len(s) - n
        /\ \A i \in 1 .. (Len(s) - n) : q[i] = s[n + i]
    OBVIOUS
  <1> HIDE DEF p, q
  <1>2. p \o q \in Seq(S) /\ Len(p \o q) = Len(s)
    <2>1. \A u, v \in Seq(S) :
            u \o v \in Seq(S) /\ Len(u \o v) = Len(u) + Len(v)
      OBVIOUS
    <2>2. p \in Seq(S) /\ q \in Seq(S) /\ Len(p) + Len(q) = Len(s)
      BY <1>1
    <2> QED BY <2>1, <2>2
  <1>3. ASSUME NEW i \in 1 .. Len(s)
        PROVE  (p \o q)[i] = s[i]
    <2>1. i \in 1 .. n \/ i - n \in 1 .. (Len(s) - n)
      OBVIOUS
    <2>2. CASE i \in 1 .. n
      BY <1>1, <2>2
    <2>3. CASE i - n \in 1 .. (Len(s) - n)
      <3>1. (p \o q)[i] = q[i - n]
        BY <1>1, <2>3
      <3>2. q[i - n] = s[n + (i - n)] /\ n + (i - n) = i
        BY <1>1, <2>3
      <3> QED BY <3>1, <3>2
    <2> QED BY <2>1, <2>2, <2>3
  <1>4. s = p \o q
    BY <1>2, <1>3, SeqEqual
  <1>5. ASSUME n < Len(s)
        PROVE  /\ q # <<>> /\ Head(q) = s[n + 1]
               /\ Tail(q) = SubSeq(s, n + 2, Len(s))
    <2> DEFINE r == SubSeq(s, n + 2, Len(s))
    <2>1. /\ r \in Seq(S) /\ Len(r) = Len(s) - n - 1
          /\ \A i \in 1 .. (Len(s) - n - 1) : r[i] = s[n + 1 + i]
      BY <1>5
    <2> HIDE DEF r
    <2>2. q # <<>> /\ Head(q) = s[n + 1]
      BY <1>1, <1>5
    <2>3. /\ Tail(q) \in Seq(S) /\ Len(Tail(q)) = Len(s) - n - 1
          /\ \A i \in 1 .. (Len(s) - n - 1) : Tail(q)[i] = q[i + 1]
      BY <1>1, <1>5, <2>2
    <2>4. \A i \in 1 .. (Len(s) - n - 1) : Tail(q)[i] = r[i]
      BY <1>1, <2>1, <2>3
    <2>5. Tail(q) = r
      BY <2>1, <2>3, <2>4, SeqEqual
    <2> QED BY <2>2, <2>5 DEF r
  <1> QED BY <1>1, <1>4, <1>5 DEF p, q

(* How an option takes of a token x and of what follows it, P and then Q:  *)
(* first, P and last; R, with again before it, is left.                    *)
Takes(x, P, Q, R, first, last, again) ==
  /\ x \in Nat /\ P \in Seq(Nat) /\ Q \in Seq(Nat) /\ R \in Seq(Nat)
  /\ first = <<x>> \/ first = <<>>
  /\ last = <<0>> \/ last = <<>>
  /\ again = <<>> \/ (again = <<x>> /\ NotAfter(x, x)
                      /\ \A y : In(y, P) => NotAfter(y, x))
  /\ R = Q \/ \E y \in Nat : Q = <<y>> \o R /\ y \notin Words
  /\ InOrder(<<x>> \o (P \o Q))

(* What is taken precedes what is left; both are in order, and only what   *)
(* is no word is lost.                                                     *)
LEMMA TakenInOrder ==
  ASSUME IsLine(line), NEW x, NEW P, NEW Q, NEW R, NEW first, NEW last,
         NEW again, Takes(x, P, Q, R, first, last, again)
  PROVE  /\ (first \o P) \o last \in Seq(Nat)
         /\ InOrder((first \o P) \o last)
         /\ Within((first \o P) \o last, <<x>> \o (P \o Q))
         /\ InOrder(again \o R) /\ Within(again \o R, <<x>> \o (P \o Q))
         /\ Precedes((first \o P) \o last, again \o R)
         /\ \A y \in Words : In(y, P \o Q) =>
              In(y, (first \o P) \o last) \/ In(y, again \o R)
  <1> USE DEF Takes
  <1> DEFINE all == <<x>> \o (P \o Q)
  <1>1. P \o Q \in Seq(Nat) /\ <<x>> \in Seq(Nat) /\ <<0>> \in Seq(Nat)
    BY ConcatProperties
  <1>2. /\ InOrder(P) /\ InOrder(Q) /\ Precedes(P, Q)
        /\ Precedes(<<x>>, P) /\ Precedes(<<x>>, Q) /\ InOrder(<<x>>)
    <2>1. InOrder(<<x>>) /\ InOrder(P \o Q) /\ Precedes(<<x>>, P \o Q)
      BY <1>1, ConcatInOrder
    <2> QED BY <2>1, ConcatInOrder, PrecedesConcat
  <1>3. \A s : /\ Within(s, s) /\ Precedes(<<0>>, s) /\ Precedes(s, <<0>>)
               /\ Within(<<0>>, s) /\ InOrder(<<0>>)
    BY NotAfterIs DEF Within, Precedes, InOrder
  <1>4. Within(P, all) /\ Within(Q, all) /\ Within(<<x>>, all)
    <2> DEFINE pq == P \o Q
               one == <<x>>
    <2>1. one \in Seq(Nat) /\ pq \in Seq(Nat) /\ Within(all, all) /\ all = one \o pq
      BY <1>1, <1>3
    <2> HIDE DEF pq, one, all
    <2>2. Within(one, all) /\ Within(pq, all)
      BY <2>1, WithinConcat
    <2>3. Within(P, all) /\ Within(Q, all)
      BY <2>2, WithinConcat DEF pq
    <2> QED BY <2>2, <2>3 DEF one
  <1> HIDE DEF all
  <1>5. /\ InOrder(R) /\ Within(R, Q)
        /\ \A y \in Words : In(y, Q) => In(y, R)
    <2>1. CASE R = Q
      BY <1>2, <1>3, <2>1
    <2>2. CASE R # Q
      <3>1. PICK y \in Nat : Q = <<y>> \o R /\ y \notin Words
        BY <2>2
      <3> QED BY <1>2, <3>1, HeadFirst
    <2> QED BY <2>1, <2>2
  <1>6. Within(R, all)
    BY <1>4, <1>5 DEF Within
  <1>7. Precedes(P, R) /\ Precedes(<<x>>, R)
    BY <1>2, <1>3, <1>5, PrecedesWithin
  <1>8. /\ first \in Seq(Nat) /\ InOrder(first) /\ Within(first, all)
        /\ Precedes(first, P) /\ Precedes(first, R)
    <2>1. CASE first = <<x>>
      BY <1>1, <1>2, <1>4, <1>7, <2>1
    <2>2. CASE first = <<>>
      BY <2>2, EmptyIs
    <2> QED BY <2>1, <2>2
  <1>9. /\ last \in Seq(Nat) /\ InOrder(last) /\ Within(last, all)
        /\ \A s : Precedes(last, s) /\ Precedes(s, last)
    <2>1. CASE last = <<0>>
      BY <1>1, <1>3, <2>1
    <2>2. CASE last = <<>>
      BY <2>2, EmptyIs
    <2> QED BY <2>1, <2>2
  <1>10. /\ again \in Seq(Nat) /\ InOrder(again) /\ Within(again, all)
         /\ Precedes(again, R) /\ Precedes(P, again) /\ Precedes(first, again)
    <2>1. CASE again = <<>>
      BY <2>1, EmptyIs
    <2>2. CASE again = <<x>> /\ again # <<>>
      <3>1. Precedes(P, <<x>>) /\ Precedes(<<x>>, <<x>>)
        BY <2>2 DEF Precedes, In
      <3> QED BY <1>1, <1>2, <1>4, <1>7, <2>2, <3>1, EmptyIs
    <2> QED BY <2>1, <2>2
  <1> DEFINE front == first \o P
  <1>11. front \in Seq(Nat)
    BY <1>8, ConcatProperties
  <1>12. InOrder(front) /\ Within(front, all)
    BY <1>2, <1>4, <1>8, ConcatInOrder, WithinConcat
  <1>13. Precedes(front, R) /\ Precedes(front, again)
    BY <1>7, <1>8, <1>10, ConcatPrecedes
  <1>14. \A y : In(y, P) => In(y, front)
    BY <1>8, InConcat
  <1> HIDE DEF front
  <1> DEFINE ids == front \o last
             rest == again \o R
  <1>15. ids \in Seq(Nat)
    BY <1>9, <1>11, ConcatProperties
  <1>16. InOrder(ids) /\ Within(ids, all)
    BY <1>9, <1>11, <1>12, ConcatInOrder, WithinConcat
  <1>17. Precedes(ids, R) /\ Precedes(ids, again)
    BY <1>9, <1>11, <1>13, ConcatPrecedes
  <1>18. \A y : In(y, P) => In(y, ids)
    BY <1>9, <1>11, <1>14, InConcat
  <1> HIDE DEF ids
  <1>19. InOrder(rest) /\ Within(rest, all) /\ Precedes(ids, rest)
    BY <1>5, <1>6, <1>10, <1>17, ConcatInOrder, WithinConcat, PrecedesConcat
  <1>20. \A y : In(y, R) => In(y, rest)
    BY <1>10, InConcat
  <1> HIDE DEF rest
  <1>21. \A y \in Words : In(y, P \o Q) => In(y, ids) \/ In(y, rest)
    BY <1>5, <1>18, <1>20, InConcat
  <1> QED BY <1>15, <1>16, <1>19, <1>21 DEF ids, front, rest, all

(* What an option that is named by a token, numbered x, takes of the tokens *)
(* that follow, left, and leaves of them: all words, and in order.         *)
Eats(x, left) ==
  /\ x \notin Words /\ left \in Seq(Tokens) /\ InOrder(<<x>> \o Ids(left))
  /\ \A i \in DOMAIN left : left[i].k = "mark" => left[i].id \notin Words

(* e.ids is what it takes, e.left what it leaves.                          *)
Ate(x, left, e) ==
  /\ e.ids \in Seq(Nat) /\ InOrder(e.ids)
  /\ Within(e.ids, <<x>> \o Ids(left))
  /\ e.left \in Seq(Tokens) /\ InOrder(Ids(e.left))
  /\ Within(Ids(e.left), <<x>> \o Ids(left))
  /\ Precedes(e.ids, Ids(e.left))
  /\ \A y \in Words : In(y, Ids(left)) => In(y, e.ids) \/ In(y, Ids(e.left))
  /\ \A i \in DOMAIN e.left :
       e.left[i].id = x \/ \E j \in DOMAIN left : e.left[i] = left[j]

(* An option takes so, whatever its bounds and whatever follows it.        *)
LEMMA EatenIs ==
  ASSUME Given, NEW a, NEW o \in Options, NEW t \in Tokens,
         NEW left, Eats(t.id, left)
  PROVE  Ate(t.id, left, Eaten(a, o, t, left))
  <1> USE DEF Eats
  <1> DEFINE e == Eaten(a, o, t, left)
  <1> DEFINE least == Min({O(o).tmin, ItemsMin(o)})
             inline == IF Most(o) > 0 /\ (t.v \/ t.rest # <<>>) THEN 1 ELSE 0
             forced == Min({Len(left),
                            IF least > inline THEN least - inline ELSE 0})
             wants == Most(o) > inline + forced \/ O(o).extra
             had == Len(Before(o)) + forced + IF Most(o) = 0 THEN 1 ELSE inline
             Free(i) == /\ inline + i - 1 < Most(o) \/ O(o).extra
                        /\ Recognize(a, left[i], FALSE) = "none"
                        /\ RequiredWhen(a, o, had) < Len(left) - i + 1
                        /\ A(a).validateOptional => Accepts(o, left[i])
             T == {n \in forced..Len(left) : \A i \in (forced + 1)..n : Free(i)}
             taken == IF ~wants THEN forced ELSE Max(T)
             marked == wants /\ taken < Len(left) /\ left[taken + 1].k = "mark"
             bare == Most(o) = 0 \/ inline = 1 \/ (least = 0 /\ taken = 0)
             partial == least > 0 /\ (inline + taken) % O(o).tmax # 0
             again == IF Most(o) = 0 /\ t.rest # <<>>
                      THEN <<[t EXCEPT !.n = <<Head(t.rest)>>, !.rest = Tail(@)]>>
                      ELSE <<>>
             first == IF bare THEN <<t.id>> ELSE <<>>
             last == IF partial THEN <<0>> ELSE <<>>
             skip == IF marked THEN 1 ELSE 0
             middle == [i \in 1..taken |-> left[i].id]
             rest == SubSeq(left, taken + 1 + skip, Len(left))
  <1>1. e.ids = first \o middle \o last /\ e.left = again \o rest
    BY DEF Eaten
  <1> HIDE DEF e
  <1>2. Len(left) \in Nat /\ inline \in Nat
    OBVIOUS
  <1>3. taken \in 0 .. Len(left) /\ (Most(o) = 0 /\ ~O(o).extra => taken = 0)
    <2> DEFINE len == Len(left)
               few == forced
    <2>1. few \in 0 .. len /\ (Most(o) = 0 => few = 0)
      <3> DEFINE low == least
      <3>1. low = Min({O(o).tmin, ItemsMin(o)})
        OBVIOUS
      <3>2. few = Min({len, IF low > inline THEN low - inline ELSE 0})
        OBVIOUS
      <3> HIDE DEF low, few, inline
      <3>3. IsProgram(cli)
        BY DEF Given
      <3> QED BY <1>2, <3>1, <3>2, <3>3, ForcedIs
    <2>2. T \in SUBSET (few .. len) /\ few \in T
      <3> HIDE DEF Free, forced
      <3>1. \A i \in (few + 1) .. few : FALSE
        BY <2>1
      <3>2. few \in few .. len
        BY <1>2, <2>1
      <3> QED BY <3>1, <3>2
    <2>3. taken = few \/ taken = Max(T)
      OBVIOUS
    <2>4. Most(o) = 0 /\ ~O(o).extra /\ few = 0 => taken = few
      <3> HIDE DEF T
      <3> QED BY <1>2 DEF few
    <2> HIDE DEF T, taken, few
    <2>5. T \in SUBSET (0 .. len)
      BY <1>2, <2>1, <2>2
    <2>6. Max(T) \in T
      BY <1>2, <2>2, <2>5, MaxIs
    <2>7. taken \in 0 .. len
      BY <2>1, <2>3, <2>5, <2>6
    <2> QED BY <2>1, <2>4, <2>7
  <1> DEFINE p == SubSeq(left, 1, taken)
             q == SubSeq(left, taken + 1, Len(left))
             x == t.id
  <1>4. /\ p \in Seq(Tokens) /\ q \in Seq(Tokens) /\ left = p \o q
        /\ taken < Len(left) =>
             /\ q # <<>> /\ Head(q) = left[taken + 1]
             /\ Tail(q) = SubSeq(left, taken + 2, Len(left))
    <2> HIDE DEF taken
    <2> QED BY <1>3, SplitAt
  <1>5. middle = Ids(p)
    <2> HIDE DEF taken
    <2>1. DOMAIN p = 1 .. taken /\ \A i \in 1 .. taken : p[i] = left[i]
      BY <1>3
    <2> HIDE DEF p
    <2> QED BY <2>1 DEF Ids
  <1>6. \/ rest = q
        \/ q # <<>> /\ rest = Tail(q) /\ Head(q).k = "mark"
    <2>1. CASE marked
      <3>1. skip = 1 /\ taken < Len(left) /\ left[taken + 1].k = "mark"
        BY <2>1
      <3> HIDE DEF taken, marked, q, skip
      <3>2. taken + 1 + skip = taken + 2
        BY <1>3, <3>1
      <3> QED BY <1>4, <3>1, <3>2 DEF q
    <2>2. CASE ~marked
      <3>1. skip = 0
        BY <2>2
      <3> HIDE DEF taken, marked, skip
      <3>2. taken + 1 + skip = taken + 1
        BY <1>3, <3>1
      <3> QED BY <3>2
    <2> QED BY <2>1, <2>2
  <1>7. first = <<x>> \/ first = <<>>
    <2> HIDE DEF bare
    <2> QED OBVIOUS
  <1>8. last = <<0>> \/ last = <<>>
    <2> HIDE DEF partial
    <2> QED OBVIOUS
  <1>9. x \in Nat /\ again \in Seq(Tokens) /\ (again = <<>> \/ Ids(again) = <<x>>)
        /\ \A i \in DOMAIN again : again[i].id = x
    <2>1. CASE Most(o) = 0 /\ t.rest # <<>>
      <3> DEFINE u == [t EXCEPT !.n = <<Head(t.rest)>>, !.rest = Tail(@)]
      <3>1. t.rest \in Seq(Names) /\ Head(t.rest) \in Names
            /\ Tail(t.rest) \in Seq(Names)
        BY <2>1 DEF Tokens
      <3>2. <<Head(t.rest)>> \in Seq(Names) \ {<<>>}
        BY <3>1
      <3>3. u \in Tokens /\ u.id = x
        BY <3>1, <3>2 DEF Tokens
      <3>4. again = <<u>>
        BY <2>1
      <3> HIDE DEF u, again
      <3>5. Ids(<<u>>) = <<u.id>> /\ <<u>> \in Seq(Tokens)
        BY <3>3 DEF Ids
      <3> QED BY <3>3, <3>4, <3>5 DEF Tokens
    <2>2. CASE ~(Most(o) = 0 /\ t.rest # <<>>)
      BY <2>2 DEF Tokens
    <2> QED BY <2>1, <2>2
  <1>10. again # <<>> => NotAfter(x, x) /\ \A y : In(y, Ids(p)) => NotAfter(y, x)
    <2>1. IsLine(line)
      BY DEF Given
    <2>2. NotAfter(x, x)
      BY <2>1, NotAfterIs
    <2>3. ASSUME again # <<>>
          PROVE  \A y : In(y, Ids(p)) => NotAfter(y, x)
      <3>1. Most(o) = 0
        BY <2>3
      <3>2. CASE O(o).extra
        <4>1. Flagged
          BY <3>1, <3>2 DEF Flagged
        <4>2. ~Ordered(x)
          BY <4>1 DEF Ordered
        <4> QED BY <4>2 DEF NotAfter
      <3>3. CASE ~O(o).extra
        <4>1. taken = 0
          BY <1>3, <3>1, <3>3
        <4>2. p = <<>>
          <5> HIDE DEF taken
          <5> QED BY <4>1
        <4>3. DOMAIN Ids(p) = {}
          <5> HIDE DEF p
          <5> QED BY <4>2 DEF Ids
        <4> HIDE DEF p
        <4> QED BY <4>3 DEF In
      <3> QED BY <3>2, <3>3
    <2> QED BY <2>2, <2>3
  <1> HIDE DEF p, q, x, again, rest, first, middle, last, taken, marked, skip
  <1> DEFINE P == Ids(p)
             Q == Ids(q)
             R == Ids(rest)
             G == Ids(again)
  <1>11. /\ P \in Seq(Nat) /\ Q \in Seq(Nat) /\ G \in Seq(Nat)
         /\ Ids(left) = P \o Q
    BY <1>4, <1>9, IdsOf
  <1>12. \A i \in DOMAIN q : \E j \in DOMAIN left : q[i] = left[j]
    <2> SUFFICES ASSUME NEW i \in DOMAIN q
                 PROVE  \E j \in DOMAIN left : q[i] = left[j]
      OBVIOUS
    <2>1. /\ Len(p) + i \in DOMAIN (p \o q)
          /\ (p \o q)[Len(p) + i] = q[i]
      BY <1>4
    <2> QED BY <1>4, <2>1
  <1>13. /\ rest \in Seq(Tokens) /\ R \in Seq(Nat)
         /\ \A i \in DOMAIN rest : \E j \in DOMAIN left : rest[i] = left[j]
    <2>1. CASE rest = q
      BY <1>4, <1>12, <2>1, IdsOf
    <2>2. CASE q # <<>> /\ rest = Tail(q)
      <3>1. /\ rest \in Seq(Tokens)
            /\ \A i \in DOMAIN rest : i + 1 \in DOMAIN q /\ rest[i] = q[i + 1]
        BY <1>4, <2>2
      <3> QED BY <1>12, <3>1, IdsOf
    <2> QED BY <1>6, <2>1, <2>2
  <1>14. \/ R = Q
         \/ \E y \in Nat : Q = <<y>> \o R /\ y \notin Words
    <2>1. CASE rest = q
      BY <2>1
    <2>2. CASE q # <<>> /\ rest = Tail(q) /\ Head(q).k = "mark"
      <3>1. Q = <<Head(q).id>> \o R /\ Head(q) \in Tokens
        BY <1>4, <2>2, IdsOf
      <3>2. Head(q) = q[1] /\ 1 \in DOMAIN q
        BY <1>4, <2>2
      <3>3. Head(q).id \notin Words
        BY <1>12, <2>2, <3>2
      <3>4. Head(q).id \in Nat
        BY <3>1 DEF Tokens
      <3> QED BY <3>1, <3>3, <3>4
    <2> QED BY <1>6, <2>1, <2>2
  <1>15. e.ids = (first \o P) \o last
    BY <1>1, <1>5
  <1>16. e.left \in Seq(Tokens) /\ Ids(e.left) = G \o R
    <2>1. e.left = again \o rest
      BY <1>1
    <2>2. again \o rest \in Seq(Tokens)
      BY <1>9, <1>13, ConcatProperties
    <2>3. Ids(again \o rest) = Ids(again) \o Ids(rest)
      BY <1>9, <1>13, IdsOf
    <2> QED BY <2>1, <2>2, <2>3
  <1>17. /\ InOrder(<<x>> \o (P \o Q)) /\ IsLine(line)
         /\ G = <<>> \/ (G = <<x>> /\ NotAfter(x, x)
                         /\ \A y : In(y, P) => NotAfter(y, x))
    <2>1. InOrder(<<x>> \o (P \o Q)) /\ IsLine(line)
      BY <1>11 DEF x, Given
    <2>2. again = <<>> => G = <<>>
      BY DEF Ids
    <2> QED BY <1>9, <1>10, <2>1, <2>2
  <1>18. \A i \in DOMAIN e.left :
           \/ e.left[i].id = x
           \/ \E j \in DOMAIN left : e.left[i] = left[j]
    <2> SUFFICES ASSUME NEW i \in DOMAIN e.left
                 PROVE  \/ e.left[i].id = x
                        \/ \E j \in DOMAIN left : e.left[i] = left[j]
      OBVIOUS
    <2>1. e.left = again \o rest
      BY <1>1
    <2>2. \/ i \in DOMAIN again /\ e.left[i] = again[i]
          \/ i - Len(again) \in DOMAIN rest /\ e.left[i] = rest[i - Len(again)]
      <3> DEFINE s == e.left
      <3>1. s = again \o rest /\ i \in DOMAIN s
        BY <2>1
      <3> HIDE DEF s
      <3>2. \/ i \in DOMAIN again /\ s[i] = again[i]
            \/ i - Len(again) \in DOMAIN rest /\ s[i] = rest[i - Len(again)]
        BY <1>9, <1>13, <3>1, SMTT(20)
      <3> QED BY <3>2 DEF s
    <2> QED BY <1>9, <1>13, <2>2
  <1> HIDE DEF P, Q, R, G
  <1> DEFINE ids == (first \o P) \o last
             remains == G \o R
             all == <<x>> \o (P \o Q)
  <1>19. /\ ids \in Seq(Nat) /\ InOrder(ids) /\ Within(ids, all)
         /\ InOrder(remains) /\ Within(remains, all) /\ Precedes(ids, remains)
         /\ \A y \in Words : In(y, P \o Q) => In(y, ids) \/ In(y, remains)
    <2>1. IsLine(line)
      BY <1>17
    <2>2. G = <<>> \/ (G = <<x>> /\ NotAfter(x, x)
                      /\ \A y : In(y, P) => NotAfter(y, x))
      BY <1>17
    <2>3. InOrder(<<x>> \o (P \o Q))
      BY <1>17
    <2>4. x \in Nat /\ R \in Seq(Nat)
      BY <1>9, <1>13
    <2>5. Takes(x, P, Q, R, first, last, G)
      BY <1>7, <1>8, <1>11, <1>14, <2>2, <2>3, <2>4 DEF Takes
    <2>6. /\ ids \in Seq(Nat) /\ InOrder(ids) /\ Within(ids, all)
          /\ InOrder(remains) /\ Within(remains, all)
          /\ Precedes(ids, remains)
          /\ \A y \in Words : In(y, P \o Q) => In(y, ids) \/ In(y, remains)
      BY <2>1, <2>5, TakenInOrder
    <2> QED BY <2>6
  <1> HIDE DEF ids, remains, all
  <1>20. e.ids = ids /\ Ids(e.left) = remains /\ <<x>> \o Ids(left) = all
    BY <1>11, <1>15, <1>16 DEF ids, remains, all
  <1>21. Ate(t.id, left, e)
    BY <1>11, <1>16, <1>18, <1>19, <1>20 DEF x, Ate
  <1> QED BY <1>21 DEF e
----------------------------------------------------------------------------
(* The invariant: what the tokens and the keepers have in common, at any   *)
(* moment of a parse.                                                      *)

(* A word that is still to be read is one of the line, or what follows the *)
(* names of it that were read.                                             *)
Seen(a) ==
  \A i \in DOMAIN a : a[i].id \in Words =>
    a[i].k = "word" /\ Last(a[i].n) = Last(line[a[i].id].n)

(* The subcommand that is named has begun: p is parsed.                    *)
Begun(x, p) == \E s \in Apps : p[s] > 0 /\ Last(line[x].n) \in A(s).names

(* No word is lost: it is still to be read, kept, or it named an app that  *)
(* has begun.                                                              *)
AllThere(a, k, p) ==
  \A x \in Words : In(x, a) \/ (\E h \in Keepers : In(x, k[h])) \/ Begun(x, p)

(* What a moment of a parse keeps: a is to be read, r are the results, m   *)
(* the remaining arguments, p says who was parsed.                         *)
Kept(a, r, m, p) ==
  /\ a \in Seq(Tokens) /\ r \in [Options -> Seq(Nat)]
  /\ m \in [Apps -> Seq(Tokens)] /\ p \in [Apps -> Nat]
  /\ Seen(a) /\ Tidy(Ids(a), Keep(r, m))
  /\ ~Forgetful => AllThere(Ids(a), Keep(r, m), p)

(* What there is to be done after the line: f are the calls of _parse, t   *)
(* the steps, i the items of the configuration file.                       *)
StepNames ==
  {"start", "help", "config", "items", "fail", "env", "callbacks",
   "requirements", "complete", "section", "extras", "final", "return", "dot",
   "end"}
Steps ==
  [do : StepNames, on : Apps, com : Apps \cup {None}, groups : SUBSET Apps]
Frames == [app : Apps, posOnly : BOOLEAN, done : BOOLEAN, return : Steps]

Running(f, t, i) == f \in Seq(Frames) /\ t \in Seq(Steps) /\ i \in Seq(Items)

(* The inductive invariant.                                                *)
Inv == /\ Given /\ Kept(args, results, missing, parsed)
       /\ Running(frames, todo, items)

(* The new values of a step are looked at in the same tree.                *)
LEMMA SameTree ==
  ASSUME Given, UNCHANGED tree, Kept(args', results', missing', parsed'),
         Running(frames', todo', items')
  PROVE  Inv'
  <1>1. cli' = cli /\ line' = line
    BY DEF tree
  <1>2. Given'
    BY <1>1 DEF Given
  <1>3. Running(frames, todo, items)'
    BY <1>1 DEF Running, Frames, Steps, Apps, StepNames, Items
  <1>4. Kept(args, results, missing, parsed)'
    <2>1. /\ args' \in Seq(Tokens) /\ (results \in [Options -> Seq(Nat)])'
          /\ (missing \in [Apps -> Seq(Tokens)])'
          /\ (parsed \in [Apps -> Nat])'
      BY <1>1 DEF Kept, Apps, Options
    <2>2. Seen(args)'
      BY <1>1 DEF Kept, Seen, Words
    <2>3. Tidy(Ids(args), Keep(results, missing))'
      <3>1. Flagged' = Flagged /\ Words' = Words /\ (DOMAIN line)' = DOMAIN line
        BY <1>1 DEF Flagged, Most, ItemsMax, Options, O, Words
      <3>2. Keepers' = Keepers
        BY <1>1 DEF Keepers, Apps, Options
      <3>3. Tidy(Ids(args'), Keep(results', missing'))
        BY DEF Kept
      <3> DEFINE k == Keep(results', missing')
                 a == Ids(args')
      <3>a. /\ \A g \in Keepers : k[g] = (Keep(results, missing)[g])'
            /\ a = Ids(args)'
        BY <3>2 DEF Keep, Ids
      <3>4. InOrder(Ids(args))'
        BY <3>1, <3>3 DEF Tidy, Ids, InOrder, Ordered
      <3>5. /\ (Ids(args) \in Seq(Nat))'
            /\ (Keep(results, missing) \in [Keepers -> Seq(Nat)])'
        BY <3>2, <3>3 DEF Tidy, Ids, Keep
      <3> HIDE DEF k, a
      <3>b. /\ \A g \in Keepers : InOrder(k[g]) /\ Precedes(k[g], a)
            /\ \A g, h \in Keepers :
                 g # h => \A x \in Words : ~(In(x, k[g]) /\ In(x, k[h]))
        BY <3>3 DEF Tidy, k, a
      <3>6. (\A h \in Keepers : InOrder(Keep(results, missing)[h]))'
        BY <3>1, <3>2, <3>a, <3>b DEF InOrder, Ordered
      <3>7. (\A h \in Keepers :
               Precedes(Keep(results, missing)[h], Ids(args)))'
        BY <3>1, <3>2, <3>a, <3>b DEF Precedes, NotAfter, Ordered
      <3>8. (\A g, h \in Keepers :
               g # h => \A x \in Words :
                          ~(/\ In(x, Keep(results, missing)[g])
                            /\ In(x, Keep(results, missing)[h])))'
        BY <3>1, <3>2, <3>a, <3>b DEF In
      <3> QED BY <3>4, <3>5, <3>6, <3>7, <3>8 DEF Tidy
    <2>4. Forgetful' = Forgetful
      BY <1>1 DEF Forgetful, Apps, Options, A, O
    <2>5. AllThere(Ids(args), Keep(results, missing), parsed)'
          <=> AllThere(Ids(args'), Keep(results', missing'), parsed')
      BY <1>1 DEF AllThere, Begun, Keep, Keepers, Ids, In, Words, Apps, Options,
         A
    <2> QED BY <2>1, <2>2, <2>3, <2>4, <2>5 DEF Kept
  <1> QED BY <1>2, <1>3, <1>4 DEF Inv

(* What is read splits into what is kept, gain, and what is left, b.       *)
Splits(a, gain, b) ==
  /\ gain \in Seq(Nat) /\ InOrder(gain) /\ Within(gain, a)
  /\ b \in Seq(Nat) /\ InOrder(b) /\ Within(b, a) /\ Precedes(gain, b)
  /\ \A x \in Words : In(x, a) => In(x, gain) \/ In(x, b)

(* Keepers are options and apps.                                           *)
LEMMA KeepIs ==
  ASSUME Given, NEW r \in [Options -> Seq(Nat)],
         NEW m \in [Apps -> Seq(Tokens)]
  PROVE  /\ Keep(r, m) \in [Keepers -> Seq(Nat)]
         /\ \A o \in Options : /\ <<"option", o>> \in Keepers
                               /\ Keep(r, m)[<<"option", o>>] = r[o]
         /\ \A a \in Apps : /\ <<"app", a>> \in Keepers
                            /\ Keep(r, m)[<<"app", a>>] = Ids(m[a])
         /\ \A h \in Keepers : \/ \E o \in Options : h = <<"option", o>>
                               \/ \E a \in Apps : h = <<"app", a>>
  <1>1. \A o \in Options : <<"option", o>> \in Keepers
    BY DEF Keepers
  <1>2. \A a \in Apps : <<"app", a>> \in Keepers
    BY DEF Keepers
  <1>3. \A h \in Keepers : \/ \E o \in Options : h = <<"option", o>>
                           \/ \E a \in Apps : h = <<"app", a>>
    BY DEF Keepers
  <1>4. \A o \in Options : Keep(r, m)[<<"option", o>>] = r[o]
    BY <1>1 DEF Keep
  <1>5. \A a \in Apps : Keep(r, m)[<<"app", a>>] = Ids(m[a])
    BY <1>2 DEF Keep
  <1>6. \A a \in Apps : Ids(m[a]) \in Seq(Nat)
    BY IdsOf
  <1>7. \A h \in Keepers : Keep(r, m)[h] \in Seq(Nat)
    BY <1>3, <1>4, <1>5, <1>6
  <1>8. Keep(r, m) = [h \in Keepers |-> Keep(r, m)[h]]
    BY DEF Keep
  <1> QED BY <1>1, <1>2, <1>3, <1>4, <1>5, <1>7, <1>8

(* What an option keeps are its results.                                   *)
LEMMA OptionKeeps ==
  ASSUME NEW r, NEW m, NEW o \in Options
  PROVE  Keep(r, m)[<<"option", o>>] = r[o]
  <1>1. <<"option", o>> \in Keepers
    BY DEF Keepers
  <1> QED BY <1>1 DEF Keep

(* What an app keeps are its remaining arguments.                          *)
LEMMA AppKeeps ==
  ASSUME NEW r, NEW m, NEW x \in Apps
  PROVE  Keep(r, m)[<<"app", x>>] = Ids(m[x])
  <1>1. <<"app", x>> \in Keepers
    BY DEF Keepers
  <1> QED BY <1>1 DEF Keep

(* One keeper, h, gains some of what is read behind its own.               *)
Passes(a, k, b, l, h, old, gain) ==
  /\ h \in Keepers /\ old \in Seq(Nat) /\ Splits(a, gain, b)
  /\ \A g \in Keepers : g # h => l[g] = k[g]
  /\ l[h] = old \o gain /\ InOrder(old) /\ Within(old, k[h])
  /\ ~Forgetful => \A x \in Words : In(x, k[h]) => In(x, old)

(* That keeps the invariant.                                               *)
LEMMA GainsKept ==
  ASSUME Given, NEW a, NEW r, NEW m, NEW p, Kept(a, r, m, p),
         NEW b \in Seq(Tokens), Seen(b),
         NEW s \in [Options -> Seq(Nat)], NEW n \in [Apps -> Seq(Tokens)],
         NEW h, NEW old, NEW gain,
         Passes(Ids(a), Keep(r, m), Ids(b), Keep(s, n), h, old, gain)
  PROVE  Kept(b, s, n, p)
  <1> DEFINE k == Keep(r, m)
             l == Keep(s, n)
             i == Ids(a)
             j == Ids(b)
  <1>1. l \in [Keepers -> Seq(Nat)]
    BY KeepIs
  <1>2. Tidy(i, k) /\ (~Forgetful => AllThere(i, k, p)) /\ p \in [Apps -> Nat]
    BY DEF Kept
  <1>3. Passes(i, k, j, l, h, old, gain)
    OBVIOUS
  <1>4. IsLine(line)
    BY DEF Given
  <1> HIDE DEF k, l, i, j
  <1>5. Gains(i, k, j, l, h, old, gain)
    BY <1>1, <1>3 DEF Gains, Passes, Splits
  <1>6. Tidy(j, l)
    BY <1>2, <1>4, <1>5, GainsTidily
  <1>7. ASSUME ~Forgetful, NEW x \in Words
        PROVE  In(x, j) \/ (\E g \in Keepers : In(x, l[g])) \/ Begun(x, p)
    <2>1. In(x, l[h]) <=> In(x, old) \/ In(x, gain)
      BY <1>3, InConcat DEF Passes, Splits
    <2>2. CASE In(x, i)
      BY <1>3, <2>1, <2>2 DEF Passes, Splits
    <2>3. CASE \E g \in Keepers : In(x, k[g])
      BY <1>3, <1>7, <2>1, <2>3 DEF Passes
    <2>4. CASE Begun(x, p)
      BY <2>4
    <2> QED BY <1>2, <1>7, <2>2, <2>3, <2>4 DEF AllThere
  <1>8. ~Forgetful => AllThere(j, l, p)
    BY <1>7 DEF AllThere
  <1> QED BY <1>2, <1>6, <1>8 DEF Kept, l, j

(* An app keeps tokens as remaining arguments.                             *)
LEMMA MissingKept ==
  ASSUME Given, NEW a, NEW r, NEW m, NEW p, Kept(a, r, m, p),
         NEW b \in Seq(Tokens), Seen(b), NEW x \in Apps,
         NEW tokens \in Seq(Tokens), Splits(Ids(a), Ids(tokens), Ids(b))
  PROVE  Kept(b, r, [m EXCEPT ![x] = @ \o tokens], p)
  <1> DEFINE h == <<"app", x>>
             n == [m EXCEPT ![x] = @ \o tokens]
  <1>1. r \in [Options -> Seq(Nat)] /\ m \in [Apps -> Seq(Tokens)]
    BY DEF Kept
  <1>2. /\ n \in [Apps -> Seq(Tokens)] /\ n[x] = m[x] \o tokens
        /\ m[x] \in Seq(Tokens) /\ \A y \in Apps : y # x => n[y] = m[y]
    <2>1. m[x] \in Seq(Tokens) /\ m[x] \o tokens \in Seq(Tokens)
      BY <1>1, ConcatProperties
    <2> QED BY <1>1, <2>1
  <1> HIDE DEF n
  <1>3. /\ Ids(m[x]) \in Seq(Nat) /\ Ids(n[x]) = Ids(m[x]) \o Ids(tokens)
    <2>1. Ids(m[x] \o tokens) = Ids(m[x]) \o Ids(tokens)
      BY <1>2, IdsOf
    <2> QED BY <1>2, <2>1, IdsOf
  <1>4. /\ h \in Keepers /\ Keep(r, m)[h] = Ids(m[x])
        /\ Keep(r, n)[h] = Ids(n[x])
    BY <1>1, <1>2, KeepIs
  <1>5. \A g \in Keepers : g # h => Keep(r, n)[g] = Keep(r, m)[g]
    <2> SUFFICES ASSUME NEW g \in Keepers, g # h
                 PROVE  Keep(r, n)[g] = Keep(r, m)[g]
      OBVIOUS
    <2>1. CASE \E o \in Options : g = <<"option", o>>
      <3>1. PICK o \in Options : g = <<"option", o>>
        BY <2>1
      <3>2. Keep(r, n)[g] = r[o] /\ Keep(r, m)[g] = r[o]
        BY <1>1, <1>2, <3>1, KeepIs
      <3> QED BY <3>2
    <2>2. CASE \E y \in Apps : g = <<"app", y>>
      <3>1. PICK y \in Apps : g = <<"app", y>>
        BY <2>2
      <3>2. y # x
        BY <3>1
      <3>3. Keep(r, n)[g] = Ids(n[y]) /\ Keep(r, m)[g] = Ids(m[y])
        BY <1>1, <1>2, <3>1, KeepIs
      <3> QED BY <1>2, <3>2, <3>3
    <2> QED BY <1>1, <2>1, <2>2, KeepIs
  <1>6. InOrder(Ids(m[x]))
    BY <1>4 DEF Kept, Tidy
  <1>7. Within(Ids(m[x]), Ids(m[x]))
    BY DEF Within
  <1> HIDE DEF h
  <1>8. Passes(Ids(a), Keep(r, m), Ids(b), Keep(r, n), h, Ids(m[x]),
               Ids(tokens))
    BY <1>3, <1>4, <1>5, <1>6, <1>7 DEF Passes
  <1>9. Kept(b, r, n, p)
    BY <1>1, <1>2, <1>8, GainsKept
  <1> QED BY <1>9 DEF n

(* An option gets results of what is read, after what it had, or instead,  *)
(* when it forgets its values.                                             *)
LEMMA ResultsKept ==
  ASSUME Given, NEW a, NEW r, NEW m, NEW p, Kept(a, r, m, p),
         NEW b \in Seq(Tokens), Seen(b), NEW o \in Options,
         NEW old, \/ old = r[o] \/ old = Append(r[o], 0)
                  \/ old = <<>> /\ O(o).trigger,
         NEW gain, Splits(Ids(a), gain, Ids(b))
  PROVE  Kept(b, [r EXCEPT ![o] = old \o gain], m, p)
  <1> DEFINE h == <<"option", o>>
             s == [r EXCEPT ![o] = old \o gain]
  <1>1. r \in [Options -> Seq(Nat)] /\ m \in [Apps -> Seq(Tokens)]
    BY DEF Kept
  <1>2. h \in Keepers /\ Keep(r, m)[h] = r[o] /\ r[o] \in Seq(Nat)
    BY <1>1, KeepIs
  <1>3. InOrder(r[o]) /\ Within(r[o], r[o])
    BY <1>2 DEF Kept, Tidy, Within
  <1>4. /\ old \in Seq(Nat) /\ InOrder(old) /\ Within(old, r[o])
        /\ ~Forgetful => \A y \in Words : In(y, r[o]) => In(y, old)
    <2>1. CASE old = r[o]
      BY <1>2, <1>3, <2>1
    <2>2. CASE old = Append(r[o], 0)
      <3> DEFINE t == r[o]
                 z == <<0>>
      <3>0. Append(t, 0) = t \o z
        BY <1>2, AppendIsConcat
      <3>1. /\ t \in Seq(Nat) /\ z \in Seq(Nat) /\ old = t \o z
            /\ InOrder(t) /\ Within(t, t)
        BY <1>2, <1>3, <2>2, <3>0
      <3>2. InOrder(z) /\ Within(z, t) /\ Precedes(t, z)
        BY NotAfterIs DEF InOrder, Within, Precedes, Given
      <3> HIDE DEF t, z
      <3>3. InOrder(old)
        BY <3>1, <3>2, ConcatInOrder
      <3>4. Within(old, t)
        BY <3>1, <3>2, WithinConcat
      <3>5. \A y : In(y, t) => In(y, old)
        BY <3>1, InConcat
      <3>6. old \in Seq(Nat)
        BY <3>1, ConcatProperties
      <3> QED BY <3>3, <3>4, <3>5, <3>6 DEF t
    <2>3. CASE old = <<>> /\ O(o).trigger
      <3>1. Forgetful
        BY <2>3 DEF Forgetful
      <3> QED BY <2>3, <3>1, EmptyIs
    <2> QED BY <2>1, <2>2, <2>3
  <1>5. /\ gain \in Seq(Nat) /\ old \o gain \in Seq(Nat)
        /\ s \in [Options -> Seq(Nat)] /\ s[o] = old \o gain
        /\ \A u \in Options : u # o => s[u] = r[u]
    <2>1. gain \in Seq(Nat) /\ old \o gain \in Seq(Nat)
      BY <1>4, ConcatProperties DEF Splits
    <2> QED BY <1>1, <2>1
  <1> HIDE DEF s
  <1>6. Keep(s, m)[h] = old \o gain
    BY <1>1, <1>5, KeepIs
  <1>7. \A g \in Keepers : g # h => Keep(s, m)[g] = Keep(r, m)[g]
    <2> SUFFICES ASSUME NEW g \in Keepers, g # h
                 PROVE  Keep(s, m)[g] = Keep(r, m)[g]
      OBVIOUS
    <2>1. CASE \E y \in Apps : g = <<"app", y>>
      <3>1. PICK y \in Apps : g = <<"app", y>>
        BY <2>1
      <3>2. Keep(s, m)[g] = Ids(m[y]) /\ Keep(r, m)[g] = Ids(m[y])
        BY <3>1, AppKeeps
      <3> QED BY <3>2
    <2>2. CASE \E u \in Options : g = <<"option", u>>
      <3>1. PICK u \in Options : g = <<"option", u>>
        BY <2>2
      <3>2. u # o
        BY <3>1
      <3>3. Keep(s, m)[g] = s[u] /\ Keep(r, m)[g] = r[u]
        BY <3>1, OptionKeeps
      <3> QED BY <1>5, <3>2, <3>3
    <2> QED BY <1>1, <2>1, <2>2, KeepIs
  <1> HIDE DEF h
  <1>8. Passes(Ids(a), Keep(r, m), Ids(b), Keep(s, m), h, old, gain)
    BY <1>2, <1>4, <1>6, <1>7 DEF Passes
  <1>9. Kept(b, s, m, p)
    BY <1>1, <1>5, <1>8, GainsKept
  <1> QED BY <1>9 DEF s

(* r, m and p become s, n and q: some is forgotten, none is gained, apps   *)
(* begin.                                                                  *)
Forgets(r, m, p, s, n, q) ==
  /\ s \in [Options -> Seq(Nat)] /\ n \in [Apps -> Seq(Tokens)]
  /\ q \in [Apps -> Nat]
  /\ \A o \in Options : s[o] = r[o] \/ s[o] = <<>>
  /\ \A x \in Apps : n[x] = m[x] \/ n[x] = <<>>
  /\ ~Forgetful => s = r /\ n = m /\ \A x \in Apps : q[x] >= p[x]

(* A word that is read and that nobody keeps has named an app that begins. *)
LEMMA BegunKept ==
  ASSUME Given, NEW a, NEW r, NEW m, NEW p, Kept(a, r, m, p),
         NEW b \in Seq(Tokens), Seen(b), InOrder(Ids(b)),
         Within(Ids(b), Ids(a)),
         NEW s, NEW n, NEW q, Forgets(r, m, p, s, n, q),
         \A x \in Words : In(x, Ids(a)) => In(x, Ids(b)) \/ Begun(x, q)
  PROVE  Kept(b, s, n, q)
  <1>1. /\ r \in [Options -> Seq(Nat)] /\ m \in [Apps -> Seq(Tokens)]
        /\ s \in [Options -> Seq(Nat)] /\ n \in [Apps -> Seq(Tokens)]
        /\ p \in [Apps -> Nat] /\ q \in [Apps -> Nat]
        /\ Tidy(Ids(a), Keep(r, m))
    BY DEF Kept, Forgets
  <1>2. Keep(s, n) \in [Keepers -> Seq(Nat)] /\ Ids(b) \in Seq(Nat)
    BY <1>1, KeepIs, IdsOf
  <1>3. \A g \in Keepers : Keep(s, n)[g] = Keep(r, m)[g] \/ Keep(s, n)[g] = <<>>
    <2> SUFFICES ASSUME NEW g \in Keepers
                 PROVE  Keep(s, n)[g] = Keep(r, m)[g] \/ Keep(s, n)[g] = <<>>
      OBVIOUS
    <2>1. CASE \E o \in Options : g = <<"option", o>>
      <3>1. PICK o \in Options : g = <<"option", o>>
        BY <2>1
      <3>2. Keep(s, n)[g] = s[o] /\ Keep(r, m)[g] = r[o]
        BY <1>1, <3>1, KeepIs
      <3> QED BY <3>2 DEF Forgets
    <2>2. CASE \E y \in Apps : g = <<"app", y>>
      <3>1. PICK y \in Apps : g = <<"app", y>>
        BY <2>2
      <3>2. Keep(s, n)[g] = Ids(n[y]) /\ Keep(r, m)[g] = Ids(m[y])
        BY <1>1, <3>1, KeepIs
      <3>3. Ids(<<>>) = <<>>
        BY DEF Ids
      <3> QED BY <3>2, <3>3 DEF Forgets
    <2> QED BY <1>1, <2>1, <2>2, KeepIs
  <1>4. Tidy(Ids(b), Keep(s, n))
    <2> DEFINE k == Keep(r, m)
               l == Keep(s, n)
               i == Ids(a)
               j == Ids(b)
    <2>1. Tidy(i, k)
      BY <1>1
    <2>2. l \in [Keepers -> Seq(Nat)] /\ j \in Seq(Nat)
      BY <1>2
    <2>3. \A g \in Keepers : l[g] = k[g] \/ l[g] = <<>>
      BY <1>3
    <2>4. InOrder(j) /\ Within(j, i)
      OBVIOUS
    <2> HIDE DEF k, l, i, j
    <2>5. Tidy(j, l)
      BY <2>1, <2>2, <2>3, <2>4, ShrinksTidily
    <2> QED BY <2>5 DEF l, j
  <1>5. ASSUME ~Forgetful
        PROVE  AllThere(Ids(b), Keep(s, n), q)
    <2>1. /\ Keep(s, n) = Keep(r, m) /\ AllThere(Ids(a), Keep(r, m), p)
          /\ \A x \in Apps : q[x] >= p[x]
      BY <1>5 DEF Forgets, Kept
    <2>2. \A x : Begun(x, p) => Begun(x, q)
      BY <1>1, <2>1 DEF Begun
    <2> QED BY <2>1, <2>2 DEF AllThere
  <1> QED BY <1>1, <1>4, <1>5 DEF Kept

(* Values that are not taken from the line go to options that have none.   *)
LEMMA OthersKept ==
  ASSUME Given, NEW a, NEW r, NEW m, NEW p, Kept(a, r, m, p),
         NEW s \in [Options -> Seq(Nat)],
         \A o \in Options :
           \/ s[o] = r[o]
           \/ r[o] = <<>> /\ \A i \in DOMAIN s[o] : s[o][i] = 0
  PROVE  Kept(a, s, m, p)
  <1> DEFINE k == Keep(r, m)
             l == Keep(s, m)
             i == Ids(a)
             Blank(t) == \A j \in DOMAIN t : t[j] = 0
  <1>1. /\ r \in [Options -> Seq(Nat)] /\ m \in [Apps -> Seq(Tokens)]
        /\ Tidy(i, k)
    BY DEF Kept
  <1>2. l \in [Keepers -> Seq(Nat)]
    BY <1>1, KeepIs
  <1>3. \A g \in Keepers : l[g] = k[g] \/ (k[g] = <<>> /\ Blank(l[g]))
    <2> SUFFICES ASSUME NEW g \in Keepers
                 PROVE  l[g] = k[g] \/ (k[g] = <<>> /\ Blank(l[g]))
      OBVIOUS
    <2>1. CASE \E o \in Options : g = <<"option", o>>
      <3>1. PICK o \in Options : g = <<"option", o>>
        BY <2>1
      <3>2. l[g] = s[o] /\ k[g] = r[o]
        BY <1>1, <3>1, KeepIs
      <3> HIDE DEF l, k
      <3> QED BY <3>2
    <2>2. CASE \E y \in Apps : g = <<"app", y>>
      <3>1. PICK y \in Apps : g = <<"app", y>>
        BY <2>2
      <3>2. l[g] = Ids(m[y]) /\ k[g] = Ids(m[y])
        BY <3>1, AppKeeps
      <3> QED BY <3>2
    <2> QED BY <1>1, <2>1, <2>2, KeepIs
  <1>4. \A x : NotAfter(0, x) /\ NotAfter(x, 0)
    BY NotAfterIs DEF Given
  <1>5. \A t, u : Blank(t) => InOrder(t) /\ Precedes(t, u)
    BY <1>4, InOrderIs DEF Precedes
  <1>6. \A t : \A x \in Words : Blank(t) => ~In(x, t)
    BY NotAfterIs DEF In, Given
  <1> HIDE DEF k, l, i, Blank
  <1>7. \A g \in Keepers : InOrder(l[g]) /\ Precedes(l[g], i)
    BY <1>1, <1>3, <1>5 DEF Tidy
  <1>8. \A g \in Keepers : \A x \in Words : In(x, l[g]) <=> In(x, k[g])
    BY <1>3, <1>6, EmptyIs
  <1>9. Tidy(i, l)
    BY <1>1, <1>2, <1>7, <1>8 DEF Tidy
  <1>10. ~Forgetful => AllThere(i, l, p)
    BY <1>8 DEF AllThere, Kept, i, k
  <1> QED BY <1>9, <1>10 DEF Kept, i, l

(* An app that begins forgets, if it does, itself and what is below it.    *)
LEMMA BeginAppForgets ==
  ASSUME Inv, NEW a \in Apps, NEW picked, BeginApp(a, picked)
  PROVE  /\ Forgets(results, missing, parsed, results', missing', parsed')
         /\ parsed'[a] > 0
  <1> DEFINE wiped == Wiped(a)
             gone == UNION {ToSet(A(x).opts) : x \in wiped}
  <1>1. /\ results \in [Options -> Seq(Nat)]
        /\ missing \in [Apps -> Seq(Tokens)] /\ parsed \in [Apps -> Nat]
    BY DEF Inv, Kept
  <1>2. /\ parsed' = [x \in Apps |->
                        IF x \in wiped \ {a} THEN 0
                        ELSE parsed[x] + IF x \in GroupsIn(a) THEN 1 ELSE 0]
        /\ missing' = [x \in Apps |-> IF x \in wiped \ {a} THEN <<>>
                                      ELSE missing[x]]
        /\ results' = [o \in Options |-> IF o \in gone THEN <<>>
                                         ELSE results[o]]
    BY DEF BeginApp
  <1>3. ~Forgetful => wiped = {} /\ gone = {}
    <2> SUFFICES ASSUME ~Forgetful PROVE wiped = {} /\ gone = {}
      OBVIOUS
    <2>1. ~A(a).immediate
      BY DEF Forgetful
    <2>2. wiped = {}
      BY <2>1 DEF Wiped
    <2> QED BY <2>2
  <1>4. a \in GroupsIn(a)
    BY DEF GroupsIn
  <1> HIDE DEF wiped, gone
  <1>5. /\ parsed' \in [Apps -> Nat] /\ parsed'[a] > 0
        /\ wiped = {} => \A x \in Apps : parsed'[x] >= parsed[x]
    BY <1>1, <1>2, <1>4
  <1>6. /\ missing' \in [Apps -> Seq(Tokens)]
        /\ \A x \in Apps : missing'[x] = missing[x] \/ missing'[x] = <<>>
        /\ wiped = {} => missing' = missing
    BY <1>1, <1>2
  <1>7. /\ results' \in [Options -> Seq(Nat)]
        /\ \A o \in Options : results'[o] = results[o] \/ results'[o] = <<>>
        /\ gone = {} => results' = results
    BY <1>1, <1>2
  <1> QED BY <1>3, <1>5, <1>6, <1>7 DEF Forgets

(* The token that is read and the ones behind it.                          *)
LEMMA HeadIs ==
  ASSUME Inv, args # <<>>
  PROVE  /\ Head(args) \in Tokens /\ Tail(args) \in Seq(Tokens)
         /\ Seen(Tail(args)) /\ args \in Seq(Tokens)
         /\ Ids(args) = <<Head(args).id>> \o Ids(Tail(args))
         /\ Ids(<<Head(args)>>) = <<Head(args).id>>
         /\ Head(args).id \in Words =>
              /\ Head(args).k = "word"
              /\ Last(Head(args).n) = Last(line[Head(args).id].n)
         /\ Splits(Ids(args), <<Head(args).id>>, Ids(Tail(args)))
         /\ \A x : In(x, Ids(args)) <=> x = Head(args).id \/ In(x, Ids(Tail(args)))
  <1> DEFINE t == Head(args)
             rest == Tail(args)
  <1>1. args \in Seq(Tokens) /\ Seen(args) /\ InOrder(Ids(args))
    BY DEF Inv, Kept, Tidy
  <1>2. /\ t \in Tokens /\ rest \in Seq(Tokens)
        /\ t = args[1] /\ 1 \in DOMAIN args
        /\ \A i \in DOMAIN rest : i + 1 \in DOMAIN args /\ rest[i] = args[i + 1]
    BY <1>1
  <1>3. Seen(rest)
    BY <1>1, <1>2 DEF Seen
  <1>4. t.id \in Words => t.k = "word" /\ Last(t.n) = Last(line[t.id].n)
    BY <1>1, <1>2 DEF Seen
  <1>5. Ids(args) = <<t.id>> \o Ids(rest) /\ Ids(rest) \in Seq(Nat)
    BY <1>1, <1>2, IdsOf
  <1>6. Ids(<<t>>) = <<t.id>> /\ t.id \in Nat
    BY <1>1, <1>2, IdsOf DEF Tokens
  <1> DEFINE i == Ids(args)
             j == Ids(rest)
             x == t.id
  <1>7. i = <<x>> \o j /\ x \in Nat /\ j \in Seq(Nat) /\ InOrder(i)
    BY <1>1, <1>5, <1>6
  <1> HIDE DEF t, rest, i, j, x
  <1>8. /\ \A y : In(y, i) <=> y = x \/ In(y, j)
        /\ Within(j, i) /\ Within(<<x>>, i) /\ InOrder(<<x>>)
        /\ InOrder(j) /\ Precedes(<<x>>, j) /\ <<x>> \in Seq(Nat)
    <2>1. \A y : In(y, i) <=> y = x \/ In(y, j)
      BY <1>7, HeadFirst
    <2>2. Within(j, i) /\ Within(<<x>>, i) /\ InOrder(<<x>>)
      BY <1>7, HeadFirst
    <2>3. InOrder(j) /\ Precedes(<<x>>, j)
      BY <1>7, HeadFirst
    <2> QED BY <1>7, <2>1, <2>2, <2>3
  <1>9. Splits(i, <<x>>, j)
    <2>1. In(x, <<x>>)
      BY DEF In
    <2> QED BY <1>7, <1>8, <2>1 DEF Splits
  <1> QED BY <1>1, <1>2, <1>3, <1>4, <1>5, <1>6, <1>8, <1>9 DEF t, rest, i, j, x

(* The token that is read becomes a remaining argument.                    *)
LEMMA HeadMissing ==
  ASSUME Inv, args # <<>>, NEW x \in Apps
  PROVE  Kept(Tail(args), results,
              [missing EXCEPT ![MissingAt(x)] = @ \o <<Head(args)>>], parsed)
  <1>1. MissingAt(x) \in Apps
    BY MissingAtIs DEF Inv, Given
  <1>2. Given /\ Kept(args, results, missing, parsed)
    BY DEF Inv
  <1>3. <<Head(args)>> \in Seq(Tokens)
    BY HeadIs
  <1>4. Splits(Ids(args), Ids(<<Head(args)>>), Ids(Tail(args)))
    BY HeadIs
  <1> QED BY <1>1, <1>2, <1>3, <1>4, HeadIs, MissingKept

(* The token that is read begins an app, or is none of the words.          *)
LEMMA HeadRead ==
  ASSUME Inv, args # <<>>, NEW s, NEW n, NEW q,
         Forgets(results, missing, parsed, s, n, q),
         Head(args).id \in Words => Begun(Head(args).id, q)
  PROVE  Kept(Tail(args), s, n, q)
  <1>1. Given /\ Kept(args, results, missing, parsed)
    BY DEF Inv
  <1>2. /\ Tail(args) \in Seq(Tokens) /\ Seen(Tail(args))
        /\ InOrder(Ids(Tail(args))) /\ Within(Ids(Tail(args)), Ids(args))
    BY HeadIs DEF Splits
  <1>3. \A x \in Words :
          In(x, Ids(args)) => In(x, Ids(Tail(args))) \/ Begun(x, q)
    BY HeadIs
  <1> QED BY <1>1, <1>2, <1>3, BegunKept

(* The frames of a parse, with another one on top.                         *)
LEMMA FramesAre ==
  ASSUME Inv, frames # <<>>
  PROVE  /\ Top \in Frames /\ Here \in Apps /\ Settled \in Frames
         /\ [Top EXCEPT !.done = TRUE] \in Frames
         /\ \A b \in BOOLEAN :
              [Top EXCEPT !.posOnly = TRUE, !.done = b] \in Frames
         /\ \A f \in Frames : <<f>> \o Tail(frames) \in Seq(Frames)
         /\ \A f, g \in Frames : <<f, g>> \o Tail(frames) \in Seq(Frames)
         /\ Tail(frames) \in Seq(Frames)
         /\ todo \in Seq(Steps) /\ items \in Seq(Items)
  <1>1. /\ frames \in Seq(Frames) /\ todo \in Seq(Steps)
        /\ items \in Seq(Items)
    BY DEF Inv, Running
  <1>2. Top \in Frames /\ Tail(frames) \in Seq(Frames)
    BY <1>1 DEF Top
  <1>3. Here \in Apps
    BY <1>2 DEF Here, Frames
  <1>4. \A b, c \in BOOLEAN : /\ [Top EXCEPT !.posOnly = b] \in Frames
                              /\ [Top EXCEPT !.done = b] \in Frames
                              /\ [Top EXCEPT !.posOnly = b, !.done = c] \in Frames
    BY <1>2 DEF Frames
  <1>5. Settled \in Frames
    <2> DEFINE b == Top.posOnly \/ (Class = "none" /\ A(Here).atEnd)
    <2>1. b \in BOOLEAN /\ Settled = [Top EXCEPT !.posOnly = b]
      BY <1>2 DEF Settled, Frames
    <2> HIDE DEF b
    <2> QED BY <1>4, <2>1
  <1>6. ASSUME NEW f \in Frames, NEW g \in Frames
        PROVE  /\ <<f>> \o Tail(frames) \in Seq(Frames)
               /\ <<f, g>> \o Tail(frames) \in Seq(Frames)
    <2>1. <<f>> \in Seq(Frames) /\ <<f, g>> \in Seq(Frames)
      BY <1>6
    <2> QED BY <1>2, <2>1, ConcatProperties
  <1> QED BY <1>1, <1>2, <1>3, <1>4, <1>5, <1>6

----------------------------------------------------------------------------
(* The steps of _parse_single.                                             *)

(* "--" is no word: it is dropped, or kept as a remaining argument.        *)
LEMMA ParseMarkKeeps ==
  ASSUME Inv, ParseMark
  PROVE  Inv'
  <1>1. /\ args # <<>> /\ frames # <<>> /\ Head(args).k = "mark"
        /\ UNCHANGED tree
    BY DEF ParseMark, Reading, Class, Recognize
  <1> DEFINE stop == ~HasRemainingPositionals(Here) /\ Parent(Here) # None
             f == [Top EXCEPT !.posOnly = TRUE, !.done = stop]
  <1>2. /\ args' = Tail(args) /\ results' = results /\ parsed' = parsed
        /\ \/ missing' = missing
           \/ missing' = [missing EXCEPT ![MissingAt(Here)] =
                            @ \o <<Head(args)>>]
        /\ frames' = <<f>> \o Tail(frames) /\ todo' = todo /\ items' = items
    BY DEF ParseMark, MoveToMissing, later, counters, found
  <1>3. Kept(args', results', missing', parsed')
    <2>1. CASE missing' = missing
      <3>1. Forgets(results, missing, parsed, results', missing', parsed')
        BY <1>2, <2>1 DEF Inv, Kept, Forgets
      <3>2. Head(args).id \notin Words
        BY <1>1, HeadIs
      <3> QED BY <1>1, <1>2, <3>1, <3>2, HeadRead
    <2>2. CASE missing' = [missing EXCEPT ![MissingAt(Here)] =
                             @ \o <<Head(args)>>]
      BY <1>1, <1>2, <2>2, FramesAre, HeadMissing
    <2> QED BY <1>2, <2>1, <2>2
  <1>4. Running(frames', todo', items')
    <2>1. stop \in BOOLEAN
      OBVIOUS
    <2> HIDE DEF stop
    <2>2. f \in Frames
      BY <1>1, <2>1, FramesAre
    <2> HIDE DEF f
    <2> QED BY <1>1, <1>2, <2>2, FramesAre DEF Running
  <1> QED BY <1>1, <1>3, <1>4, SameTree DEF Inv

(* "++" is no word either.                                                 *)
LEMMA ParseTerminatorKeeps ==
  ASSUME Inv, ParseTerminator
  PROVE  Inv'
  <1>1. /\ args # <<>> /\ frames # <<>> /\ Head(args).k = "plus"
        /\ UNCHANGED tree
    <2>1. Class = "terminator" /\ args # <<>> /\ frames # <<>> /\ UNCHANGED tree
      BY DEF ParseTerminator, Reading
    <2>2. Recognize(Here, Head(args), TRUE) = "terminator"
      BY <2>1 DEF Class
    <2> QED BY <2>1, <2>2 DEF Recognize
  <1>2. /\ args' = Tail(args) /\ results' = results /\ parsed' = parsed
        /\ missing' = missing /\ todo' = todo /\ items' = items
        /\ frames' = <<[Top EXCEPT !.done = TRUE]>> \o Tail(frames)
    BY DEF ParseTerminator, later, counters, found
  <1>3. Kept(args', results', missing', parsed')
    <2>1. Forgets(results, missing, parsed, results', missing', parsed')
      BY <1>2 DEF Inv, Kept, Forgets
    <2>2. Head(args).id \notin Words
      BY <1>1, HeadIs
    <2> QED BY <1>1, <1>2, <2>1, <2>2, HeadRead
  <1>4. Running(frames', todo', items')
    BY <1>1, <1>2, FramesAre DEF Running
  <1> QED BY <1>1, <1>3, <1>4, SameTree DEF Inv

(* What an option had before is what it has, or nothing, if it forgets.    *)
LEMMA BeforeIs ==
  ASSUME NEW o
  PROVE  \/ Before(o) = results[o] \/ Before(o) = Append(results[o], 0)
         \/ Before(o) = <<>> /\ O(o).trigger
  <1>1. CASE O(o).trigger /\ o \in ran
    BY <1>1 DEF Before
  <1>2. CASE ~(O(o).trigger /\ o \in ran)
    BY <1>2 DEF Before
  <1> QED BY <1>1, <1>2

(* A positional gets the token.                                            *)
LEMMA ParsePositionalKeeps ==
  ASSUME Inv, ParsePositional
  PROVE  Inv'
  <1> DEFINE o == Positional.on
  <1>1. /\ args # <<>> /\ frames # <<>> /\ UNCHANGED tree
        /\ Positional.to = "option"
    BY DEF ParsePositional, Reading
  <1>2. /\ args' = Tail(args) /\ missing' = missing /\ parsed' = parsed
        /\ results' = [results EXCEPT ![o] = Before(o) \o <<Head(args).id>>]
        /\ todo' = todo /\ items' = items
        /\ frames' = <<Settled>> \o Tail(frames)
    BY DEF ParsePositional, AddResults, later
  <1>3. o \in Options
    BY <1>1, FramesAre, PositionalTargetIs DEF Positional, Inv, Given
  <1> HIDE DEF o
  <1>4. Kept(args', results', missing', parsed')
    <2>1. Given /\ Kept(args, results, missing, parsed)
      BY DEF Inv
    <2>2. /\ Tail(args) \in Seq(Tokens) /\ Seen(Tail(args))
          /\ Splits(Ids(args), <<Head(args).id>>, Ids(Tail(args)))
      BY <1>1, HeadIs
    <2>3. Kept(Tail(args),
               [results EXCEPT ![o] = Before(o) \o <<Head(args).id>>],
               missing, parsed)
      BY <1>3, <2>1, <2>2, BeforeIs, ResultsKept
    <2> QED BY <1>2, <2>3
  <1>5. Running(frames', todo', items')
    BY <1>1, <1>2, FramesAre DEF Running
  <1> QED BY <1>1, <1>4, <1>5, SameTree DEF Inv

(* A subcommand that is named begins.                                      *)
LEMMA NamedBegins ==
  ASSUME Inv, args # <<>>, NEW a \in Apps, Last(Head(args).n) \in A(a).names,
         NEW q, q[a] > 0, Head(args).id \in Words
  PROVE  Begun(Head(args).id, q)
  BY HeadIs DEF Begun

(* The subcommand that is repeated begins again.                           *)
LEMMA RepeatSubcommandKeeps ==
  ASSUME Inv, RepeatSubcommand
  PROVE  Inv'
  <1> DEFINE a == Positional.on
             return == [Do("return", a) EXCEPT !.groups = Positional.groups]
  <1>1. /\ args # <<>> /\ frames # <<>> /\ UNCHANGED tree
        /\ Positional.to = "repeat"
    BY DEF RepeatSubcommand, Reading
  <1>2. /\ args' = Tail(args) /\ BeginApp(a, chosen)
        /\ todo' = todo /\ items' = items
        /\ frames' = <<Frame(a, return), Settled>> \o Tail(frames)
    BY DEF RepeatSubcommand, CallParse, later
  <1>3. /\ a \in Apps /\ Last(Head(args).n) \in A(a).names
        /\ Positional.groups \in SUBSET Apps
    BY <1>1, FramesAre, PositionalTargetIs DEF Positional, Inv, Given
  <1>4. return \in Steps
    BY <1>3 DEF Do, Steps, StepNames
  <1> HIDE DEF a, return
  <1>5. Frame(a, return) \in Frames
    BY <1>3, <1>4 DEF Frame, Frames
  <1>6. /\ Forgets(results, missing, parsed, results', missing', parsed')
        /\ parsed'[a] > 0
    BY <1>2, <1>3, BeginAppForgets
  <1>7. Kept(args', results', missing', parsed')
    <2>1. Head(args).id \in Words => Begun(Head(args).id, parsed')
      BY <1>1, <1>3, <1>6, NamedBegins
    <2> QED BY <1>1, <1>2, <1>6, <2>1, HeadRead
  <1>8. Running(frames', todo', items')
    BY <1>1, <1>2, <1>5, FramesAre DEF Running
  <1> QED BY <1>1, <1>7, <1>8, SameTree DEF Inv

(* What nobody takes is a remaining argument, and after a prefix command   *)
(* all of it.                                                              *)
LEMMA KeepAsMissingKeeps ==
  ASSUME Inv, KeepAsMissing
  PROVE  Inv'
  <1> DEFINE a == Positional.at
             m(tokens) == [missing EXCEPT ![MissingAt(a)] = @ \o tokens]
  <1>1. args # <<>> /\ frames # <<>> /\ UNCHANGED tree
    BY DEF KeepAsMissing, Reading
  <1>2. /\ results' = results /\ parsed' = parsed
        /\ \/ A(a).prefix /\ args' = <<>> /\ missing' = m(args)
           \/ args' = Tail(args) /\ missing' = m(<<Head(args)>>)
        /\ todo' = todo /\ items' = items
        /\ frames' = <<Settled>> \o Tail(frames)
    BY DEF KeepAsMissing, MoveToMissing, later, counters, found
  <1>3. a \in Apps
    BY <1>1, FramesAre, PositionalTargetIs DEF Positional, Inv, Given
  <1>4. Kept(args', results', missing', parsed')
    <2>1. CASE args' = Tail(args) /\ missing' = m(<<Head(args)>>)
      BY <1>1, <1>2, <1>3, <2>1, HeadMissing
    <2>2. CASE args' = <<>> /\ missing' = m(args)
      <3>1. MissingAt(a) \in Apps
        BY <1>3, MissingAtIs DEF Inv, Given
      <3>2. /\ Given /\ Kept(args, results, missing, parsed)
            /\ args \in Seq(Tokens) /\ InOrder(Ids(args))
        BY DEF Inv, Kept, Tidy
      <3>3. /\ <<>> \in Seq(Tokens) /\ Seen(<<>>) /\ Ids(<<>>) = <<>>
            /\ Ids(args) \in Seq(Nat)
        <4>1. Seen(<<>>) /\ Ids(<<>>) = <<>>
          BY DEF Seen, Ids
        <4>2. <<>> \in Seq(Tokens)
          OBVIOUS
        <4>3. Ids(args) \in Seq(Nat)
          BY <3>2, IdsOf
        <4> QED BY <4>1, <4>2, <4>3
      <3>4. Within(Ids(args), Ids(args))
        BY DEF Within
      <3>5. Splits(Ids(args), Ids(args), Ids(<<>>))
        <4> DEFINE i == Ids(args)
        <4>1. i \in Seq(Nat) /\ InOrder(i) /\ Within(i, i)
          BY <3>2, <3>3, <3>4
        <4> HIDE DEF i
        <4>2. Splits(i, i, <<>>)
          BY <4>1, EmptyIs DEF Splits
        <4> QED BY <3>3, <4>2 DEF i
      <3>6. Kept(<<>>, results, m(args), parsed)
        BY <3>1, <3>2, <3>3, <3>5, MissingKept
      <3> QED BY <1>2, <2>2, <3>6
    <2> QED BY <1>2, <2>1, <2>2
  <1>5. Running(frames', todo', items')
    BY <1>1, <1>2, FramesAre DEF Running
  <1> QED BY <1>1, <1>4, <1>5, SameTree DEF Inv

(* Nothing happens to the tokens.                                          *)
LEMMA TokensStay ==
  ASSUME Inv, UNCHANGED <<tree, args, results, missing, parsed>>,
         Running(frames', todo', items')
  PROVE  Inv'
  <1>1. Kept(args', results', missing', parsed') /\ UNCHANGED tree
    BY DEF Inv
  <1> QED BY <1>1, SameTree DEF Inv

(* An app that begins takes no token.                                      *)
LEMMA BeginAppKeeps ==
  ASSUME Inv, NEW a \in Apps, NEW picked, BeginApp(a, picked)
  PROVE  Kept(args, results', missing', parsed')
  <1>1. Forgets(results, missing, parsed, results', missing', parsed')
    BY BeginAppForgets
  <1>2. /\ Given /\ Kept(args, results, missing, parsed)
        /\ args \in Seq(Tokens) /\ Seen(args) /\ InOrder(Ids(args))
    BY DEF Inv, Kept, Tidy
  <1>3. Within(Ids(args), Ids(args))
    BY DEF Within
  <1>4. \A x \in Words :
          In(x, Ids(args)) => In(x, Ids(args)) \/ Begun(x, parsed')
    OBVIOUS
  <1> QED BY <1>1, <1>2, <1>3, <1>4, BegunKept

(* A word that a strict program rejects is kept by nobody: the parse is    *)
(* over.                                                                   *)
LEMMA RejectPositionalKeeps ==
  ASSUME Inv, RejectPositional
  PROVE  Inv'
  <1>1. /\ UNCHANGED <<tree, args, results, missing, parsed>>
        /\ UNCHANGED <<frames, todo, items>>
    BY DEF RejectPositional, Throw, later, counters, found
  <1> QED BY <1>1, TokensStay DEF Inv

(* A word that is refused stays where it is, or the parse is over.         *)
LEMMA RefusePositionalKeeps ==
  ASSUME Inv, RefusePositional
  PROVE  Inv'
  <1>1. /\ UNCHANGED <<tree, args, results, missing, parsed, todo, items>>
        /\ frames # <<>>
        /\ \/ frames' = <<[Top EXCEPT !.done = TRUE]>> \o Tail(frames)
           \/ frames' = frames
    BY DEF RefusePositional, Reading, later, counters, found
  <1>2. Running(frames', todo', items')
    BY <1>1, FramesAre DEF Running, Inv
  <1> QED BY <1>1, <1>2, TokensStay

(* The first of its names begins; the others are read again.               *)
LEMMA ParseSubcommandKeeps ==
  ASSUME Inv, ParseSubcommand
  PROVE  Inv'
  <1> DEFINE t == Head(args)
             whole == FindToken(Here, t, TRUE)
             com == IF whole # None THEN whole
                    ELSE IF Len(t.n) > 1 THEN Find(Here, t.n[1], TRUE) ELSE None
             u == [t EXCEPT !.n = Tail(@)]
             inner == IF whole # None THEN <<>> ELSE <<u>>
             return == [Do("return", com) EXCEPT
                          !.com = com, !.groups = Between(Parent(com), Here)]
  <1>1. args # <<>> /\ frames # <<>> /\ Here \in Apps
    BY FramesAre DEF ParseSubcommand, Reading
  <1>2. t \in Tokens /\ Tail(args) \in Seq(Tokens) /\ args \in Seq(Tokens)
    BY <1>1, HeadIs
  <1>3. CASE com = None
    <2>1. \/ Throw("missing")
          \/ /\ frames' = <<[Top EXCEPT !.done = TRUE]>> \o Tail(frames)
             /\ UNCHANGED <<tree, later, args, counters, found, missing, todo,
                            outcome>>
      BY <1>3 DEF ParseSubcommand
    <2>2. /\ UNCHANGED <<tree, args, results, missing, parsed, todo, items>>
          /\ \/ frames' = <<[Top EXCEPT !.done = TRUE]>> \o Tail(frames)
             \/ frames' = frames
      BY <2>1 DEF Throw, later, counters, found
    <2>3. Running(frames', todo', items')
      BY <1>1, <2>2, FramesAre DEF Running, Inv
    <2> QED BY <2>2, <2>3, TokensStay
  <1>4. CASE com # None
    <2>1. /\ args' = inner \o Tail(args) /\ UNCHANGED <<tree, todo, items>>
          /\ BeginApp(com, Pick(Here, com))
          /\ frames' = <<Frame(com, return), Settled>> \o Tail(frames)
      BY <1>4 DEF ParseSubcommand, CallParse, later
    <2>2. \/ /\ whole # None /\ com = whole /\ inner = <<>>
          \/ /\ whole = None /\ Len(t.n) > 1 /\ com = Find(Here, t.n[1], TRUE)
             /\ inner = <<u>>
      BY <1>4
    <2> HIDE DEF whole, com, inner
    <2>3. /\ com \in Apps
          /\ inner = <<>> => Last(t.n) \in A(com).names
      <3>1. CASE whole # None /\ com = whole /\ inner = <<>>
        BY <1>1, <3>1, FindTokenIs DEF whole, Inv, Given
      <3>2. CASE /\ Len(t.n) > 1 /\ com = Find(Here, t.n[1], TRUE)
                 /\ inner = <<u>>
        BY <1>1, <1>4, <3>2, SearchIs DEF Find, Inv, Given
      <3> QED BY <2>2, <3>1, <3>2
    <2>4. /\ Forgets(results, missing, parsed, results', missing', parsed')
          /\ parsed'[com] > 0
      BY <2>1, <2>3, BeginAppForgets
    <2>5. Kept(args', results', missing', parsed')
      <3>1. CASE inner = <<>>
        <4>1. args' = Tail(args)
          BY <1>2, <2>1, <3>1
        <4>2. Head(args).id \in Words => Begun(Head(args).id, parsed')
          BY <1>1, <2>3, <2>4, <3>1, NamedBegins
        <4> QED BY <1>1, <2>4, <4>1, <4>2, HeadRead
      <3>2. CASE inner = <<u>> /\ Len(t.n) > 1
        <4>1. /\ Tail(t.n) \in Seq(Names) \ {<<>>}
              /\ Last(Tail(t.n)) = Last(t.n)
          <5> DEFINE n == t.n
          <5>1. n \in Seq(Names) /\ Len(n) > 1
            BY <1>2, <3>2 DEF Tokens
          <5> HIDE DEF n
          <5>2. /\ Tail(n) \in Seq(Names) /\ Len(Tail(n)) = Len(n) - 1
                /\ Len(n) \in Nat
            BY <5>1
          <5>3. Tail(n)[Len(n) - 1] = n[Len(n)] /\ Tail(n) # <<>>
            BY <5>1, <5>2
          <5>4. Last(Tail(n)) = Last(n)
            BY <5>2, <5>3 DEF Last
          <5> QED BY <5>2, <5>3, <5>4 DEF n
        <4>2. u \in Tokens /\ u.id = t.id /\ u.k = t.k /\ u.n = Tail(t.n)
          BY <1>2, <4>1 DEF Tokens
        <4> HIDE DEF u
        <4>3. /\ <<u>> \in Seq(Tokens) /\ args' = <<u>> \o Tail(args)
              /\ args' \in Seq(Tokens)
          BY <1>2, <2>1, <3>2, <4>2, ConcatProperties
        <4>4. Ids(args') = Ids(args)
          <5>1. Ids(<<u>> \o Tail(args)) = Ids(<<u>>) \o Ids(Tail(args))
            BY <1>2, <4>3, IdsOf
          <5>2. Ids(<<u>>) = <<t.id>>
            BY <1>2, <4>2, IdsOf
          <5>3. Ids(args) = <<t.id>> \o Ids(Tail(args))
            BY <1>1, HeadIs
          <5> QED BY <4>3, <5>1, <5>2, <5>3
        <4>5. Seen(args')
          <5> SUFFICES ASSUME NEW i \in DOMAIN args', args'[i].id \in Words
                       PROVE  /\ args'[i].k = "word"
                              /\ Last(args'[i].n) = Last(line[args'[i].id].n)
            BY DEF Seen
          <5>1. \/ i = 1 /\ args'[i] = u
                \/ i - 1 \in DOMAIN Tail(args) /\ args'[i] = Tail(args)[i - 1]
            BY <1>2, <4>3
          <5>2. CASE args'[i] = u
            BY <1>1, <4>1, <4>2, <5>2, HeadIs
          <5>3. CASE i - 1 \in DOMAIN Tail(args) /\ args'[i] = Tail(args)[i - 1]
            BY <1>1, <5>3, HeadIs DEF Seen
          <5> QED BY <5>1, <5>2, <5>3
        <4>6. /\ Given /\ Kept(args, results, missing, parsed)
              /\ InOrder(Ids(args'))
          BY <4>4 DEF Inv, Kept, Tidy
        <4>7. Within(Ids(args'), Ids(args))
          BY <4>4 DEF Within
        <4>8. \A x \in Words :
                In(x, Ids(args)) => In(x, Ids(args')) \/ Begun(x, parsed')
          BY <4>4
        <4> QED BY <2>4, <4>3, <4>5, <4>6, <4>7, <4>8, BegunKept
      <3> QED BY <2>2, <3>1, <3>2
    <2>6. Running(frames', todo', items')
      <3>1. Between(Parent(com), Here) \in SUBSET Apps
        BY DEF Between
      <3>2. return \in Steps
        BY <2>3, <3>1 DEF Do, Steps, StepNames
      <3> HIDE DEF return
      <3>3. Frame(com, return) \in Frames
        BY <2>3, <3>2 DEF Frame, Frames
      <3> QED BY <1>1, <2>1, <3>3, FramesAre DEF Running
    <2> QED BY <2>1, <2>5, <2>6, SameTree DEF Inv
  <1> QED BY <1>3, <1>4

(* The token of an option, x, that is no word, comes before what is left   *)
(* behind it and the tokens that follow.                                   *)
LEMMA BehindIs ==
  ASSUME Inv, args # <<>>, Head(args).id \notin Words,
         NEW behind \in Seq(Tokens),
         \A i \in DOMAIN behind : behind[i].id = Head(args).id,
         NEW left, left = behind \o Tail(args)
  PROVE  /\ left \in Seq(Tokens) /\ Seen(left)
         /\ InOrder(<<Head(args).id>> \o Ids(left))
         /\ Within(<<Head(args).id>> \o Ids(left), Ids(args))
         /\ \A y \in Words : In(y, Ids(args)) => In(y, Ids(left))
  <1> DEFINE x == Head(args).id
             rest == Tail(args)
             all == Ids(args)
             j == Ids(rest)
             k == Ids(behind)
             one == <<x>>
  <1>1. /\ rest \in Seq(Tokens) /\ Seen(rest) /\ Splits(all, one, j)
        /\ \A y : In(y, all) <=> y = x \/ In(y, j)
    BY HeadIs
  <1>2. x \in Nat /\ one \in Seq(Nat)
    BY HeadIs DEF Tokens
  <1>3. left \in Seq(Tokens)
    BY <1>1, ConcatProperties
  <1>4. Ids(left) = k \o j /\ k \in Seq(Nat) /\ j \in Seq(Nat)
    BY <1>1, IdsOf
  <1>5. \A i \in DOMAIN k : k[i] = x
    BY DEF Ids
  <1>6. Seen(left)
    <2> SUFFICES ASSUME NEW i \in DOMAIN left, left[i].id \in Words
                 PROVE  /\ left[i].k = "word"
                        /\ Last(left[i].n) = Last(line[left[i].id].n)
      BY DEF Seen
    <2>1. \/ i \in DOMAIN behind /\ left[i] = behind[i]
          \/ i - Len(behind) \in DOMAIN rest /\ left[i] = rest[i - Len(behind)]
      BY <1>1
    <2>2. i - Len(behind) \in DOMAIN rest /\ left[i] = rest[i - Len(behind)]
      BY <2>1
    <2> QED BY <1>1, <2>2 DEF Seen
  <1>7. NotAfter(x, x)
    BY NotAfterIs DEF Inv, Given
  <1>8. x \notin Words
    OBVIOUS
  <1> HIDE DEF x, rest, all, j, k
  <1>9. /\ InOrder(k) /\ Precedes(one, k) /\ In(x, one)
        /\ Precedes(one, j) /\ InOrder(one) /\ InOrder(j) /\ Within(one, all)
        /\ Within(j, all)
    <2>1. InOrder(k)
      BY <1>5, <1>7, InOrderIs
    <2>2. Precedes(one, k) /\ In(x, one)
      BY <1>5, <1>7 DEF Precedes, In
    <2> HIDE DEF one
    <2> QED BY <1>1, <2>1, <2>2 DEF Splits
  <1>10. Precedes(k, j) /\ Within(k, all)
    <2>1. Precedes(k, j)
      BY <1>5, <1>9 DEF Precedes
    <2>2. In(x, all)
      BY <1>1
    <2> QED BY <1>5, <2>1, <2>2 DEF Within, In
  <1> HIDE DEF one
  <1> DEFINE kj == k \o j
  <1>11. kj \in Seq(Nat)
    BY <1>4, ConcatProperties
  <1>12. InOrder(kj)
    BY <1>4, <1>9, <1>10, ConcatInOrder
  <1>13. Within(kj, all)
    BY <1>4, <1>9, <1>10, WithinConcat
  <1>14. Precedes(one, kj)
    BY <1>4, <1>9, PrecedesConcat
  <1>15. \A y \in Words : In(y, all) => In(y, kj)
    BY <1>1, <1>4, <1>8, InConcat
  <1> HIDE DEF kj
  <1>16. InOrder(one \o kj)
    BY <1>2, <1>9, <1>11, <1>12, <1>14, ConcatInOrder
  <1>17. Within(one \o kj, all)
    BY <1>2, <1>9, <1>11, <1>13, WithinConcat
  <1> QED BY <1>3, <1>4, <1>6, <1>15, <1>16, <1>17 DEF x, all, one, kj

(* What a complete subcommand has to do are steps.                         *)
LEMMA CompletionIs ==
  ASSUME NEW a \in Apps
  PROVE  Completion(a) \in Seq(Steps)
  <1>1. /\ Do("env", a) \in Steps /\ Do("callbacks", a) \in Steps
        /\ Do("help", a) \in Steps /\ Do("requirements", a) \in Steps
        /\ Do("complete", a) \in Steps
    BY DEF Do, Steps, StepNames
  <1> DEFINE whole == <<Do("env", a), Do("callbacks", a), Do("help", a),
                        Do("requirements", a), Do("complete", a)>>
  <1>2. Completion(a) = <<>> \/ Completion(a) = whole
    BY DEF Completion
  <1>3. \A e, c, h, r, d \in Steps : <<e, c, h, r, d>> \in Seq(Steps)
    <2> SUFFICES ASSUME NEW e \in Steps, NEW c \in Steps, NEW h \in Steps,
                        NEW r \in Steps, NEW d \in Steps
                 PROVE  <<e, c, h, r, d>> \in Seq(Steps)
      OBVIOUS
    <2>1. <<e, c, h>> \in Seq(Steps) /\ <<r, d>> \in Seq(Steps)
      OBVIOUS
    <2>2. <<e, c, h, r, d>> = <<e, c, h>> \o <<r, d>>
      OBVIOUS
    <2> QED BY <2>1, <2>2, ConcatProperties
  <1>4. whole \in Seq(Steps)
    BY <1>1, <1>3
  <1> HIDE DEF whole
  <1>5. <<>> \in Seq(Steps)
    OBVIOUS
  <1> QED BY <1>2, <1>4, <1>5

(* And so is what the dots have to do.                                     *)
LEMMA FollowDotsAre ==
  ASSUME NEW dots \in Seq(Apps \X Apps)
  PROVE  FollowDots(dots) \in Seq(Steps)
  <1> DEFINE s(i) == [Do("dot", dots[i][1]) EXCEPT !.com = dots[i][2]]
             part(i) == <<s(i)>> \o Completion(dots[i][2])
             parts == [i \in DOMAIN dots |-> part(i)]
  <1>1. ASSUME NEW i \in DOMAIN dots
        PROVE  part(i) \in Seq(Steps)
    <2>1. dots[i][1] \in Apps /\ dots[i][2] \in Apps
      BY <1>1
    <2>2. s(i) \in Steps
      BY <2>1 DEF Do, Steps, StepNames
    <2> HIDE DEF s
    <2>3. <<s(i)>> \in Seq(Steps) /\ Completion(dots[i][2]) \in Seq(Steps)
      BY <2>1, <2>2, CompletionIs
    <2> QED BY <2>3, ConcatProperties
  <1>2. FollowDots(dots) = FlattenSeq(parts)
    BY DEF FollowDots
  <1> HIDE DEF part
  <1>3. parts \in Seq(Seq(Steps))
    BY <1>1
  <1> HIDE DEF parts
  <1> QED BY <1>2, <1>3, FlattenIsSeq

(* An option takes its values and leaves the others; one that nobody knows *)
(* is a remaining argument.                                                *)
LEMMA ParseOptionKeeps ==
  ASSUME Inv, ParseOption
  PROVE  Inv'
  <1> DEFINE t == Head(args)
             target == ArgTarget(Here, t)
             left == target.behind \o Tail(args)
             e == Eaten(target.at, target.on, target.token, left)
             x == t.id
  <1>1. /\ args # <<>> /\ frames # <<>> /\ Class \in {"long", "short"}
    BY DEF ParseOption, TakeOption, Reading
  <1>2. t.k \in {"long", "short"}
    <2>1. Recognize(Here, t, TRUE) \in {"long", "short"}
      BY <1>1 DEF Class
    <2> QED BY <2>1 DEF Recognize
  <1>3. x \notin Words /\ t \in Tokens /\ Here \in Apps
    BY <1>1, <1>2, HeadIs, FramesAre
  <1>4. Given /\ IsProgram(cli) /\ Kept(args, results, missing, parsed)
    BY DEF Inv, Given
  <1>5. /\ target.at \in Apps /\ target.groups \in SUBSET Apps
        /\ target.to # "missing" => target.on \in Options
        /\ target.token \in Tokens /\ target.token.id = x
        /\ target.behind \in Seq(Tokens)
        /\ \A i \in DOMAIN target.behind : target.behind[i].id = x
        /\ target.dots \in Seq(Apps \X Apps)
    BY <1>3, <1>4, ArgTargetIs
  <1>6. /\ left \in Seq(Tokens) /\ Seen(left) /\ InOrder(<<x>> \o Ids(left))
        /\ Within(<<x>> \o Ids(left), Ids(args))
        /\ \A y \in Words : In(y, Ids(args)) => In(y, Ids(left))
    <2> DEFINE behind == target.behind
    <2>1. /\ behind \in Seq(Tokens) /\ left = behind \o Tail(args)
          /\ \A i \in DOMAIN behind : behind[i].id = Head(args).id
          /\ Head(args).id \notin Words
      BY <1>3, <1>5
    <2> HIDE DEF behind, left, target
    <2> QED BY <1>1, <2>1, BehindIs
  <1>7. Splits(Ids(args), <<x>>, Ids(Tail(args))) /\ x \in Nat
        /\ Ids(<<t>>) = <<x>> /\ <<t>> \in Seq(Tokens)
    <2>1. Splits(Ids(args), <<x>>, Ids(Tail(args))) /\ Ids(<<t>>) = <<x>>
      BY <1>1, HeadIs
    <2>2. x \in Nat
      BY <1>3 DEF Tokens
    <2> QED BY <1>3, <2>1, <2>2
  <1>8. CASE target.to = "missing"
    <2>1. /\ missing' = [missing EXCEPT ![MissingAt(target.at)] = @ \o <<t>>]
          /\ args' = left /\ results' = results /\ parsed' = parsed
          /\ UNCHANGED <<tree, frames, todo, items>>
      BY <1>8 DEF ParseOption, TakeOption, MoveToMissing, later, counters, found
    <2>2. MissingAt(target.at) \in Apps
      BY <1>4, <1>5, MissingAtIs
    <2> HIDE DEF target, left
    <2>3. Splits(Ids(args), Ids(<<t>>), Ids(left))
      <3> DEFINE j == Ids(left)
                 all == <<x>> \o j
      <3>1. j \in Seq(Nat)
        BY <1>6, IdsOf
      <3>2. InOrder(all) /\ Within(all, Ids(args)) /\ all = <<x>> \o j
            /\ \A y \in Words : In(y, Ids(args)) => In(y, j)
        BY <1>6
      <3> HIDE DEF j, all, x
      <3>3. InOrder(j) /\ Precedes(<<x>>, j)
        BY <1>7, <3>1, <3>2, HeadFirst
      <3>4. Within(j, Ids(args))
        <4>1. <<x>> \in Seq(Nat)
          BY <1>7 DEF Splits
        <4> QED BY <3>1, <3>2, <4>1, WithinConcat
      <3>5. Splits(Ids(args), <<x>>, j)
        BY <1>7, <3>1, <3>2, <3>3, <3>4 DEF Splits
      <3> QED BY <1>7, <3>5 DEF j
    <2>4. Kept(left, results,
               [missing EXCEPT ![MissingAt(target.at)] = @ \o <<t>>], parsed)
      BY <1>4, <1>6, <1>7, <2>2, <2>3, MissingKept
    <2>5. Kept(args', results', missing', parsed')
      BY <2>1, <2>4
    <2>6. Running(frames', todo', items')
      BY <2>1 DEF Inv
    <2> QED BY <2>1, <2>5, <2>6, SameTree DEF Inv
  <1>9. CASE target.to # "missing" /\ ~e.ok
    <2>1. Throw("mismatch")
      BY <1>9 DEF ParseOption, TakeOption
    <2>2. UNCHANGED <<tree, args, results, missing, parsed, frames, todo, items>>
      BY <2>1 DEF Throw, later, counters, found
    <2> QED BY <2>2, TokensStay DEF Inv
  <1>10. CASE target.to # "missing" /\ e.ok
    <2> DEFINE o == target.on
    <2>1. /\ results' = [results EXCEPT ![o] = Before(o) \o e.ids]
          /\ args' = e.left /\ todo' = FollowDots(target.dots)
          /\ missing' = missing /\ parsed' = parsed
          /\ UNCHANGED <<tree, frames, items>>
      BY <1>10 DEF ParseOption, TakeOption, AddResults, later
    <2>2. o \in Options /\ FollowDots(target.dots) \in Seq(Steps)
      BY <1>5, <1>10, FollowDotsAre
    <2> DEFINE i == Ids(args)
               j == Ids(e.left)
               all == <<x>> \o Ids(left)
    <2>3. /\ e.ids \in Seq(Nat) /\ InOrder(e.ids) /\ Within(e.ids, all)
          /\ e.left \in Seq(Tokens) /\ InOrder(j) /\ Within(j, all)
          /\ Precedes(e.ids, j)
          /\ \A y \in Words : In(y, Ids(left)) => In(y, e.ids) \/ In(y, j)
          /\ \A n \in DOMAIN e.left :
               \/ e.left[n].id = x
               \/ \E m \in DOMAIN left : e.left[n] = left[m]
      <3> DEFINE token == target.token
      <3>1. \A n \in DOMAIN left :
              left[n].k = "mark" => left[n].id \notin Words
        BY <1>6 DEF Seen
      <3>2. token \in Tokens /\ token.id = x /\ token.id \notin Words
        BY <1>3, <1>5
      <3>3. InOrder(<<token.id>> \o Ids(left))
        BY <1>6, <3>2
      <3>4. e = Eaten(target.at, o, token, left)
        OBVIOUS
      <3> DEFINE a == target.at
      <3> HIDE DEF e, left, o, target, token, a
      <3>5. o \in Options /\ e = Eaten(a, o, token, left)
        BY <2>2, <3>4 DEF a
      <3>6. Eats(token.id, left)
        BY <1>6, <3>1, <3>2, <3>3 DEF Eats
      <3>7. Ate(token.id, left, e)
        BY <1>4, <3>2, <3>5, <3>6, EatenIs
      <3> QED BY <3>2, <3>7 DEF Ate
    <2> HIDE DEF e, left, o, target
    <2>4. Splits(i, e.ids, j)
      <3>1. j \in Seq(Nat)
        BY <2>3, IdsOf
      <3>2. Within(all, i) /\ \A y \in Words : In(y, i) => In(y, Ids(left))
        BY <1>6
      <3> HIDE DEF all, i, j
      <3>3. Within(e.ids, i) /\ Within(j, i)
        BY <2>3, <3>2 DEF Within
      <3> QED BY <2>3, <3>1, <3>2, <3>3 DEF Splits
    <2>5. Seen(e.left)
      BY <1>3, <1>6, <2>3 DEF Seen
    <2>6. Kept(e.left, [results EXCEPT ![o] = Before(o) \o e.ids], missing,
               parsed)
      BY <1>4, <2>2, <2>3, <2>4, <2>5, BeforeIs, ResultsKept
    <2>7. Kept(args', results', missing', parsed')
      BY <2>1, <2>6
    <2>8. Running(frames', todo', items')
      BY <2>1, <2>2 DEF Inv, Running
    <2> QED BY <2>1, <2>7, <2>8, SameTree DEF Inv
  <1> QED BY <1>8, <1>9, <1>10

(* The steps that leave a call of _parse.                                  *)
LEMMA LeaveFrameKeeps ==
  ASSUME Inv, LeaveFrame
  PROVE  Inv'
  <1>1. /\ frames # <<>> /\ frames' = Tail(frames)
        /\ todo' = Append(Completion(Here), Top.return)
        /\ UNCHANGED <<tree, args, results, missing, parsed, items>>
    BY DEF LeaveFrame, later, counters, found, Inv, Running
  <1>2. Top \in Frames /\ Completion(Here) \in Seq(Steps)
    BY <1>1, FramesAre, CompletionIs
  <1>3. Top.return \in Steps
    BY <1>2 DEF Frames
  <1>4. todo' \in Seq(Steps)
    BY <1>1, <1>2, <1>3
  <1>5. Running(frames', todo', items')
    BY <1>1, <1>4, FramesAre DEF Running
  <1> QED BY <1>1, <1>5, TokensStay

(* The processing steps that are still to be done.                         *)
LEMMA TodoIs ==
  ASSUME Inv, todo # <<>>
  PROVE  /\ Head(todo) \in Steps /\ Tail(todo) \in Seq(Steps)
         /\ Head(todo).on \in Apps /\ frames \in Seq(Frames)
         /\ items \in Seq(Items)
  <1>1. /\ todo \in Seq(Steps) /\ frames \in Seq(Frames)
        /\ items \in Seq(Items)
    BY DEF Inv, Running
  <1>2. Head(todo) \in Steps /\ Tail(todo) \in Seq(Steps)
    BY <1>1
  <1>3. Head(todo).on \in Apps
    BY <1>2 DEF Steps
  <1> QED BY <1>1, <1>2, <1>3

(* A call of _parse that returns keeps the tokens.                         *)
LEMMA ReturnFromSubcommandKeeps ==
  ASSUME Inv, ReturnFromSubcommand
  PROVE  Inv'
  <1>1. /\ todo # <<>> /\ todo' = Tail(todo)
        /\ UNCHANGED <<tree, args, results, missing, parsed, frames, items>>
    BY DEF ReturnFromSubcommand, Doing, later, found
  <1>2. Running(frames', todo', items')
    BY <1>1, TodoIs DEF Running
  <1> QED BY <1>1, <1>2, TokensStay

(* An app that is found behind a dot begins, and takes no token.           *)
LEMMA FollowDotKeeps ==
  ASSUME Inv, FollowDot
  PROVE  Inv'
  <1> DEFINE a == Head(todo).on
             picked == Pick(a, Head(todo).com)
  <1>1. /\ todo # <<>> /\ todo' = Tail(todo) /\ BeginApp(a, picked)
        /\ UNCHANGED <<tree, args, frames, items>>
    BY DEF FollowDot, Doing, later
  <1>2. Kept(args', results', missing', parsed')
    <2>1. a \in Apps
      BY <1>1, TodoIs
    <2> HIDE DEF a, picked
    <2> QED BY <1>1, <2>1, BeginAppKeeps
  <1>3. Running(frames', todo', items')
    BY <1>1, TodoIs DEF Running
  <1> QED BY <1>1, <1>2, <1>3, SameTree DEF Inv

----------------------------------------------------------------------------
(* The stages of the processing.                                           *)

(* The steps that only look, or run callbacks, keep the tokens.            *)
LEMMA LookingKeeps ==
  ASSUME Inv,
         \/ Help \/ FailConfig \/ Callbacks \/ Requirements \/ Complete
         \/ Extras \/ Finish \/ RejectItem \/ EndItems
  PROVE  Inv'
  <1>1. /\ todo # <<>>
        /\ UNCHANGED <<tree, args, results, missing, parsed, frames>>
        /\ todo' = todo \/ todo' = Tail(todo)
        /\ items' = items \/ (items # <<>> /\ items' = Tail(items))
    <2>1. CASE Help
      BY <2>1 DEF Help, Stage, Doing, Next1, Fail, untouched, counters, found
    <2>2. CASE FailConfig
      BY <2>2 DEF FailConfig, Stage, Doing, Next1, Fail, untouched, counters,
         found
    <2>3. CASE Callbacks
      BY <2>3 DEF Callbacks, Stage, Doing, Next1, Fail, untouched, counters
    <2>4. CASE Requirements
      BY <2>4 DEF Requirements, Stage, Doing, Next1, Fail, untouched, counters,
         found
    <2>5. CASE Complete
      BY <2>5 DEF Complete, Stage, Doing, Next1, Fail, untouched, counters,
         found
    <2>6. CASE Extras
      BY <2>6 DEF Extras, Stage, Doing, Next1, Fail, untouched, counters, found
    <2>7. CASE Finish
      BY <2>7 DEF Finish, Stage, Doing, Next1, Fail, untouched, counters, found
    <2>8. CASE RejectItem
      BY <2>8 DEF RejectItem, ReadingItem, Stage, Doing, Next1, Fail, untouched,
         counters, found
    <2>9. CASE EndItems
      BY <2>9 DEF EndItems, Stage, Doing, Next1, Fail, untouched, counters,
         found
    <2> QED BY <2>1, <2>2, <2>3, <2>4, <2>5, <2>6, <2>7, <2>8, <2>9
  <1>2. Running(frames', todo', items')
    <2>1. todo' \in Seq(Steps)
      BY <1>1, TodoIs DEF Inv, Running
    <2>2. items \in Seq(Items)
      BY DEF Inv, Running
    <2>3. items # <<>> => Tail(items) \in Seq(Items)
      BY <2>2
    <2>4. items' \in Seq(Items)
      BY <1>1, <2>2, <2>3
    <2> QED BY <1>1, <2>1, <2>4 DEF Inv, Running
  <1> QED BY <1>1, <1>2, TokensStay

(* The main app begins.                                                    *)
LEMMA StartKeeps ==
  ASSUME Inv, Start
  PROVE  Inv'
  <1> DEFINE f == Frame(Main, Do("end", Main))
  <1>1. /\ todo # <<>> /\ todo' = Tail(todo) /\ BeginApp(Main, chosen)
        /\ frames' = <<f>> /\ UNCHANGED <<tree, args, items>>
    BY DEF Start, Stage, Doing, Next1
  <1>2. Main \in Apps
    BY TreeIs DEF Inv, Given
  <1>3. Kept(args', results', missing', parsed')
    BY <1>1, <1>2, BeginAppKeeps
  <1>4. f \in Frames
    BY <1>2 DEF Frame, Frames, Do, Steps, StepNames
  <1> HIDE DEF f
  <1>5. <<f>> \in Seq(Frames)
    BY <1>4
  <1>6. Running(frames', todo', items')
    BY <1>1, <1>5, TodoIs DEF Running
  <1> QED BY <1>1, <1>3, <1>6, SameTree DEF Inv

(* The processing of the main app begins.                                  *)
LEMMA EndOfLineKeeps ==
  ASSUME Inv, EndOfLine
  PROVE  Inv'
  <1>1. /\ frames' = <<>> /\ todo' = Processing
        /\ UNCHANGED <<tree, args, results, missing, parsed, items>>
    BY DEF EndOfLine, counters, found
  <1>2. Main \in Apps
    BY TreeIs DEF Inv, Given
  <1>3. \A what \in StepNames : Do(what, Main) \in Steps
    BY <1>2 DEF Do, Steps
  <1>4. /\ "help" \in StepNames /\ "config" \in StepNames
        /\ "env" \in StepNames /\ "callbacks" \in StepNames
        /\ "requirements" \in StepNames /\ "extras" \in StepNames
        /\ "final" \in StepNames
    BY DEF StepNames
  <1>5. \A a, b, c, d, e, f, g \in Steps :
          <<a, b, c, d, e, f, g>> \in Seq(Steps)
    OBVIOUS
  <1>6. Processing \in Seq(Steps)
    BY <1>3, <1>4, <1>5 DEF Processing
  <1>7. <<>> \in Seq(Frames)
    OBVIOUS
  <1>8. Running(frames', todo', items')
    BY <1>1, <1>6, <1>7 DEF Running, Inv
  <1> QED BY <1>1, <1>8, TokensStay

(* The option of the configuration file gets its default.                  *)
LEMMA ConfigKeeps ==
  ASSUME Inv, Config
  PROVE  Inv'
  <1> DEFINE c == cli.config.option
  <1>1. /\ todo # <<>> /\ UNCHANGED <<tree, args, frames, missing, parsed>>
        /\ \/ results' = results
           \/ /\ c # None /\ ~(Count(c) > 0)
              /\ results' = [results EXCEPT ![c] = <<0>>]
        /\ items' = <<>> \/ items' = cli.config.items
        /\ \/ todo' = <<Do("callbacks", Main), Do("fail", Main)>>
           \/ todo' = <<Do("items", Main)>> \o Tail(todo)
    BY DEF Config, Stage, Doing, untouched, counters
  <1>2. /\ Main \in Apps /\ cli.config.items \in Seq(Items)
        /\ c \in Options \cup {None} /\ results \in [Options -> Seq(Nat)]
    BY TreeIs DEF Inv, Given, IsProgram, Kept, Options
  <1> HIDE DEF c
  <1>3. Kept(args', results', missing', parsed')
    <2>1. CASE results' = results
      BY <1>1, <2>1 DEF Inv
    <2>2. CASE /\ c # None /\ ~(Count(c) > 0)
               /\ results' = [results EXCEPT ![c] = <<0>>]
      <3>1. c \in Options /\ results[c] = <<>> /\ <<0>> \in Seq(Nat)
        BY <1>2, <2>2 DEF Count
      <3>2. results' \in [Options -> Seq(Nat)]
        BY <1>2, <2>2, <3>1
      <3>3. \A o \in Options :
              \/ results'[o] = results[o]
              \/ /\ results[o] = <<>>
                 /\ \A i \in DOMAIN results'[o] : results'[o][i] = 0
        BY <1>2, <2>2, <3>1
      <3>4. Given /\ Kept(args, results, missing, parsed)
        BY DEF Inv
      <3> QED BY <1>1, <3>2, <3>3, <3>4, OthersKept
    <2> QED BY <1>1, <2>1, <2>2
  <1>4. todo' \in Seq(Steps)
    <2>1. /\ Do("callbacks", Main) \in Steps /\ Do("fail", Main) \in Steps
          /\ Do("items", Main) \in Steps
      BY <1>2 DEF Do, Steps, StepNames
    <2>2. /\ \A a \in Steps : <<a>> \in Seq(Steps)
          /\ \A a, b \in Steps : <<a, b>> \in Seq(Steps)
      OBVIOUS
    <2>3. Tail(todo) \in Seq(Steps)
      BY <1>1, TodoIs
    <2>4. <<Do("items", Main)>> \o Tail(todo) \in Seq(Steps)
      BY <2>1, <2>2, <2>3, ConcatProperties
    <2> QED BY <1>1, <2>1, <2>2, <2>4
  <1>5. <<>> \in Seq(Items)
    OBVIOUS
  <1>6. Running(frames', todo', items')
    BY <1>1, <1>2, <1>4, <1>5 DEF Running, Inv
  <1> QED BY <1>1, <1>3, <1>6, SameTree DEF Inv

(* Options that have no value get one from the environment.                *)
LEMMA EnvKeeps ==
  ASSUME Inv, Env
  PROVE  Inv'
  <1> DEFINE taken == FromEnv(On)
  <1>1. /\ todo # <<>> /\ todo' = Tail(todo)
        /\ UNCHANGED <<tree, args, frames, missing, parsed, items>>
        /\ results' = [o \in Options |-> IF o \in taken THEN <<0>>
                                         ELSE results[o]]
    BY DEF Env, Stage, Doing, Next1, untouched, counters
  <1>2. Given /\ Kept(args, results, missing, parsed)
    BY DEF Inv
  <1>3. results \in [Options -> Seq(Nat)]
    BY <1>2 DEF Kept
  <1>4. \A o \in Options : o \in taken => Len(results[o]) = 0
    BY DEF FromEnv, Count
  <1> HIDE DEF taken
  <1>5. \A o \in Options : o \in taken => results[o] = <<>>
    BY <1>3, <1>4
  <1>6. /\ results' \in [Options -> Seq(Nat)]
        /\ \A o \in Options :
             \/ results'[o] = results[o]
             \/ /\ results[o] = <<>>
                /\ \A i \in DOMAIN results'[o] : results'[o][i] = 0
    <2>1. <<0>> \in Seq(Nat) /\ \A i \in DOMAIN <<0>> : <<0>>[i] = 0
      OBVIOUS
    <2> QED BY <1>1, <1>3, <1>5, <2>1
  <1>7. Kept(args', results', missing', parsed')
    BY <1>1, <1>2, <1>6, OthersKept
  <1>8. Running(frames', todo', items')
    BY <1>1, TodoIs DEF Running
  <1> QED BY <1>1, <1>7, <1>8, SameTree DEF Inv

(* The item that is read, and the app it is for.                           *)
LEMMA ItemIs ==
  ASSUME Inv, items # <<>>
  PROVE  /\ Item.n \in Nat /\ <<Item.name>> \in Seq(Names) \ {<<>>}
         /\ Tail(items) \in Seq(Items) /\ ItemOwner \in Apps \cup {None}
  <1>1. items \in Seq(Items)
    BY DEF Inv, Running
  <1>2. Item \in Items /\ Tail(items) \in Seq(Items)
    BY <1>1 DEF Item
  <1>3. Item.n \in Nat /\ Item.name \in Names /\ Item.parents \in Seq(STRING)
    BY <1>2 DEF Items, Names
  <1>4. Main \in Apps /\ IsProgram(cli)
    BY TreeIs DEF Inv, Given
  <1>5. Follow(Main, Item.parents, {}, FALSE)
           \in [0 .. Len(Item.parents) -> Apps \cup {None}]
    BY <1>3, <1>4, FollowIs
  <1>6. Len(Item.parents) \in 0 .. Len(Item.parents)
    BY <1>3
  <1>7. ItemOwner \in Apps \cup {None}
    BY <1>5, <1>6 DEF ItemOwner, Owner
  <1>8. <<Item.name>> \in Seq(Names) \ {<<>>}
    BY <1>3
  <1> QED BY <1>2, <1>3, <1>7, <1>8

(* A section begins its app, ...                                           *)
LEMMA OpenSectionKeeps ==
  ASSUME Inv, OpenSection
  PROVE  Inv'
  <1>1. /\ items # <<>> /\ items' = Tail(items) /\ ItemOwner # None
        /\ UNCHANGED <<tree, args, frames, todo>>
        /\ \/ UNCHANGED <<results, missing, parsed>>
           \/ \E picked : BeginApp(ItemOwner, picked)
    BY DEF OpenSection, ReadingItem, InSection, untouched, counters, found
  <1>2. ItemOwner \in Apps /\ Tail(items) \in Seq(Items)
    BY <1>1, ItemIs
  <1>3. Kept(args', results', missing', parsed')
    <2>1. CASE UNCHANGED <<results, missing, parsed>>
      BY <1>1, <2>1 DEF Inv
    <2>2. CASE \E picked : BeginApp(ItemOwner, picked)
      BY <1>1, <1>2, <2>2, BeginAppKeeps
    <2> QED BY <1>1, <2>1, <2>2
  <1>4. Running(frames', todo', items')
    BY <1>1, <1>2 DEF Running, Inv
  <1> QED BY <1>1, <1>3, <1>4, SameTree DEF Inv

(* ... and ends with what a complete subcommand has to do.                 *)
LEMMA CloseSectionKeeps ==
  ASSUME Inv, CloseSection
  PROVE  Inv'
  <1> DEFINE s == <<Do("callbacks", ItemOwner), Do("requirements", ItemOwner),
                    Do("section", ItemOwner)>>
  <1>1. /\ items # <<>> /\ items' = Tail(items) /\ ItemOwner # None
        /\ UNCHANGED <<tree, args, frames, results, missing, parsed>>
        /\ todo' = todo \/ todo' = s \o todo
    BY DEF CloseSection, ReadingItem, InSection, untouched, counters, found
  <1>2. ItemOwner \in Apps /\ Tail(items) \in Seq(Items)
    BY <1>1, ItemIs
  <1>3. /\ Do("callbacks", ItemOwner) \in Steps
        /\ Do("requirements", ItemOwner) \in Steps
        /\ Do("section", ItemOwner) \in Steps
    BY <1>2 DEF Do, Steps, StepNames
  <1>4. \A a, b, c \in Steps : <<a, b, c>> \in Seq(Steps)
    OBVIOUS
  <1>5. s \in Seq(Steps)
    BY <1>3, <1>4
  <1> HIDE DEF s
  <1>6. s \o todo \in Seq(Steps)
    BY <1>5, ConcatProperties DEF Inv, Running
  <1>7. Running(frames', todo', items')
    BY <1>1, <1>2, <1>6 DEF Running, Inv
  <1> QED BY <1>1, <1>7, TokensStay

(* An item gives values to an option that has none.                        *)
LEMMA SetOptionKeeps ==
  ASSUME Inv, SetOption
  PROVE  Inv'
  <1> DEFINE o == ItemOption
             n == IF StoredFlag(o) THEN 1 ELSE Item.n
             zeros == [i \in 1..n |-> 0]
  <1>1. /\ items # <<>> /\ items' \in {items, Tail(items)}
        /\ UNCHANGED <<tree, args, frames, todo, missing, parsed>>
        /\ \/ results' = results
           \/ /\ Count(o) = 0
              /\ results' = [results EXCEPT ![o] = @ \o zeros]
    BY DEF SetOption, ReadingItem, TakesItem, Fail, untouched, counters, found
  <1>2. Given /\ Kept(args, results, missing, parsed)
    BY DEF Inv
  <1>3. results \in [Options -> Seq(Nat)] /\ n \in Nat
    BY <1>1, <1>2, ItemIs DEF Kept
  <1> HIDE DEF n, o
  <1>4. zeros \in Seq(Nat) /\ \A i \in DOMAIN zeros : zeros[i] = 0
    BY <1>3
  <1> HIDE DEF zeros
  <1>5. Kept(args', results', missing', parsed')
    <2>1. CASE results' = results
      BY <1>1, <1>2, <2>1
    <2>2. CASE Count(o) = 0 /\ results' = [results EXCEPT ![o] = @ \o zeros]
      <3>1. o \in Options => results[o] = <<>>
        BY <1>3, <2>2 DEF Count
      <3>2. o \in Options => results[o] \o zeros = zeros
        BY <1>4, <3>1
      <3>3. \A u \in Options :
              results'[u] = IF u = o THEN zeros ELSE results[u]
        BY <1>3, <2>2, <3>2
      <3>4. results' \in [Options -> Seq(Nat)]
        BY <1>3, <1>4, <2>2, <3>2
      <3>5. \A u \in Options :
              \/ results'[u] = results[u]
              \/ /\ results[u] = <<>>
                 /\ \A i \in DOMAIN results'[u] : results'[u][i] = 0
        BY <1>4, <3>1, <3>3
      <3> QED BY <1>1, <1>2, <3>4, <3>5, OthersKept
    <2> QED BY <1>1, <2>1, <2>2
  <1>6. Running(frames', todo', items')
    BY <1>1, ItemIs DEF Running, Inv
  <1> QED BY <1>1, <1>5, <1>6, SameTree DEF Inv

(* An item that nobody knows can become remaining arguments.               *)
LEMMA UnknownItemKeeps ==
  ASSUME Inv, UnknownItem
  PROVE  Inv'
  <1> DEFINE a == ItemOwner
             n == Item.n + 1
             extra == [k |-> "word", n |-> <<Item.name>>, v |-> FALSE,
                       rest |-> <<>>, id |-> 0]
             extras == [i \in 1..n |-> extra]
  <1>1. /\ items # <<>>
        /\ items' = items \/ items' = Tail(items)
        /\ UNCHANGED <<tree, args, frames, todo, results, parsed>>
        /\ \/ missing' = missing
           \/ a # None /\ missing' = [missing EXCEPT ![a] = @ \o extras]
    BY DEF UnknownItem, ReadingItem, untouched, counters, found, Fail
  <1>2. Given /\ Kept(args, results, missing, parsed)
    BY DEF Inv
  <1>3. /\ n \in Nat /\ extra \in Tokens /\ extra.id = 0
        /\ a \in Apps \cup {None}
    <2>1. <<Item.name>> \in Seq(Names) \ {<<>>} /\ <<>> \in Seq(Names)
      BY <1>1, ItemIs
    <2>2. n \in Nat /\ a \in Apps \cup {None}
      BY <1>1, ItemIs
    <2> QED BY <2>1, <2>2 DEF Tokens
  <1> HIDE DEF n, extra, a
  <1>4. extras \in Seq(Tokens) /\ \A i \in DOMAIN extras : extras[i].id = 0
    BY <1>3
  <1>5. Kept(args', results', missing', parsed')
    <2>1. CASE missing' = missing
      BY <1>1, <1>2, <2>1
    <2>2. CASE a # None /\ missing' = [missing EXCEPT ![a] = @ \o extras]
      <3> DEFINE i == Ids(args)
                 g == Ids(extras)
      <3>1. /\ args \in Seq(Tokens) /\ Seen(args) /\ InOrder(i)
            /\ i \in Seq(Nat) /\ g \in Seq(Nat)
        BY <1>2, <1>4, IdsOf DEF Kept, Tidy
      <3>2. \A j \in DOMAIN g : g[j] = 0
        <4> HIDE DEF extras
        <4> QED BY <1>4 DEF Ids
      <3> HIDE DEF i, g
      <3>3. Within(i, i) /\ Within(g, i)
        BY <3>2 DEF Within
      <3>4. InOrder(g) /\ Precedes(g, i)
        BY <1>2, <3>2, NotAfterIs, InOrderIs DEF Precedes, Given
      <3>5. Splits(i, g, i)
        BY <3>1, <3>3, <3>4 DEF Splits
      <3>6. Splits(Ids(args), Ids(extras), Ids(args))
        BY <3>5 DEF i, g
      <3>7. a \in Apps
        BY <1>3, <2>2
      <3> HIDE DEF extras
      <3>8. Kept(args, results, [missing EXCEPT ![a] = @ \o extras], parsed)
        BY <1>2, <1>4, <3>1, <3>6, <3>7, MissingKept
      <3> QED BY <1>1, <2>2, <3>8
    <2> QED BY <1>1, <2>1, <2>2
  <1>6. Running(frames', todo', items')
    BY <1>1, ItemIs DEF Running, Inv
  <1> QED BY <1>1, <1>5, <1>6, SameTree DEF Inv

----------------------------------------------------------------------------
(* The theorems.                                                           *)

(* A parse begins with the whole line to read, and nothing kept.           *)
LEMMA InitGives ==
  ASSUME Init
  PROVE  Inv
  <1>1. /\ args = line /\ results = [o \in Options |-> <<>>]
        /\ missing = [a \in Apps |-> <<>>] /\ parsed = [a \in Apps |-> 0]
        /\ frames = <<>> /\ todo = <<Do("start", Main)>> /\ items = <<>>
    BY DEF Init, FreshParse
  <1>2. Given
    BY InputsAssumption DEF Init, FreshParse, Given
  <1>3. line \in Seq(Tokens) /\ \A i \in DOMAIN line : line[i].id = i
    BY <1>2 DEF Given, IsLine
  <1>4. /\ results \in [Options -> Seq(Nat)]
        /\ missing \in [Apps -> Seq(Tokens)] /\ parsed \in [Apps -> Nat]
    <2>1. <<>> \in Seq(Nat) /\ <<>> \in Seq(Tokens)
      OBVIOUS
    <2> QED BY <1>1, <2>1
  <1>5. Seen(args)
    BY <1>1, <1>3 DEF Seen, Words
  <1> DEFINE i == Ids(args)
             k == Keep(results, missing)
  <1>6. /\ i \in Seq(Nat) /\ DOMAIN i = DOMAIN line
        /\ \A j \in DOMAIN line : i[j] = j
    <2>1. i \in Seq(Nat)
      BY <1>1, <1>3, IdsOf
    <2> QED BY <1>1, <1>3, <2>1 DEF Ids
  <1>7. k \in [Keepers -> Seq(Nat)]
    BY <1>2, <1>4, KeepIs
  <1>8. \A g \in Keepers : k[g] = <<>>
    <2> SUFFICES ASSUME NEW g \in Keepers PROVE k[g] = <<>>
      OBVIOUS
    <2>1. CASE \E o \in Options : g = <<"option", o>>
      BY <1>1, <2>1, OptionKeeps
    <2>2. CASE \E a \in Apps : g = <<"app", a>>
      <3>1. PICK a \in Apps : g = <<"app", a>>
        BY <2>2
      <3>2. k[g] = Ids(missing[a]) /\ missing[a] = <<>>
        BY <1>1, <3>1, AppKeeps
      <3> QED BY <3>2 DEF Ids
    <2> QED BY <1>2, <1>4, <2>1, <2>2, KeepIs
  <1> HIDE DEF i, k
  <1>9. InOrder(i)
    BY <1>6 DEF InOrder
  <1>10. Tidy(i, k)
    BY <1>6, <1>7, <1>8, <1>9, EmptyIs DEF Tidy
  <1>11. AllThere(i, k, parsed)
    BY <1>6 DEF AllThere, In, Words
  <1>12. Kept(args, results, missing, parsed)
    BY <1>1, <1>3, <1>4, <1>5, <1>10, <1>11 DEF Kept, i, k
  <1>13. Running(frames, todo, items)
    <2>1. Main \in Apps
      BY <1>2, TreeIs DEF Given
    <2>2. Do("start", Main) \in Steps
      BY <2>1 DEF Do, Steps, StepNames
    <2>3. /\ <<>> \in Seq(Frames) /\ <<>> \in Seq(Items)
          /\ \A s \in Steps : <<s>> \in Seq(Steps)
      OBVIOUS
    <2> QED BY <1>1, <2>2, <2>3 DEF Running
  <1> QED BY <1>2, <1>12, <1>13 DEF Inv

(* Every step keeps the invariant.                                         *)
LEMMA StepKeeps ==
  ASSUME Inv, [Next]_vars
  PROVE  Inv'
  <1>1. CASE ParseStep
    BY <1>1, ParseMarkKeeps, ParseTerminatorKeeps, ParsePositionalKeeps,
       RepeatSubcommandKeeps, KeepAsMissingKeeps, RejectPositionalKeeps,
       RefusePositionalKeeps, ParseSubcommandKeeps, ParseOptionKeeps,
       LeaveFrameKeeps, ReturnFromSubcommandKeeps, FollowDotKeeps
    DEF ParseStep
  <1>2. CASE Stages
    BY <1>2, StartKeeps, EndOfLineKeeps, LookingKeeps, ConfigKeeps, EnvKeeps,
       OpenSectionKeeps, CloseSectionKeeps, SetOptionKeeps, UnknownItemKeeps
    DEF Stages
  <1>3. CASE UNCHANGED vars
    <2>1. /\ UNCHANGED <<tree, args, results, missing, parsed>>
          /\ UNCHANGED <<frames, todo, items>>
      BY <1>3 DEF vars, counters, found, later
    <2> QED BY <2>1, TokensStay DEF Inv
  <1> QED BY <1>1, <1>2, <1>3 DEF Next

(* What holds a token is the line or a keeper.                             *)
LEMMA HeldIs ==
  ASSUME Inv
  PROVE  /\ Holders = {<<"line", Main>>} \cup Keepers
         /\ <<"line", Main>> \notin Keepers
         /\ Held(<<"line", Main>>) = Ids(args)
         /\ \A h \in Keepers : Held(h) = Keep(results, missing)[h]
  <1>1. Holders = {<<"line", Main>>} \cup Keepers
    BY DEF Holders, Keepers
  <1>2. \A h \in Keepers : h[1] = "option" \/ h[1] = "app"
    BY DEF Keepers
  <1>3. <<"line", Main>> \notin Keepers
    BY <1>2
  <1> QED BY <1>1, <1>2, <1>3 DEF Held, Keep

(* A word that has two places would be before itself.                      *)
LEMMA UsedOnceHolds ==
  ASSUME Inv
  PROVE  UsedOnce
  <1> DEFINE k == Keep(results, missing)
             i == Ids(args)
             l == <<"line", Main>>
  <1>1. Tidy(i, k) /\ IsLine(line)
    BY DEF Inv, Kept, Given
  <1>2. /\ Holders = {l} \cup Keepers /\ l \notin Keepers
        /\ Held(l) = i /\ \A h \in Keepers : Held(h) = k[h]
    BY HeldIs
  <1> HIDE DEF k, i, l
  <1>3. \A h \in Holders : InOrder(Held(h)) /\ Held(h) \in Seq(Nat)
    BY <1>1, <1>2 DEF Tidy
  <1>4. ASSUME NEW x \in Words, NEW g \in Holders, NEW h \in Holders,
               In(x, Held(g)), In(x, Held(h)), g # h
        PROVE  FALSE
    <2>1. ~NotAfter(x, x)
      BY <1>1, NotAfterIs
    <2>2. CASE g = l
      BY <1>1, <1>2, <1>4, <2>1, <2>2 DEF Tidy, Precedes, In
    <2>3. CASE h = l
      BY <1>1, <1>2, <1>4, <2>1, <2>3 DEF Tidy, Precedes, In
    <2>4. CASE g # l /\ h # l
      BY <1>1, <1>2, <1>4, <2>4 DEF Tidy
    <2> QED BY <2>2, <2>3, <2>4
  <1>5. ASSUME NEW x \in Words, NEW h \in Holders,
               NEW m \in DOMAIN Held(h), NEW n \in DOMAIN Held(h),
               Held(h)[m] = x, Held(h)[n] = x
        PROVE  m = n
    <2> DEFINE s == Held(h)
    <2>1. ~NotAfter(x, x)
      BY <1>1, NotAfterIs
    <2>2. InOrder(s) /\ s \in Seq(Nat)
      BY <1>3
    <2>3. m \in DOMAIN s /\ n \in DOMAIN s /\ s[m] = x /\ s[n] = x
      BY <1>5
    <2> HIDE DEF s
    <2>4. ~(m < n) /\ ~(n < m)
      BY <2>1, <2>2, <2>3, InOrderIs
    <2>5. m \in Nat /\ n \in Nat
      BY <2>2, <2>3
    <2> QED BY <2>4, <2>5
  <1>6. ASSUME NEW x \in Words, NEW p \in Places(x)
        PROVE  \E h \in Holders : \E n \in DOMAIN Held(h) :
                 p = <<h, n>> /\ Held(h)[n] = x
    BY <1>6 DEF Places
  <1>7. ASSUME NEW x \in Words, NEW p \in Places(x), NEW q \in Places(x)
        PROVE  p = q
    <2>1. PICK g \in Holders :
            \E m \in DOMAIN Held(g) : p = <<g, m>> /\ Held(g)[m] = x
      BY <1>6
    <2>2. PICK h \in Holders :
            \E n \in DOMAIN Held(h) : q = <<h, n>> /\ Held(h)[n] = x
      BY <1>6
    <2>3. In(x, Held(g)) /\ In(x, Held(h))
      BY <2>1, <2>2 DEF In
    <2>4. g = h
      BY <1>4, <2>3
    <2> QED BY <1>5, <2>1, <2>2, <2>4
  <1> QED BY <1>7 DEF UsedOnce

(* A word that is in some keeper, or in the line, has a place.             *)
LEMMA NoneLostHolds ==
  ASSUME Inv
  PROVE  NoneLost
  <1> SUFFICES ASSUME ~Forgetful, NEW x \in Words, Places(x) = {}
               PROVE  NamedSome(x)
    BY DEF NoneLost
  <1>1. AllThere(Ids(args), Keep(results, missing), parsed)
    BY DEF Inv, Kept
  <1>2. ASSUME NEW h \in Holders, In(x, Held(h))
        PROVE  FALSE
    <2>1. PICK n \in DOMAIN Held(h) : Held(h)[n] = x
      BY <1>2 DEF In
    <2>2. <<h, n>> \in Places(x)
      BY <1>2, <2>1 DEF Places
    <2> QED BY <2>2
  <1>3. ~In(x, Ids(args))
    BY <1>2, HeldIs
  <1>4. \A h \in Keepers : ~In(x, Keep(results, missing)[h])
    BY <1>2, HeldIs
  <1>5. Begun(x, parsed)
    BY <1>1, <1>3, <1>4 DEF AllThere
  <1> QED BY <1>5 DEF Begun, NamedSome

(* At any moment of a parse the invariant holds.                           *)
LEMMA InvHolds == Spec => []Inv
  <1>1. Init => Inv
    BY InitGives
  <1>2. Inv /\ [Next]_vars => Inv'
    BY StepKeeps
  <1> QED BY <1>1, <1>2, PTL DEF Spec

(* Whatever the program and the line: at any moment of a parse, no word is *)
(* at two places, none is lost, and none overtakes another.                *)
THEOREM WordsAreKept == Spec => []WordsKept
  <1>1. Inv => WordsKept
    <2> SUFFICES ASSUME Inv PROVE WordsKept
      OBVIOUS
    <2>1. \A h \in Holders : InOrder(Held(h))
      BY HeldIs DEF Inv, Kept, Tidy
    <2> QED BY <2>1, UsedOnceHolds, NoneLostHolds DEF OrderKept, WordsKept
  <1> QED BY <1>1, InvHolds, PTL

(* A parse never goes back on the line, although options, subcommands and  *)
(* dots push tokens back on the stack: a word that an option or an app has *)
(* kept came before every word that is still to be read.                   *)
NeverGoesBack ==
  /\ \A o \in Options : Precedes(results[o], Ids(args))
  /\ \A a \in Apps : Precedes(Ids(missing[a]), Ids(args))

(* That holds for any program and line.                                    *)
THEOREM ReadsForward == Spec => []NeverGoesBack
  <1>1. Inv => NeverGoesBack
    <2> SUFFICES ASSUME Inv PROVE NeverGoesBack
      OBVIOUS
    <2>1. \A h \in Keepers : Precedes(Keep(results, missing)[h], Ids(args))
      BY DEF Inv, Kept, Tidy
    <2>2. ASSUME NEW o \in Options PROVE Precedes(results[o], Ids(args))
      <3>1. <<"option", o>> \in Keepers
        BY DEF Keepers
      <3>2. Precedes(Keep(results, missing)[<<"option", o>>], Ids(args))
        BY <2>1, <3>1
      <3>3. Keep(results, missing)[<<"option", o>>] = results[o]
        BY OptionKeeps
      <3> QED BY <3>2, <3>3
    <2>3. ASSUME NEW a \in Apps PROVE Precedes(Ids(missing[a]), Ids(args))
      <3>1. <<"app", a>> \in Keepers
        BY DEF Keepers
      <3>2. Precedes(Keep(results, missing)[<<"app", a>>], Ids(args))
        BY <2>1, <3>1
      <3>3. Keep(results, missing)[<<"app", a>>] = Ids(missing[a])
        BY AppKeeps
      <3> QED BY <3>2, <3>3
    <2> QED BY <2>2, <2>3 DEF NeverGoesBack
  <1> QED BY <1>1, InvHolds, PTL

(* The argument stack, what was kept of it, the calls of _parse, the steps *)
(* of _process and the items of the configuration file are what they       *)
(* should be: an app that a step looks up is one of the tree.              *)
ParseTypes ==
  /\ args \in Seq(Tokens) /\ results \in [Options -> Seq(Nat)]
  /\ missing \in [Apps -> Seq(Tokens)] /\ parsed \in [Apps -> Nat]
  /\ frames \in Seq(Frames) /\ todo \in Seq(Steps) /\ items \in Seq(Items)

(* For any program and line they always are.                               *)
THEOREM ParseTyped == Spec => []ParseTypes
  <1>1. Inv => ParseTypes
    BY DEF Inv, Kept, Running, ParseTypes
  <1> QED BY <1>1, InvHolds, PTL
=============================================================================
