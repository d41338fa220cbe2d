------------------------- MODULE CliRegistryProofs -------------------------
(***************************************************************************)
(* The registry stays sound, whatever is called.  A call is a chain of     *)
(* steps that the code takes one after the other: each operator of the     *)
(* model has a lemma, named for it, that it keeps RegistrySound, and that  *)
(* says what else it leaves alone for the steps after it.                  *)
(*                                                                         *)
(* Between the steps of one call an app may be out of the tree: born and   *)
(* not yet taken in, or released and not yet destroyed.  The roots of      *)
(* RegistrySound are the main app and those.                               *)
(***************************************************************************)
EXTENDS CliRegistry, Recursion, FiniteSetTheorems

(* What is appended to a list is added to what the list holds.             *)
LEMMA SetOfAppend ==
  ASSUME NEW s \in Seq(Nat), NEW x \in Nat
  PROVE  /\ Append(s, x) \in Seq(Nat)
         /\ ToSet(Append(s, x)) = ToSet(s) \cup {x}
         /\ IsInjective(s) /\ x \notin ToSet(s) => IsInjective(Append(s, x))
  <1>1. Append(s, x) \in Seq(Nat) /\ DOMAIN s = 1 .. Len(s)
        /\ DOMAIN Append(s, x) = 1 .. (Len(s) + 1) /\ Len(s) \in Nat
    OBVIOUS
  <1>2. \A i \in 1 .. Len(s) : Append(s, x)[i] = s[i]
    OBVIOUS
  <1>3. Append(s, x)[Len(s) + 1] = x
    OBVIOUS
  <1>4. \A i \in 1 .. (Len(s) + 1) : i \in 1 .. Len(s) \/ i = Len(s) + 1
    BY <1>1
  <1>5. \A i \in 1 .. Len(s) : i \in 1 .. (Len(s) + 1)
    BY <1>1
  <1>6. Len(s) + 1 \in 1 .. (Len(s) + 1)
    BY <1>1
  <1>7. ToSet(Append(s, x)) = ToSet(s) \cup {x}
    BY <1>1, <1>2, <1>3, <1>4, <1>5, <1>6 DEF ToSet
  <1>8. IsInjective(s) /\ x \notin ToSet(s) => IsInjective(Append(s, x))
    BY <1>1, <1>2, <1>3, <1>4, <1>5, <1>6 DEF ToSet, IsInjective
  <1> QED BY <1>1, <1>7, <1>8

(* What is taken out of a list is gone from what the list holds, and       *)
(* nothing else is.                                                        *)
LEMMA SetWithout ==
  ASSUME NEW s \in Seq(Nat), NEW x, IsInjective(s)
  PROVE  /\ Without(s, x) \in Seq(Nat)
         /\ ToSet(Without(s, x)) = ToSet(s) \ {x}
         /\ IsInjective(Without(s, x))
  <1>1. CASE x \notin ToSet(s)
    <2>1. ~ \E i \in 1 .. Len(s) : s[i] = x
      BY <1>1 DEF ToSet
    <2>2. Without(s, x) = s
      BY <2>1 DEF Without, RemoveFirst
    <2> QED BY <1>1, <2>2
  <1>2. CASE x \in ToSet(s)
    <2> DEFINE I == {i \in 1 .. Len(s) : s[i] = x}
               k == Min(I)
    <2>1. Len(s) \in Nat /\ DOMAIN s = 1 .. Len(s)
      OBVIOUS
    <2>2. I # {} /\ I \in SUBSET Nat
      BY <1>2 DEF ToSet
    <2>3. k \in I
      <3> HIDE DEF I
      <3> QED BY <2>2, Least DEF Min
    <2>4. k \in 1 .. Len(s) /\ s[k] = x
      BY <2>3
    <2>5. SelectInSeq(s, LAMBDA v : v = x) = k
      BY <2>2 DEF SelectInSeq
    <2> HIDE DEF k, I
    <2>6. Without(s, x) = SubSeq(s, 1, k - 1) \o SubSeq(s, k + 1, Len(s))
      BY <2>4, <2>5 DEF Without, RemoveFirst, RemoveAt
    <2> DEFINE t == SubSeq(s, 1, k - 1) \o SubSeq(s, k + 1, Len(s))
    <2>7. /\ t \in Seq(Nat) /\ Len(t) = Len(s) - 1
          /\ \A i \in 1 .. Len(s) - 1 :
               t[i] = IF i < k THEN s[i] ELSE s[i + 1]
      <3> DEFINE u == SubSeq(s, 1, k - 1)
                 v == SubSeq(s, k + 1, Len(s))
      <3>1. k \in 1 .. Len(s) /\ k \in Nat /\ k - 1 \in Nat /\ Len(s) - k \in Nat
        BY <2>1, <2>4
      <3>2. /\ u \in Seq(Nat) /\ Len(u) = k - 1
            /\ \A i \in 1 .. k - 1 : u[i] = s[i]
        BY <2>1, <2>4
      <3>3. \A i \in (k + 1) .. Len(s) : s[i] \in Nat
        BY <2>1, <3>1
      <3>4. /\ v \in Seq(Nat)
            /\ Len(v) = IF k + 1 <= Len(s) THEN Len(s) - (k + 1) + 1 ELSE 0
            /\ \A i \in 1 .. Len(s) - (k + 1) + 1 : v[i] = s[(k + 1) + i - 1]
        <4>1. k + 1 \in Int /\ Len(s) \in Int
          BY <2>1, <3>1
        <4> DEFINE m == k + 1
                   n == Len(s)
        <4>2. m \in Int /\ n \in Int /\ \A i \in m .. n : s[i] \in Nat
          BY <3>3, <4>1
        <4> HIDE DEF m, n
        <4>3. /\ SubSeq(s, m, n) \in Seq(Nat)
              /\ Len(SubSeq(s, m, n)) = IF m <= n THEN n - m + 1 ELSE 0
              /\ \A i \in 1 .. n - m + 1 : SubSeq(s, m, n)[i] = s[m + i - 1]
          BY <4>2, SubSeqProperties
        <4>4. v = SubSeq(s, m, n)
          BY DEF m, n
        <4> HIDE DEF v
        <4>5. /\ v \in Seq(Nat) /\ Len(v) = IF m <= n THEN n - m + 1 ELSE 0
              /\ \A i \in 1 .. n - m + 1 : v[i] = s[m + i - 1]
          BY <4>3, <4>4
        <4> QED BY <4>5 DEF m, n
      <3> HIDE DEF u, v
      <3>5. Len(v) = Len(s) - k /\ Len(s) - (k + 1) + 1 = Len(s) - k
        <4>1. Len(v) = IF k + 1 <= Len(s) THEN Len(s) - (k + 1) + 1 ELSE 0
          BY <3>4
        <4>2. Len(s) \in Nat /\ k \in Nat /\ k <= Len(s)
          BY <2>1, <3>1
        <4> DEFINE n == Len(s)
                   m == Len(v)
        <4> HIDE DEF n, m
        <4>3. n \in Nat /\ k \in Nat /\ k <= n
              /\ m = IF k + 1 <= n THEN n - (k + 1) + 1 ELSE 0
          BY <4>1, <4>2 DEF n, m
        <4>4. m = n - k /\ n - (k + 1) + 1 = n - k
          BY <4>3
        <4> QED BY <4>4 DEF n, m
      <3>6. \A i \in 1 .. Len(s) - k : v[i] = s[i + k]
        <4> SUFFICES ASSUME NEW i \in 1 .. Len(s) - k PROVE v[i] = s[i + k]
          OBVIOUS
        <4>1. i \in 1 .. Len(s) - (k + 1) + 1 /\ (k + 1) + i - 1 = i + k
          BY <2>1, <3>1
        <4>2. v[i] = s[(k + 1) + i - 1]
          BY <3>4, <4>1
        <4> QED BY <4>1, <4>2
      <3>7. /\ u \o v \in Seq(Nat) /\ Len(u \o v) = Len(u) + Len(v)
            /\ \A i \in 1 .. Len(u) + Len(v) :
                 (u \o v)[i] = IF i <= Len(u) THEN u[i] ELSE v[i - Len(u)]
        BY <3>2, <3>4, ConcatProperties
      <3>8. Len(u) + Len(v) = Len(s) - 1
        BY <2>1, <3>1, <3>2, <3>5
      <3>9. ASSUME NEW i \in 1 .. Len(s) - 1
            PROVE  (u \o v)[i] = IF i < k THEN s[i] ELSE s[i + 1]
        <4>1. i \in Nat /\ i \in 1 .. Len(u) + Len(v)
          BY <2>1, <3>8
        <4>2. CASE i < k
          <5>1. i <= Len(u) /\ i \in 1 .. k - 1
            BY <3>1, <3>2, <4>1, <4>2
          <5> QED BY <3>2, <3>7, <4>1, <4>2, <5>1
        <4>3. CASE ~(i < k)
          <5>1. ~(i <= Len(u)) /\ i - Len(u) \in 1 .. Len(s) - k
                /\ (i - Len(u)) + k = i + 1
            BY <2>1, <3>1, <3>2, <4>1, <4>3
          <5> QED BY <3>6, <3>7, <4>1, <4>3, <5>1
        <4> QED BY <4>2, <4>3
      <3> QED BY <3>7, <3>8, <3>9 DEF u, v
    <2> HIDE DEF t
    <2>8. DOMAIN t = 1 .. (Len(s) - 1)
      BY <2>7
    <2>9. \A i, j \in 1 .. Len(s) : s[i] = s[j] => i = j
      BY <2>1 DEF IsInjective
    <2>10. IsInjective(t)
      <3> SUFFICES ASSUME NEW i \in 1 .. (Len(s) - 1),
                          NEW j \in 1 .. (Len(s) - 1), t[i] = t[j]
                   PROVE  i = j
        BY <2>8 DEF IsInjective
      <3> DEFINE Old(h) == IF h < k THEN h ELSE h + 1
      <3>1. Old(i) \in 1 .. Len(s) /\ Old(j) \in 1 .. Len(s)
        BY <2>1, <2>4
      <3>2. t[i] = s[Old(i)] /\ t[j] = s[Old(j)]
        BY <2>7
      <3>3. Old(i) = Old(j)
        <4> HIDE DEF Old
        <4> QED BY <2>9, <3>1, <3>2
      <3>4. i \in Nat /\ j \in Nat /\ k \in Nat
        BY <2>1, <2>4
      <3> QED BY <3>3, <3>4
    <2>11. ASSUME NEW y \in ToSet(t) PROVE y \in ToSet(s) \ {x}
      <3>1. PICK i \in 1 .. (Len(s) - 1) : t[i] = y
        BY <2>8 DEF ToSet
      <3>2. CASE i < k
        <4>1. i \in 1 .. Len(s) /\ i # k
          BY <2>1, <2>4, <3>2
        <4>2. s[i] = y
          BY <2>7, <3>1, <3>2
        <4> QED BY <2>1, <2>4, <2>9, <4>1, <4>2 DEF ToSet
      <3>3. CASE ~(i < k)
        <4>1. i + 1 \in 1 .. Len(s) /\ i + 1 # k
          BY <2>1, <2>4, <3>3
        <4>2. s[i + 1] = y
          BY <2>7, <3>1, <3>3
        <4> QED BY <2>1, <2>4, <2>9, <4>1, <4>2 DEF ToSet
      <3> QED BY <3>2, <3>3
    <2>12. ASSUME NEW y \in ToSet(s) \ {x} PROVE y \in ToSet(t)
      <3>1. PICK i \in 1 .. Len(s) : s[i] = y
        BY <2>1 DEF ToSet
      <3>2. i # k
        BY <2>4, <3>1
      <3>3. CASE i < k
        <4>1. i \in 1 .. (Len(s) - 1)
          BY <2>1, <2>4, <3>3
        <4> QED BY <2>7, <2>8, <3>1, <3>3, <4>1 DEF ToSet
      <3>4. CASE i > k
        <4>1. i - 1 \in 1 .. (Len(s) - 1) /\ ~(i - 1 < k) /\ (i - 1) + 1 = i
          BY <2>1, <2>4, <3>4
        <4>2. t[i - 1] = y
          BY <2>7, <3>1, <4>1
        <4> QED BY <2>8, <4>1, <4>2 DEF ToSet
      <3> QED BY <2>4, <3>2, <3>3, <3>4
    <2>13. ToSet(t) = ToSet(s) \ {x}
      BY <2>11, <2>12
    <2> QED BY <2>6, <2>7, <2>10, <2>13 DEF t
  <1> QED BY <1>1, <1>2

(* The owners and the links of an app.                                     *)
SamePlace(x, y) ==
  /\ x.parent = y.parent /\ x.options = y.options /\ x.subs = y.subs
  /\ x.needApps = y.needApps /\ x.excludeApps = y.excludeApps

(* An app may change in all but its place in the tree and its links to     *)
(* apps, if its help pointers point to its options.                        *)
LEMMA ChangeApp ==
  ASSUME NEW r, NEW roots, RegistrySound(r, roots), NEW a \in DOMAIN r.apps,
         NEW x \in AppRecords, SamePlace(x, AppOf(r, a)),
         {x.help, x.helpAll} \subseteq ToSet(x.options) \cup {0}
  PROVE  RegistrySound([r EXCEPT !.apps[a] = x], roots)
  <1> DEFINE q == [r EXCEPT !.apps[a] = x]
  <1>1. /\ q \in [apps : {q.apps}, options : {q.options}, next : Nat,
                  graves : {q.graves}, made : Nat, threw : BOOLEAN]
        /\ q.apps = [r.apps EXCEPT ![a] = x]
        /\ q.options = r.options /\ q.graves = r.graves /\ q.next = r.next
    BY DEF RegistrySound, IsRegistry
  <1> HIDE DEF q
  <1>2. /\ DOMAIN q.apps = DOMAIN r.apps
        /\ q.apps[a] = x
        /\ \A b \in DOMAIN r.apps : b # a => q.apps[b] = r.apps[b]
    BY <1>1 DEF RegistrySound, IsRegistry
  <1>3. IsRegistry(q)
    BY <1>1 DEF RegistrySound, IsRegistry
  <1>4. \A b \in DOMAIN r.apps : SamePlace(q.apps[b], r.apps[b])
    BY <1>2 DEF AppOf, SamePlace
  <1>5. NumbersUsedOnce(q)
    BY <1>1, <1>2 DEF RegistrySound, NumbersUsedOnce
  <1>6. OptionsHeldOnce(q)
    BY <1>1, <1>2, <1>4 DEF RegistrySound, OptionsHeldOnce, SamePlace, AppOf
  <1>7. AppsHeldOnce(q, roots)
    BY <1>1, <1>2, <1>4 DEF RegistrySound, AppsHeldOnce, SamePlace, AppOf
  <1>8. LinksKnown(q)
    BY <1>1, <1>2, <1>4
    DEF RegistrySound, LinksKnown, SamePlace, AppOf, OptionOf
  <1>9. OptionsApart(q)
    BY <1>1, <1>2, <1>4
    DEF RegistrySound, OptionsApart, SamePlace, AppOf, OptionOf
  <1>10. OptionLinksLive(q)
    BY <1>1 DEF RegistrySound, OptionLinksLive, OptionOf
  <1>11. AppLinksLive(q)
    BY <1>1, <1>2, <1>4 DEF RegistrySound, AppLinksLive, SamePlace, AppOf
  <1>12. PointersLive(q)
    BY <1>1, <1>2 DEF RegistrySound, PointersLive, AppOf
  <1> QED BY <1>3, <1>5, <1>6, <1>7, <1>8, <1>9, <1>10, <1>11, <1>12
          DEF q, RegistrySound

(* An option may change in all but its app and its links, if it and its    *)
(* neighbours do not answer to the names of each other.                    *)
LEMMA ChangeOption ==
  ASSUME NEW r, NEW roots, RegistrySound(r, roots), NEW o \in DOMAIN r.options,
         NEW x \in OptionRecords,
         x.parent = OptionOf(r, o).parent,
         x.needs = OptionOf(r, o).needs, x.excludes = OptionOf(r, o).excludes,
         \A a \in DOMAIN r.apps : \A p \in ToSet(AppOf(r, a).options) :
           LET y == OptionOf(r, p)
           IN p # o /\ o \in ToSet(AppOf(r, a).options)
              /\ x.parent = a /\ y.parent = a =>
                /\ \A n \in x.short : ~TakesShort(y, n)
                /\ \A n \in x.long : ~TakesLong(y, n)
                /\ \A n \in y.short : ~TakesShort(x, n)
                /\ \A n \in y.long : ~TakesLong(x, n)
  PROVE  RegistrySound([r EXCEPT !.options[o] = x], roots)
  <1> DEFINE q == [r EXCEPT !.options[o] = x]
  <1>1. /\ q \in [apps : {q.apps}, options : {q.options}, next : Nat,
                  graves : {q.graves}, made : Nat, threw : BOOLEAN]
        /\ q.options = [r.options EXCEPT ![o] = x]
        /\ q.apps = r.apps /\ q.graves = r.graves /\ q.next = r.next
    BY DEF RegistrySound, IsRegistry
  <1> HIDE DEF q
  <1>2. /\ DOMAIN q.options = DOMAIN r.options
        /\ q.options[o] = x
        /\ \A p \in DOMAIN r.options : p # o => q.options[p] = r.options[p]
    BY <1>1 DEF RegistrySound, IsRegistry
  <1>3. IsRegistry(q)
    BY <1>1 DEF RegistrySound, IsRegistry
  <1>4. \A p \in DOMAIN r.options :
          /\ q.options[p].needs = r.options[p].needs
          /\ q.options[p].excludes = r.options[p].excludes
          /\ q.options[p].parent = r.options[p].parent
    BY <1>2 DEF OptionOf
  <1>5. NumbersUsedOnce(q)
    BY <1>1, <1>2 DEF RegistrySound, NumbersUsedOnce
  <1>6. OptionsHeldOnce(q)
    BY <1>1, <1>2 DEF RegistrySound, OptionsHeldOnce, AppOf
  <1>7. AppsHeldOnce(q, roots)
    BY <1>1 DEF RegistrySound, AppsHeldOnce, AppOf
  <1>8. LinksKnown(q)
    BY <1>1, <1>2, <1>4 DEF RegistrySound, LinksKnown, AppOf, OptionOf
  <1>9. OptionsApart(q)
    <2> SUFFICES ASSUME NEW a \in DOMAIN r.apps,
                        NEW p1 \in ToSet(AppOf(r, a).options),
                        NEW p2 \in ToSet(AppOf(r, a).options),
                        p1 # p2,
                        OptionOf(q, p1).parent = a, OptionOf(q, p2).parent = a
                 PROVE  /\ \A n \in OptionOf(q, p1).short :
                             ~TakesShort(OptionOf(q, p2), n)
                        /\ \A n \in OptionOf(q, p1).long :
                             ~TakesLong(OptionOf(q, p2), n)
      BY <1>1 DEF OptionsApart, AppOf
    <2>1. p1 \in DOMAIN r.options /\ p2 \in DOMAIN r.options
      BY DEF RegistrySound, OptionsHeldOnce
    <2>2. CASE p1 = o
      BY <1>2, <2>1, <2>2 DEF OptionOf
    <2>3. CASE p2 = o
      BY <1>2, <2>1, <2>3 DEF OptionOf
    <2>4. CASE p1 # o /\ p2 # o
      BY <1>2, <2>1, <2>4 DEF OptionOf, RegistrySound, OptionsApart
    <2> QED BY <2>2, <2>3, <2>4
  <1>10. OptionLinksLive(q)
    BY <1>1, <1>2, <1>4 DEF RegistrySound, OptionLinksLive, OptionOf
  <1>11. AppLinksLive(q)
    BY <1>1 DEF RegistrySound, AppLinksLive, AppOf
  <1>12. PointersLive(q)
    BY <1>1 DEF RegistrySound, PointersLive, AppOf
  <1> QED BY <1>3, <1>5, <1>6, <1>7, <1>8, <1>9, <1>10, <1>11, <1>12
          DEF q, RegistrySound

(* What is made and whether the call threw say nothing of the tree.        *)
LEMMA SameTree ==
  ASSUME NEW r, NEW roots, RegistrySound(r, roots), NEW q,
         q \in [apps : {r.apps}, options : {r.options}, next : {r.next},
                graves : {r.graves}, made : Nat, threw : BOOLEAN]
  PROVE  RegistrySound(q, roots)
  <1>1. /\ q.options = r.options /\ q.next = r.next
        /\ q.apps = r.apps /\ q.graves = r.graves
        /\ q.made \in Nat /\ q.threw \in BOOLEAN
    OBVIOUS
  <1>2. IsRegistry(q)
    BY <1>1 DEF RegistrySound, IsRegistry
  <1>3. NumbersUsedOnce(q)
    BY <1>1 DEF RegistrySound, NumbersUsedOnce
  <1>4. OptionsHeldOnce(q)
    BY <1>1 DEF RegistrySound, OptionsHeldOnce, AppOf
  <1>5. AppsHeldOnce(q, roots)
    BY <1>1 DEF RegistrySound, AppsHeldOnce, AppOf
  <1>6. LinksKnown(q)
    BY <1>1 DEF RegistrySound, LinksKnown, AppOf, OptionOf
  <1>7. OptionsApart(q)
    BY <1>1 DEF RegistrySound, OptionsApart, AppOf, OptionOf
  <1>8. OptionLinksLive(q)
    BY <1>1 DEF RegistrySound, OptionLinksLive, OptionOf
  <1>9. AppLinksLive(q)
    BY <1>1 DEF RegistrySound, AppLinksLive, AppOf
  <1>10. PointersLive(q)
    BY <1>1 DEF RegistrySound, PointersLive, AppOf
  <1> QED BY <1>2, <1>3, <1>4, <1>5, <1>6, <1>7, <1>8, <1>9, <1>10
          DEF RegistrySound

(* A call that throws changes nothing else.                                *)
LEMMA ThrowsSound ==
  ASSUME NEW r, NEW roots, RegistrySound(r, roots)
  PROVE  /\ RegistrySound(Throws(r), roots)
         /\ Throws(r).apps = r.apps /\ Throws(r).options = r.options
         /\ Throws(r).graves = r.graves /\ Throws(r).next = r.next
         /\ Throws(r).threw = TRUE
  <1>1. /\ r \in [apps : {r.apps}, options : {r.options}, next : Nat,
                  graves : {r.graves}, made : Nat, threw : BOOLEAN]
        /\ r.next \in Nat
    BY DEF RegistrySound, IsRegistry
  <1>2. Throws(r) \in [apps : {r.apps}, options : {r.options}, next : {r.next},
                       graves : {r.graves}, made : Nat, threw : BOOLEAN]
    BY <1>1 DEF Throws
  <1> QED BY <1>1, <1>2, SameTree DEF Throws

(* Only the app a is changed, and not its links to other apps.             *)
OnlyApp(r, q, a) ==
  /\ DOMAIN q.apps = DOMAIN r.apps
  /\ \A b \in DOMAIN r.apps : b # a => AppOf(q, b) = AppOf(r, b)
  /\ AppOf(q, a).needApps = AppOf(r, a).needApps
  /\ AppOf(q, a).excludeApps = AppOf(r, a).excludeApps

(* Two steps that change one app change that app.                          *)
LEMMA OnlyAppTransitive ==
  ASSUME NEW r, NEW q, NEW z, NEW a, OnlyApp(r, q, a), OnlyApp(q, z, a)
  PROVE  OnlyApp(r, z, a)
  BY DEF OnlyApp

(* remove_option() cuts the links of the neighbours, resets the help       *)
(* pointers and drops the option from its app.                             *)
LEMMA RemoveOptionSound ==
  ASSUME NEW r, NEW roots, RegistrySound(r, roots), NEW a \in DOMAIN r.apps,
         NEW gone
  PROVE  LET q == RemoveOption(r, a, gone)
         IN /\ RegistrySound(q, roots) /\ OnlyApp(r, q, a)
            /\ q.threw = r.threw /\ q.made = r.made
            /\ AppOf(q, a).config = AppOf(r, a).config
            /\ AppOf(q, a).version = AppOf(r, a).version
  <1> DEFINE q == RemoveOption(r, a, gone)
             here == ToSet(AppOf(r, a).options)
             x == AppOf(q, a)
  <1>1. /\ r \in [apps : {r.apps}, options : {r.options}, next : Nat,
                  graves : {r.graves}, made : Nat, threw : BOOLEAN]
        /\ r.apps \in [DOMAIN r.apps -> AppRecords]
        /\ r.options \in [DOMAIN r.options -> OptionRecords]
        /\ r.graves \in [DOMAIN r.graves -> SUBSET Nat]
    BY DEF RegistrySound, IsRegistry
  <1>2. /\ q \in [apps : {q.apps}, options : {q.options}, next : {r.next},
                  graves : {q.graves}, made : {r.made}, threw : {r.threw}]
        /\ q.apps = [r.apps EXCEPT ![a].help = IF @ = gone THEN 0 ELSE @,
                                   ![a].helpAll = IF @ = gone THEN 0 ELSE @,
                                   ![a].options = Without(@, gone)]
        /\ DOMAIN q.options = IF gone \in here THEN DOMAIN r.options \ {gone}
                              ELSE DOMAIN r.options
        /\ \A o \in DOMAIN q.options :
             q.options[o] = IF o \in here THEN Unlink(r.options[o], gone)
                            ELSE r.options[o]
        /\ IF gone \in here
           THEN q.graves = [g \in DOMAIN r.graves \cup {gone} |->
                              IF g = gone THEN here ELSE r.graves[g]]
           ELSE q.graves = r.graves
    BY <1>1 DEF RemoveOption, Drop, AppOf, OptionOf
  <1> HIDE DEF q
  <1>3. /\ AppOf(r, a).options \in Seq(Nat) /\ IsInjective(AppOf(r, a).options)
        /\ AppOf(r, a) \in AppRecords
        /\ here \subseteq DOMAIN r.options
    BY <1>1 DEF AppOf, AppRecords, RegistrySound, OptionsHeldOnce
  <1>4. /\ Without(AppOf(r, a).options, gone) \in Seq(Nat)
        /\ ToSet(Without(AppOf(r, a).options, gone)) = here \ {gone}
        /\ IsInjective(Without(AppOf(r, a).options, gone))
    BY <1>3, SetWithout
  <1>5. /\ DOMAIN q.apps = DOMAIN r.apps
        /\ \A b \in DOMAIN r.apps : b # a => q.apps[b] = r.apps[b]
        /\ x = [AppOf(r, a) EXCEPT !.help = IF @ = gone THEN 0 ELSE @,
                                   !.helpAll = IF @ = gone THEN 0 ELSE @,
                                   !.options = Without(@, gone)]
    BY <1>1, <1>2, <1>3 DEF AppOf, AppRecords
  <1>6. /\ x \in AppRecords
        /\ x.options = Without(AppOf(r, a).options, gone)
        /\ x.help = IF AppOf(r, a).help = gone THEN 0 ELSE AppOf(r, a).help
        /\ x.helpAll = IF AppOf(r, a).helpAll = gone THEN 0
                       ELSE AppOf(r, a).helpAll
        /\ x.parent = AppOf(r, a).parent /\ x.subs = AppOf(r, a).subs
        /\ x.needApps = AppOf(r, a).needApps
        /\ x.excludeApps = AppOf(r, a).excludeApps
        /\ x.config = AppOf(r, a).config /\ x.version = AppOf(r, a).version
    <2> DEFINE y == AppOf(r, a)
               w == Without(AppOf(r, a).options, gone)
    <2>1. y \in AppRecords /\ w \in Seq(Nat)
          /\ x = [y EXCEPT !.help = IF @ = gone THEN 0 ELSE @,
                           !.helpAll = IF @ = gone THEN 0 ELSE @,
                           !.options = w]
      BY <1>3, <1>4, <1>5
    <2> HIDE DEF y, w, x
    <2>2. x \in AppRecords
      BY <2>1 DEF AppRecords
    <2>3. /\ x.options = w
          /\ x.help = IF y.help = gone THEN 0 ELSE y.help
          /\ x.helpAll = IF y.helpAll = gone THEN 0 ELSE y.helpAll
          /\ x.parent = y.parent /\ x.subs = y.subs
          /\ x.needApps = y.needApps /\ x.excludeApps = y.excludeApps
          /\ x.config = y.config /\ x.version = y.version
      BY <2>1 DEF AppRecords
    <2> QED BY <2>2, <2>3 DEF y, w
  <1> HIDE DEF x
  <1>61. ASSUME NEW b \in DOMAIN r.apps
         PROVE  /\ AppOf(q, b).parent = AppOf(r, b).parent
                /\ AppOf(q, b).subs = AppOf(r, b).subs
                /\ AppOf(q, b).needApps = AppOf(r, b).needApps
                /\ AppOf(q, b).excludeApps = AppOf(r, b).excludeApps
                /\ IsInjective(AppOf(q, b).options)
                /\ ToSet(AppOf(q, b).options)
                     = IF b = a THEN here \ {gone}
                       ELSE ToSet(AppOf(r, b).options)
    <2>1. CASE b = a
      BY <1>4, <1>6, <2>1 DEF x
    <2>2. CASE b # a
      <3>1. AppOf(q, b) = AppOf(r, b)
        BY <1>5, <2>2 DEF AppOf
      <3> QED BY <2>2, <3>1 DEF RegistrySound, OptionsHeldOnce
    <2> QED BY <2>1, <2>2
  <1>62. /\ DOMAIN q.options = IF gone \in here THEN DOMAIN r.options \ {gone}
                              ELSE DOMAIN r.options
         /\ q.next = r.next
    BY <1>2
  <1>63. /\ gone \in here => q.graves[gone] = here
         /\ \A g \in DOMAIN r.graves :
              ~(gone \in here /\ g = gone) => q.graves[g] = r.graves[g]
    BY <1>2
  <1>7. \A o \in DOMAIN q.options :
          LET y == OptionOf(q, o)  z == OptionOf(r, o)
          IN /\ y \in OptionRecords /\ o \in DOMAIN r.options
             /\ y.short = z.short /\ y.long = z.long
             /\ y.case = z.case /\ y.under = z.under /\ y.parent = z.parent
             /\ y.needs \subseteq z.needs /\ y.excludes \subseteq z.excludes
             /\ o \in here => gone \notin y.needs \cup y.excludes
    <2> SUFFICES ASSUME NEW o \in DOMAIN q.options
                 PROVE  LET y == OptionOf(q, o)  z == OptionOf(r, o)
                        IN /\ y \in OptionRecords /\ o \in DOMAIN r.options
                           /\ y.short = z.short /\ y.long = z.long
                           /\ y.case = z.case /\ y.under = z.under
                           /\ y.parent = z.parent
                           /\ y.needs \subseteq z.needs
                           /\ y.excludes \subseteq z.excludes
                           /\ o \in here => gone \notin y.needs \cup y.excludes
      OBVIOUS
    <2>1. o \in DOMAIN r.options /\ OptionOf(r, o) \in OptionRecords
      BY <1>1, <1>2 DEF OptionOf
    <2>2. CASE o \in here
      <3>1. OptionOf(q, o) = Unlink(OptionOf(r, o), gone)
        BY <1>2, <2>2 DEF OptionOf
      <3> QED BY <2>1, <2>2, <3>1 DEF Unlink, OptionRecords
    <2>3. CASE o \notin here
      <3>1. OptionOf(q, o) = OptionOf(r, o)
        BY <1>2, <2>3 DEF OptionOf
      <3> QED BY <2>1, <2>3, <3>1
    <2> QED BY <2>2, <2>3
  <1>8. q.graves \in [DOMAIN q.graves -> SUBSET Nat]
        /\ DOMAIN q.graves = IF gone \in here THEN DOMAIN r.graves \cup {gone}
                             ELSE DOMAIN r.graves
    <2>1. here \subseteq Nat
      BY <1>3 DEF ToSet
    <2> QED BY <1>1, <1>2, <2>1
  <1>9. IsRegistry(q)
    <2>1. \A b \in DOMAIN q.apps : q.apps[b] \in AppRecords
      BY <1>1, <1>5, <1>6 DEF AppOf, x
    <2>2. q.apps \in [DOMAIN q.apps -> AppRecords]
      BY <1>1, <1>2, <2>1
    <2>3. q.options \in [DOMAIN q.options -> OptionRecords]
      <3>1. q.options = [o \in DOMAIN q.options |-> q.options[o]]
        BY <1>1 DEF q, RemoveOption, Drop
      <3> QED BY <1>7, <3>1 DEF OptionOf
    <2> QED BY <1>1, <1>2, <1>8, <2>2, <2>3 DEF IsRegistry
  <1>10. NumbersUsedOnce(q)
    BY <1>3, <1>5, <1>62, <1>8 DEF RegistrySound, NumbersUsedOnce
  <1>11. OptionsHeldOnce(q)
    <2>1. ASSUME NEW b \in DOMAIN r.apps
          PROVE  /\ ToSet(AppOf(q, b).options) \subseteq DOMAIN q.options
                 /\ \A c \in DOMAIN r.apps \ {b} :
                      ToSet(AppOf(q, b).options)
                        \cap ToSet(AppOf(q, c).options) = {}
      BY <1>61, <1>62 DEF RegistrySound, OptionsHeldOnce
    <2> QED BY <1>5, <1>61, <2>1 DEF OptionsHeldOnce
  <1>12. AppsHeldOnce(q, roots)
    BY <1>5, <1>61 DEF RegistrySound, AppsHeldOnce
  <1>13. LinksKnown(q)
    <2>1. \A o \in DOMAIN q.options :
            OptionOf(q, o).needs \cup OptionOf(q, o).excludes
              \subseteq DOMAIN q.options \cup DOMAIN q.graves
      BY <1>62, <1>7, <1>8 DEF RegistrySound, LinksKnown
    <2>2. \A b \in DOMAIN q.apps :
            AppOf(q, b).needApps \cup AppOf(q, b).excludeApps
              \subseteq DOMAIN q.apps \cup DOMAIN q.graves
      BY <1>5, <1>61, <1>8 DEF RegistrySound, LinksKnown
    <2> QED BY <2>1, <2>2 DEF LinksKnown
  <1>14. OptionsApart(q)
    <2> SUFFICES ASSUME NEW b \in DOMAIN r.apps,
                        NEW o \in ToSet(AppOf(q, b).options),
                        NEW p \in ToSet(AppOf(q, b).options), o # p,
                        OptionOf(q, o).parent = b, OptionOf(q, p).parent = b
                 PROVE  /\ \A n \in OptionOf(q, o).short :
                             ~TakesShort(OptionOf(q, p), n)
                        /\ \A n \in OptionOf(q, o).long :
                             ~TakesLong(OptionOf(q, p), n)
      BY <1>5 DEF OptionsApart
    <2>1. /\ o \in ToSet(AppOf(r, b).options) /\ o \in DOMAIN q.options
          /\ p \in ToSet(AppOf(r, b).options) /\ p \in DOMAIN q.options
      BY <1>5, <1>11, <1>61 DEF OptionsHeldOnce
    <2>2. /\ \A n \in OptionOf(r, o).short : ~TakesShort(OptionOf(r, p), n)
          /\ \A n \in OptionOf(r, o).long : ~TakesLong(OptionOf(r, p), n)
      BY <1>7, <2>1 DEF RegistrySound, OptionsApart
    <2>3. \A n : /\ TakesShort(OptionOf(q, p), n) <=> TakesShort(OptionOf(r, p), n)
                 /\ TakesLong(OptionOf(q, p), n) <=> TakesLong(OptionOf(r, p), n)
      BY <1>7, <2>1 DEF TakesShort, TakesLong
    <2> QED BY <1>7, <2>1, <2>2, <2>3
  <1>15. OptionLinksLive(q)
    <2> SUFFICES ASSUME NEW o \in DOMAIN q.options,
                        NEW p \in (OptionOf(q, o).needs
                                   \cup OptionOf(q, o).excludes)
                                  \ DOMAIN q.options
                 PROVE  o \notin q.graves[p]
      BY DEF OptionLinksLive
    <2>1. /\ o \in DOMAIN r.options
          /\ p \in OptionOf(r, o).needs \cup OptionOf(r, o).excludes
          /\ o \in here => p # gone
      BY <1>7
    <2>2. CASE gone \in here /\ p = gone
      BY <1>63, <2>1, <2>2
    <2>3. CASE ~(gone \in here /\ p = gone)
      <3>1. p \notin DOMAIN r.options
        BY <1>62, <2>3
      <3>2. p \in DOMAIN r.graves /\ o \notin r.graves[p]
        BY <2>1, <3>1 DEF RegistrySound, LinksKnown, OptionLinksLive
      <3> QED BY <1>63, <2>3, <3>2
    <2> QED BY <2>2, <2>3
  <1>16. AppLinksLive(q)
    <2>1. ASSUME NEW b \in DOMAIN r.apps,
                 NEW c \in (AppOf(r, b).needApps \cup AppOf(r, b).excludeApps)
                           \ DOMAIN r.apps
          PROVE  b \notin q.graves[c]
      <3>1. c \in DOMAIN r.graves /\ b \notin r.graves[c]
        BY <2>1 DEF RegistrySound, LinksKnown, AppLinksLive
      <3>2. ~(gone \in here /\ c = gone)
        BY <1>3, <3>1 DEF RegistrySound, NumbersUsedOnce
      <3> QED BY <1>63, <3>1, <3>2
    <2> QED BY <1>5, <1>61, <2>1 DEF RegistrySound, AppLinksLive
  <1>17. PointersLive(q)
    <2>1. ASSUME NEW b \in DOMAIN r.apps
          PROVE  {AppOf(q, b).help, AppOf(q, b).helpAll}
                   \subseteq ToSet(AppOf(q, b).options) \cup {0}
      <3>1. CASE b = a
        BY <1>6, <1>61, <3>1 DEF x, RegistrySound, PointersLive
      <3>2. CASE b # a
        BY <1>5, <3>2 DEF RegistrySound, PointersLive, AppOf
      <3> QED BY <3>1, <3>2
    <2> QED BY <1>5, <2>1 DEF PointersLive
  <1>18. OnlyApp(r, q, a)
    BY <1>5, <1>61 DEF OnlyApp, AppOf
  <1> QED BY <1>2, <1>6, <1>9, <1>10, <1>11, <1>12, <1>13, <1>14, <1>15, <1>16,
             <1>17, <1>18 DEF RegistrySound, q, x

(* Names that are alike stay alike where more is ignored; where nothing is *)
(* ignored only the same name is alike.                                    *)
LEMMA Coarser ==
  ASSUME NEW m \in Names, NEW n \in Names,
         NEW c1 \in BOOLEAN, NEW u1 \in BOOLEAN,
         NEW c2 \in BOOLEAN, NEW u2 \in BOOLEAN, c1 => c2, u1 => u2,
         Norm(c1, u1, m) = Norm(c1, u1, n)
  PROVE  Norm(c2, u2, m) = Norm(c2, u2, n)
  <1>1. \A k \in Names, c, u \in BOOLEAN :
          /\ Norm(c, u, k) \in Names /\ Norm(c, u, k).word = k.word
          /\ Norm(c, u, k).upper = (k.upper /\ ~c)
          /\ Norm(c, u, k).under = (k.under /\ ~u)
    BY DEF Norm, Names
  <1>2. \A j, k \in Names : j = k <=> /\ j.word = k.word
                                      /\ j.upper = k.upper
                                      /\ j.under = k.under
    BY DEF Names
  <1>3. /\ m.word = n.word
        /\ (m.upper /\ ~c1) <=> (n.upper /\ ~c1)
        /\ (m.under /\ ~u1) <=> (n.under /\ ~u1)
    <2>1. /\ Norm(c1, u1, m).word = m.word
          /\ Norm(c1, u1, m).upper = (m.upper /\ ~c1)
          /\ Norm(c1, u1, m).under = (m.under /\ ~u1)
      BY <1>1
    <2>2. /\ Norm(c1, u1, n).word = n.word
          /\ Norm(c1, u1, n).upper = (n.upper /\ ~c1)
          /\ Norm(c1, u1, n).under = (n.under /\ ~u1)
      BY <1>1
    <2> HIDE <1>1
    <2> QED BY <2>1, <2>2
  <1>4. /\ (m.upper /\ ~c2) = (n.upper /\ ~c2)
        /\ (m.under /\ ~u2) = (n.under /\ ~u2)
    BY <1>3
  <1> QED BY <1>1, <1>2, <1>3, <1>4

(* Where nothing is ignored, only the same name is alike.                  *)
LEMMA Exact ==
  ASSUME NEW m \in Names, NEW n \in Names,
         Norm(FALSE, FALSE, m) = Norm(FALSE, FALSE, n)
  PROVE  m = n
  <1>1. \A k \in Names : Norm(FALSE, FALSE, k) = k
    BY DEF Norm, Names
  <1> QED BY <1>1

(* An option that ignores less answers to fewer names.                     *)
LEMMA TakesLess ==
  ASSUME NEW x \in OptionRecords, NEW y \in OptionRecords, NEW n \in Names,
         x.short = y.short, x.long = y.long,
         x.case => y.case, x.under => y.under
  PROVE  /\ TakesShort(x, n) => TakesShort(y, n)
         /\ TakesLong(x, n) => TakesLong(y, n)
  <1>1. /\ x.short \subseteq Names /\ x.long \subseteq Names
        /\ x.case \in BOOLEAN /\ x.under \in BOOLEAN
        /\ y.case \in BOOLEAN /\ y.under \in BOOLEAN
    BY DEF OptionRecords
  <1>2. ASSUME TakesShort(x, n) PROVE TakesShort(y, n)
    <2>1. PICK m \in x.short : Norm(x.case, FALSE, m) = Norm(x.case, FALSE, n)
      BY <1>2 DEF TakesShort, Alike
    <2>2. Norm(y.case, FALSE, m) = Norm(y.case, FALSE, n)
      BY <1>1, <2>1, Coarser
    <2> QED BY <2>1, <2>2 DEF TakesShort, Alike
  <1>3. ASSUME TakesLong(x, n) PROVE TakesLong(y, n)
    <2>1. PICK m \in x.long : Norm(x.case, x.under, m) = Norm(x.case, x.under, n)
      BY <1>3 DEF TakesLong, Alike
    <2>2. Norm(y.case, y.under, m) = Norm(y.case, y.under, n)
      BY <1>1, <2>1, Coarser
    <2> QED BY <2>1, <2>2 DEF TakesLong, Alike
  <1> QED BY <1>2, <1>3

(* What matching_name says of two options that do not match.               *)
LEMMA NoMatch ==
  ASSUME NEW x \in OptionRecords, NEW y \in OptionRecords, ~Matches(x, y)
  PROVE  /\ \A n \in x.short : ~TakesShort(y, n)
         /\ \A n \in x.long : ~TakesLong(y, n)
         /\ \A n \in y.short : ~TakesShort(x, n)
         /\ \A n \in y.long : ~TakesLong(x, n)
  <1>1. /\ x.short \subseteq Names /\ x.long \subseteq Names
        /\ y.short \subseteq Names /\ y.long \subseteq Names
        /\ x.case \in BOOLEAN /\ x.under \in BOOLEAN
    BY DEF OptionRecords
  <1>2. /\ \A n \in x.short : ~TakesShort(y, n)
        /\ \A n \in x.long : ~TakesLong(y, n)
    BY DEF Matches
  <1>3. CASE x.case \/ x.under
    BY <1>2, <1>3 DEF Matches
  <1>4. CASE ~x.case /\ ~x.under
    <2>1. x.case = FALSE /\ x.under = FALSE
      BY <1>1, <1>4
    <2>2. ASSUME NEW n \in y.short, TakesShort(x, n) PROVE FALSE
      <3>1. PICK m \in x.short : Norm(FALSE, FALSE, m) = Norm(FALSE, FALSE, n)
        BY <2>1, <2>2 DEF TakesShort, Alike
      <3>2. m = n
        BY <1>1, <3>1, Exact
      <3>3. TakesShort(y, n)
        BY DEF TakesShort, Alike
      <3> QED BY <1>2, <3>2, <3>3
    <2>3. ASSUME NEW n \in y.long, TakesLong(x, n) PROVE FALSE
      <3>1. PICK m \in x.long : Norm(FALSE, FALSE, m) = Norm(FALSE, FALSE, n)
        BY <2>1, <2>3 DEF TakesLong, Alike
      <3>2. m = n
        BY <1>1, <3>1, Exact
      <3>3. TakesLong(y, n)
        BY DEF TakesLong, Alike
      <3> QED BY <1>2, <3>2, <3>3
    <2> QED BY <1>2, <2>2, <2>3
  <1> QED BY <1>3, <1>4

(* What an option may ignore.                                              *)
Fields == {"case", "under"}

(* Only the option o is changed, and stays with its app.                   *)
OnlyOption(r, q, o) ==
  /\ q.apps = r.apps /\ o \in DOMAIN q.options /\ q.made = r.made
  /\ q.threw \in {r.threw, TRUE}
  /\ OptionOf(q, o).parent = OptionOf(r, o).parent

(* ignore_case() and ignore_underscore() keep what they set only if the    *)
(* option matches none of its app.                                         *)
LEMMA IgnoreSound ==
  ASSUME NEW r, NEW roots, RegistrySound(r, roots), NEW o \in DOMAIN r.options,
         OptionOf(r, o).parent \in DOMAIN r.apps,
         NEW field \in Fields, NEW value \in BOOLEAN
  PROVE  LET q == Ignore(r, o, field, value)
         IN RegistrySound(q, roots) /\ OnlyOption(r, q, o)
  <1> DEFINE x == OptionOf(r, o)
             with == [x EXCEPT ![field] = value]
             q == Ignore(r, o, field, value)
  <1>1. /\ r \in [apps : {r.apps}, options : {r.options}, next : Nat,
                  graves : {r.graves}, made : Nat, threw : BOOLEAN]
        /\ r.options \in [DOMAIN r.options -> OptionRecords]
        /\ x \in OptionRecords
    BY DEF RegistrySound, IsRegistry, OptionOf
  <1>2. /\ with \in OptionRecords
        /\ with.parent = x.parent /\ with.needs = x.needs
        /\ with.excludes = x.excludes
        /\ with.short = x.short /\ with.long = x.long
        /\ with[field] = value
        /\ \A f \in Fields : f # field => with[f] = x[f]
    <2>1. CASE field = "case"
      BY <1>1, <2>1 DEF OptionRecords, Fields
    <2>2. CASE field = "under"
      BY <1>1, <2>2 DEF OptionRecords, Fields
    <2> QED BY <2>1, <2>2 DEF Fields
  <1>3. x[field] \in BOOLEAN
    BY <1>1 DEF OptionRecords, Fields
  <1> HIDE DEF with, x
  <1>4. CASE q = Throws(r)
    <2>1. Throws(r).made = r.made /\ Throws(r).threw = TRUE
      BY <1>1 DEF Throws
    <2> HIDE DEF q
    <2> QED BY <1>4, <2>1, ThrowsSound DEF OptionOf, OnlyOption, q
  <1>5. CASE q # Throws(r)
    <2>1. q = [r EXCEPT !.options[o] = with]
      BY <1>5 DEF Ignore, with, x
    <2>2. ASSUME NEW a \in DOMAIN r.apps, NEW p \in ToSet(AppOf(r, a).options),
                 p # o, o \in ToSet(AppOf(r, a).options),
                 with.parent = a, OptionOf(r, p).parent = a
          PROVE  /\ \A n \in with.short : ~TakesShort(OptionOf(r, p), n)
                 /\ \A n \in with.long : ~TakesLong(OptionOf(r, p), n)
                 /\ \A n \in OptionOf(r, p).short : ~TakesShort(with, n)
                 /\ \A n \in OptionOf(r, p).long : ~TakesLong(with, n)
      <3>1. OptionOf(r, p) \in OptionRecords
        BY <1>1 DEF RegistrySound, OptionsHeldOnce, OptionOf
      <3>2. CASE value /\ ~x[field]
        <4>1. ~Matches(OptionOf(r, p), with)
          BY <1>5, <2>2, <3>2 DEF Ignore, with, x
        <4> QED BY <1>2, <3>1, <4>1, NoMatch
      <3>3. CASE ~value \/ x[field]
        <4>1. value => x[field]
          BY <3>3
        <4>2. (with.case => x.case) /\ (with.under => x.under)
          BY <1>2, <4>1 DEF Fields
        <4>3. /\ \A n \in x.short : ~TakesShort(OptionOf(r, p), n)
              /\ \A n \in x.long : ~TakesLong(OptionOf(r, p), n)
              /\ \A n \in OptionOf(r, p).short : ~TakesShort(x, n)
              /\ \A n \in OptionOf(r, p).long : ~TakesLong(x, n)
          BY <1>2, <2>2 DEF RegistrySound, OptionsApart, x
        <4>4. OptionOf(r, p).short \subseteq Names
              /\ OptionOf(r, p).long \subseteq Names
          BY <3>1 DEF OptionRecords
        <4>5. \A n \in Names : /\ TakesShort(with, n) => TakesShort(x, n)
                               /\ TakesLong(with, n) => TakesLong(x, n)
          BY <1>1, <1>2, <4>2, TakesLess
        <4> QED BY <1>2, <4>3, <4>4, <4>5
      <3> QED BY <3>2, <3>3
    <2>3. RegistrySound(q, roots)
      BY <1>2, <2>1, <2>2, ChangeOption DEF x
    <2>4. /\ q.apps = r.apps /\ q.options = [r.options EXCEPT ![o] = with]
          /\ q.made = r.made /\ q.threw = r.threw
      BY <1>1, <2>1
    <2>5. OptionOf(q, o).parent = x.parent
      BY <1>1, <1>2, <2>4 DEF OptionOf
    <2> QED BY <1>1, <2>3, <2>4, <2>5 DEF x, OnlyOption
  <1> QED BY <1>4, <1>5

(* An option that matches none of those that are there comes at the end.   *)
Put(r, a, shape) ==
  [r EXCEPT !.apps[a].options = Append(@, r.next), !.next = r.next + 1,
            !.options = [o \in DOMAIN @ \cup {r.next} |->
                           IF o = r.next THEN Built(shape, a) ELSE @[o]],
            !.made = r.next]

(* An option put at the end of an app is owned by it alone.                *)
LEMMA PutSound ==
  ASSUME NEW r, NEW roots, RegistrySound(r, roots), NEW a \in DOMAIN r.apps,
         NEW shape \in Shapes,
         \A v \in ToSet(AppOf(r, a).options) :
           ~Matches(OptionOf(r, v), Built(shape, a))
  PROVE  LET q == Put(r, a, shape)
         IN /\ RegistrySound(q, roots) /\ OnlyApp(r, q, a)
            /\ q.threw = r.threw /\ q.made = r.next
            /\ r.next \in ToSet(AppOf(q, a).options)
            /\ OptionOf(q, r.next).parent = a
  <1> DEFINE q == Put(r, a, shape)
             id == r.next
             here == ToSet(AppOf(r, a).options)
             new == Built(shape, a)
             x == AppOf(q, a)
  <1>1. /\ r \in [apps : {r.apps}, options : {r.options}, next : Nat,
                  graves : {r.graves}, made : Nat, threw : BOOLEAN]
        /\ r.apps \in [DOMAIN r.apps -> AppRecords]
        /\ r.options \in [DOMAIN r.options -> OptionRecords]
        /\ r.graves \in [DOMAIN r.graves -> SUBSET Nat]
    BY DEF RegistrySound, IsRegistry
  <1>2. /\ q \in [apps : {q.apps}, options : {q.options}, next : {id + 1},
                  graves : {r.graves}, made : {id}, threw : {r.threw}]
        /\ q.apps = [r.apps EXCEPT ![a].options = Append(@, id)]
        /\ q.options = [o \in DOMAIN r.options \cup {id} |->
                          IF o = id THEN new ELSE r.options[o]]
    BY <1>1 DEF Put
  <1>3. /\ DOMAIN r.apps \cup DOMAIN r.options \cup DOMAIN r.graves
             \subseteq 1 .. (id - 1)
        /\ id \in Nat
        /\ (DOMAIN r.apps \cup DOMAIN r.graves) \cap DOMAIN r.options = {}
    BY <1>1 DEF RegistrySound, NumbersUsedOnce
  <1>4. id \notin DOMAIN r.apps \cup DOMAIN r.options \cup DOMAIN r.graves
    BY <1>3
  <1>41. /\ a \in Nat /\ id \in 1 .. id /\ 1 .. (id - 1) \subseteq 1 .. id
         /\ id + 1 - 1 = id /\ id + 1 \in Nat
    BY <1>3
  <1>5. /\ AppOf(r, a).options \in Seq(Nat) /\ IsInjective(AppOf(r, a).options)
        /\ AppOf(r, a) \in AppRecords
        /\ here \subseteq DOMAIN r.options
    BY <1>1 DEF AppOf, AppRecords, RegistrySound, OptionsHeldOnce
  <1>6. /\ Append(AppOf(r, a).options, id) \in Seq(Nat)
        /\ ToSet(Append(AppOf(r, a).options, id)) = here \cup {id}
        /\ IsInjective(Append(AppOf(r, a).options, id))
    BY <1>3, <1>4, <1>5, SetOfAppend
  <1>7. new \in OptionRecords /\ new.parent = a /\ new.needs = {}
        /\ new.excludes = {}
    BY <1>41 DEF Shapes, Built, OptionRecords
  <1> HIDE DEF q, new
  <1>8. /\ DOMAIN q.apps = DOMAIN r.apps
        /\ \A b \in DOMAIN r.apps : b # a => q.apps[b] = r.apps[b]
        /\ x = [AppOf(r, a) EXCEPT !.options = Append(@, id)]
    BY <1>1, <1>2, <1>5 DEF AppOf, AppRecords
  <1>9. /\ x \in AppRecords
        /\ x.options = Append(AppOf(r, a).options, id)
        /\ x.help = AppOf(r, a).help /\ x.helpAll = AppOf(r, a).helpAll
        /\ x.parent = AppOf(r, a).parent /\ x.subs = AppOf(r, a).subs
        /\ x.needApps = AppOf(r, a).needApps
        /\ x.excludeApps = AppOf(r, a).excludeApps
    <2> DEFINE y == AppOf(r, a)
               w == Append(AppOf(r, a).options, id)
    <2>1. y \in AppRecords /\ w \in Seq(Nat) /\ x = [y EXCEPT !.options = w]
      BY <1>5, <1>6, <1>8
    <2> HIDE DEF y, w, x
    <2>2. x \in AppRecords
      BY <2>1 DEF AppRecords
    <2>3. /\ x.options = w /\ x.help = y.help /\ x.helpAll = y.helpAll
          /\ x.parent = y.parent /\ x.subs = y.subs
          /\ x.needApps = y.needApps /\ x.excludeApps = y.excludeApps
      BY <2>1 DEF AppRecords
    <2> QED BY <2>2, <2>3 DEF y, w
  <1> HIDE DEF x
  <1>10. ASSUME NEW b \in DOMAIN r.apps
         PROVE  /\ AppOf(q, b).parent = AppOf(r, b).parent
                /\ AppOf(q, b).subs = AppOf(r, b).subs
                /\ AppOf(q, b).needApps = AppOf(r, b).needApps
                /\ AppOf(q, b).excludeApps = AppOf(r, b).excludeApps
                /\ AppOf(q, b).help = AppOf(r, b).help
                /\ AppOf(q, b).helpAll = AppOf(r, b).helpAll
                /\ IsInjective(AppOf(q, b).options)
                /\ ToSet(AppOf(q, b).options)
                     = IF b = a THEN here \cup {id}
                       ELSE ToSet(AppOf(r, b).options)
    <2>1. CASE b = a
      BY <1>6, <1>9, <2>1 DEF x
    <2>2. CASE b # a
      <3>1. AppOf(q, b) = AppOf(r, b)
        BY <1>8, <2>2 DEF AppOf
      <3> QED BY <2>2, <3>1 DEF RegistrySound, OptionsHeldOnce
    <2> QED BY <2>1, <2>2
  <1>11. /\ DOMAIN q.options = DOMAIN r.options \cup {id}
         /\ OptionOf(q, id) = new
         /\ \A o \in DOMAIN r.options : OptionOf(q, o) = OptionOf(r, o)
         /\ q.graves = r.graves /\ q.next = id + 1
    BY <1>2, <1>4 DEF OptionOf
  <1>12. IsRegistry(q)
    <2>1. \A b \in DOMAIN q.apps : q.apps[b] \in AppRecords
      BY <1>1, <1>8, <1>9 DEF AppOf, x
    <2>2. q.apps \in [DOMAIN q.apps -> AppRecords]
      BY <1>1, <1>2, <2>1
    <2>3. q.options \in [DOMAIN q.options -> OptionRecords]
      BY <1>1, <1>2, <1>7
    <2> QED BY <1>1, <1>2, <1>41, <2>2, <2>3 DEF IsRegistry
  <1>13. NumbersUsedOnce(q)
    BY <1>3, <1>4, <1>41, <1>8, <1>11 DEF NumbersUsedOnce
  <1>14. OptionsHeldOnce(q)
    <2>1. ASSUME NEW b \in DOMAIN r.apps
          PROVE  /\ ToSet(AppOf(q, b).options) \subseteq DOMAIN q.options
                 /\ \A c \in DOMAIN r.apps \ {b} :
                      ToSet(AppOf(q, b).options)
                        \cap ToSet(AppOf(q, c).options) = {}
      BY <1>4, <1>10, <1>11 DEF RegistrySound, OptionsHeldOnce
    <2> QED BY <1>8, <1>10, <2>1 DEF OptionsHeldOnce
  <1>15. AppsHeldOnce(q, roots)
    BY <1>8, <1>10 DEF RegistrySound, AppsHeldOnce
  <1>16. LinksKnown(q)
    <2>1. \A o \in DOMAIN q.options :
            OptionOf(q, o).needs \cup OptionOf(q, o).excludes
              \subseteq DOMAIN q.options \cup DOMAIN q.graves
      BY <1>7, <1>11 DEF RegistrySound, LinksKnown
    <2>2. \A b \in DOMAIN q.apps :
            AppOf(q, b).needApps \cup AppOf(q, b).excludeApps
              \subseteq DOMAIN q.apps \cup DOMAIN q.graves
      BY <1>8, <1>10, <1>11 DEF RegistrySound, LinksKnown
    <2> QED BY <2>1, <2>2 DEF LinksKnown
  <1>17. OptionsApart(q)
    <2> SUFFICES ASSUME NEW b \in DOMAIN r.apps,
                        NEW o \in ToSet(AppOf(q, b).options),
                        NEW p \in ToSet(AppOf(q, b).options), o # p,
                        OptionOf(q, o).parent = b, OptionOf(q, p).parent = b
                 PROVE  /\ \A n \in OptionOf(q, o).short :
                             ~TakesShort(OptionOf(q, p), n)
                        /\ \A n \in OptionOf(q, o).long :
                             ~TakesLong(OptionOf(q, p), n)
      BY <1>8 DEF OptionsApart
    <2>1. CASE o # id /\ p # id
      <3>1. /\ o \in ToSet(AppOf(r, b).options) /\ o \in DOMAIN r.options
            /\ p \in ToSet(AppOf(r, b).options) /\ p \in DOMAIN r.options
        BY <1>10, <2>1 DEF RegistrySound, OptionsHeldOnce
      <3> QED BY <1>11, <3>1 DEF RegistrySound, OptionsApart
    <2>2. ASSUME NEW v \in here
          PROVE  /\ \A n \in OptionOf(q, v).short : ~TakesShort(new, n)
                 /\ \A n \in OptionOf(q, v).long : ~TakesLong(new, n)
                 /\ \A n \in new.short : ~TakesShort(OptionOf(q, v), n)
                 /\ \A n \in new.long : ~TakesLong(OptionOf(q, v), n)
      <3>1. OptionOf(q, v) = OptionOf(r, v) /\ OptionOf(r, v) \in OptionRecords
        BY <1>1, <1>5, <1>11 DEF OptionOf
      <3>2. ~Matches(OptionOf(r, v), new)
        BY DEF new
      <3> QED BY <1>7, <3>1, <3>2, NoMatch
    <2>3. CASE o = id \/ p = id
      <3>1. b = a
        BY <1>4, <1>10, <2>3 DEF RegistrySound, OptionsHeldOnce
      <3>2. /\ o \in here \/ o = id
            /\ p \in here \/ p = id
        BY <1>10, <3>1
      <3>3. CASE o = id
        BY <1>11, <2>2, <3>2, <3>3
      <3>4. CASE p = id
        BY <1>11, <2>2, <3>2, <3>4
      <3> QED BY <2>3, <3>3, <3>4
    <2> QED BY <2>1, <2>3
  <1>18. OptionLinksLive(q)
    <2> SUFFICES ASSUME NEW o \in DOMAIN q.options,
                        NEW p \in (OptionOf(q, o).needs
                                   \cup OptionOf(q, o).excludes)
                                  \ DOMAIN q.options
                 PROVE  o \notin q.graves[p]
      BY DEF OptionLinksLive
    <2>1. o \in DOMAIN r.options /\ OptionOf(q, o) = OptionOf(r, o)
      BY <1>7, <1>11
    <2> QED BY <1>11, <2>1 DEF RegistrySound, OptionLinksLive
  <1>19. AppLinksLive(q)
    BY <1>8, <1>10, <1>11 DEF RegistrySound, AppLinksLive
  <1>20. PointersLive(q)
    BY <1>8, <1>10 DEF RegistrySound, PointersLive
  <1>21. OnlyApp(r, q, a)
    BY <1>8, <1>10 DEF OnlyApp, AppOf
  <1> QED BY <1>2, <1>7, <1>10, <1>11, <1>12, <1>13, <1>14, <1>15, <1>16, <1>17,
             <1>18, <1>19, <1>20, <1>21 DEF RegistrySound, q

(* add_option() refuses an option that matches one of the app.             *)
LEMMA AddOptionSound ==
  ASSUME NEW r, NEW roots, RegistrySound(r, roots), NEW a \in DOMAIN r.apps,
         NEW shape \in Shapes
  PROVE  LET q == AddOption(r, a, shape)
         IN /\ RegistrySound(q, roots) /\ OnlyApp(r, q, a)
            /\ ~q.threw => q.made \in ToSet(AppOf(q, a).options)
  <1> DEFINE q == AddOption(r, a, shape)
             put == Put(r, a, shape)
             id == r.next
             d == AppOf(put, a).defaults
             c == d.case
             u == d.under
             case == "case"
             under == "under"
             cased == Ignore(put, id, case, c)
             both == Ignore(cased, id, under, u)
  <1>1. CASE q = Throws(r)
    <2> HIDE DEF q
    <2>1. RegistrySound(q, roots) /\ q.apps = r.apps /\ q.threw = TRUE
      BY <1>1, ThrowsSound
    <2>2. OnlyApp(r, q, a)
      BY <2>1 DEF OnlyApp, AppOf
    <2> QED BY <2>1, <2>2 DEF q
  <1>2. CASE q # Throws(r)
    <2>1. \A v \in ToSet(AppOf(r, a).options) :
            ~Matches(OptionOf(r, v), Built(shape, a))
      BY <1>2 DEF AddOption
    <2>2. q = CopyDefaults(put, a, id)
      BY <1>2 DEF AddOption, Put
    <2>3. q = IF cased.threw THEN cased ELSE both
      BY <2>2 DEF CopyDefaults
    <2>4. /\ RegistrySound(put, roots) /\ OnlyApp(r, put, a)
          /\ put.made = id /\ id \in ToSet(AppOf(put, a).options)
          /\ OptionOf(put, id).parent = a
      BY <2>1, PutSound
    <2>5. a \in DOMAIN put.apps /\ id \in DOMAIN put.options
      BY <2>4 DEF OnlyApp, RegistrySound, OptionsHeldOnce
    <2>6. c \in BOOLEAN /\ u \in BOOLEAN
      BY <2>4, <2>5 DEF RegistrySound, IsRegistry, AppOf, AppRecords
    <2> HIDE DEF q, put, d, c, u
    <2>7. case \in Fields /\ under \in Fields
      BY DEF Fields
    <2> HIDE DEF case, under, id
    <2>71. RegistrySound(put, roots) /\ OptionOf(put, id).parent \in DOMAIN put.apps
      BY <2>4, <2>5
    <2>8. RegistrySound(cased, roots) /\ OnlyOption(put, cased, id)
      BY <2>5, <2>6, <2>7, <2>71, IgnoreSound
    <2>81. /\ cased.apps = put.apps /\ cased.made = put.made
           /\ id \in DOMAIN cased.options
           /\ OptionOf(cased, id).parent \in DOMAIN cased.apps
      BY <2>71, <2>8 DEF OnlyOption
    <2> HIDE DEF cased
    <2>82. RegistrySound(both, roots) /\ OnlyOption(cased, both, id)
      BY <2>6, <2>7, <2>8, <2>81, IgnoreSound
    <2>9. both.apps = cased.apps /\ both.made = cased.made
      BY <2>82 DEF OnlyOption
    <2> HIDE DEF both
    <2>10. RegistrySound(q, roots) /\ q.apps = put.apps /\ q.made = id
      BY <2>3, <2>4, <2>8, <2>81, <2>82, <2>9
    <2>11. OnlyApp(r, q, a)
      BY <2>4, <2>10 DEF OnlyApp, AppOf
    <2>12. q.made \in ToSet(AppOf(q, a).options)
      BY <2>4, <2>10 DEF AppOf
    <2> QED BY <2>10, <2>11, <2>12 DEF q
  <1> QED BY <1>1, <1>2

(* _add_flag_internal() removes the flag that it refuses to leave.         *)
LEMMA AddFlagSound ==
  ASSUME NEW r, NEW roots, RegistrySound(r, roots), NEW a \in DOMAIN r.apps,
         NEW shape \in Shapes
  PROVE  LET q == AddFlag(r, a, shape)
         IN /\ RegistrySound(q, roots) /\ OnlyApp(r, q, a)
            /\ ~q.threw => q.made \in ToSet(AppOf(q, a).options)
  <1> DEFINE q == AddFlag(r, a, shape)
             added == AddOption(r, a, shape)
             back == RemoveOption(added, a, added.made)
  <1>1. /\ RegistrySound(added, roots) /\ OnlyApp(r, added, a)
        /\ ~added.threw => added.made \in ToSet(AppOf(added, a).options)
    BY AddOptionSound
  <1>2. q = IF ~added.threw /\ shape.pos # NoName THEN Throws(back) ELSE added
    BY DEF AddFlag, NotPositional
  <1> HIDE DEF q, added
  <1>3. a \in DOMAIN added.apps
    BY <1>1 DEF OnlyApp
  <1>4. RegistrySound(back, roots) /\ OnlyApp(added, back, a)
    BY <1>1, <1>3, RemoveOptionSound
  <1> HIDE DEF back
  <1>5. /\ RegistrySound(Throws(back), roots) /\ Throws(back).threw = TRUE
        /\ Throws(back).apps = back.apps
    BY <1>4, ThrowsSound
  <1>6. OnlyApp(r, Throws(back), a)
    BY <1>1, <1>4, <1>5 DEF OnlyApp, AppOf
  <1> QED BY <1>1, <1>2, <1>5, <1>6 DEF q

(* The pointers of an app to its flags.                                    *)
Pointers == {"help", "helpAll", "version", "config"}

(* An app changed in what neither holds nor links anything.                *)
Changed(r, a, x) == [r EXCEPT !.apps[a] = x]

(* An app that keeps its place is all that changes.                        *)
LEMMA ChangedOnly ==
  ASSUME NEW r, NEW roots, RegistrySound(r, roots), NEW a \in DOMAIN r.apps,
         NEW x, SamePlace(x, AppOf(r, a))
  PROVE  /\ OnlyApp(r, Changed(r, a, x), a)
         /\ AppOf(Changed(r, a, x), a) = x
         /\ Changed(r, a, x).options = r.options
         /\ Changed(r, a, x).made = r.made
         /\ Changed(r, a, x).threw = r.threw
  <1> DEFINE q == Changed(r, a, x)
  <1>1. /\ r \in [apps : {r.apps}, options : {r.options}, next : Nat,
                  graves : {r.graves}, made : Nat, threw : BOOLEAN]
        /\ r.apps \in [DOMAIN r.apps -> AppRecords]
    BY DEF RegistrySound, IsRegistry
  <1>2. /\ q.apps = [r.apps EXCEPT ![a] = x]
        /\ q.options = r.options /\ q.made = r.made /\ q.threw = r.threw
    BY <1>1 DEF Changed
  <1> HIDE DEF q
  <1>3. /\ DOMAIN q.apps = DOMAIN r.apps
        /\ AppOf(q, a) = x
        /\ \A b \in DOMAIN r.apps : b # a => AppOf(q, b) = AppOf(r, b)
    BY <1>1, <1>2 DEF AppOf
  <1> QED BY <1>2, <1>3 DEF OnlyApp, SamePlace, q

(* A pointer may be set to none, or to an option of the app.               *)
LEMMA SetPointer ==
  ASSUME NEW r, NEW roots, RegistrySound(r, roots), NEW a \in DOMAIN r.apps,
         NEW field \in Pointers, NEW v \in ToSet(AppOf(r, a).options) \cup {0}
  PROVE  LET q == [r EXCEPT !.apps[a][field] = v]
         IN /\ RegistrySound(q, roots) /\ OnlyApp(r, q, a)
            /\ q.options = r.options
            /\ AppOf(q, a).options = AppOf(r, a).options
            /\ q.made = r.made /\ q.threw = r.threw
  <1> DEFINE y == AppOf(r, a)
             x == [y EXCEPT ![field] = v]
             q == Changed(r, a, x)
  <1>1. /\ r \in [apps : {r.apps}, options : {r.options}, next : Nat,
                  graves : {r.graves}, made : Nat, threw : BOOLEAN]
        /\ r.apps \in [DOMAIN r.apps -> AppRecords]
        /\ y \in AppRecords
    BY DEF RegistrySound, IsRegistry, AppOf
  <1>2. v \in Nat
    <2>1. y.options \in Seq(Nat)
      BY <1>1 DEF AppRecords
    <2>2. ToSet(y.options) \subseteq Nat
      <3> DEFINE s == y.options
      <3>1. s \in Seq(Nat)
        BY <2>1
      <3> HIDE DEF s
      <3>2. ToSet(s) \subseteq Nat
        BY <3>1 DEF ToSet
      <3> QED BY <3>2 DEF s
    <2> QED BY <2>2
  <1>3. {y.help, y.helpAll} \subseteq ToSet(y.options) \cup {0}
    BY DEF RegistrySound, PointersLive
  <1>4. [r EXCEPT !.apps[a][field] = v] = q
    BY <1>1 DEF Changed, AppOf
  <1>5. v \in ToSet(y.options) \cup {0}
    OBVIOUS
  <1> HIDE DEF y
  <1>6. /\ x \in AppRecords
        /\ x.options = y.options /\ x.parent = y.parent /\ x.subs = y.subs
        /\ x.needApps = y.needApps /\ x.excludeApps = y.excludeApps
        /\ x.help \in {y.help, v} /\ x.helpAll \in {y.helpAll, v}
    <2>1. CASE field = "help"
      BY <1>1, <1>2, <2>1 DEF AppRecords
    <2>2. CASE field = "helpAll"
      BY <1>1, <1>2, <2>2 DEF AppRecords
    <2>3. CASE field = "version"
      BY <1>1, <1>2, <2>3 DEF AppRecords
    <2>4. CASE field = "config"
      BY <1>1, <1>2, <2>4 DEF AppRecords
    <2> QED BY <2>1, <2>2, <2>3, <2>4 DEF Pointers
  <1> HIDE DEF x
  <1>7. {x.help, x.helpAll} \subseteq ToSet(x.options) \cup {0}
    BY <1>3, <1>5, <1>6
  <1>8. SamePlace(x, AppOf(r, a))
    BY <1>6 DEF SamePlace, y
  <1>9. RegistrySound(q, roots)
    BY <1>6, <1>7, <1>8, ChangeApp DEF Changed
  <1>10. /\ OnlyApp(r, q, a) /\ AppOf(q, a) = x
         /\ q.options = r.options /\ q.made = r.made /\ q.threw = r.threw
    BY <1>8, ChangedOnly
  <1> HIDE DEF q
  <1> QED BY <1>4, <1>6, <1>9, <1>10 DEF y

(* The flag that a pointer points to is removed before another one is set. *)
LEMMA ClearedSound ==
  ASSUME NEW r, NEW roots, RegistrySound(r, roots), NEW a \in DOMAIN r.apps,
         NEW field \in Pointers
  PROVE  LET q == Cleared(r, a, field)
         IN RegistrySound(q, roots) /\ OnlyApp(r, q, a) /\ q.threw = r.threw
  <1> DEFINE q == Cleared(r, a, field)
             old == AppOf(r, a)[field]
             less == RemoveOption(r, a, old)
             z == [less EXCEPT !.apps[a][field] = 0]
  <1>1. q = IF old = 0 THEN r ELSE z
    BY DEF Cleared
  <1>2. RegistrySound(less, roots) /\ OnlyApp(r, less, a) /\ less.threw = r.threw
    BY RemoveOptionSound
  <1> HIDE DEF q, less
  <1>3. a \in DOMAIN less.apps
    BY <1>2 DEF OnlyApp
  <1>4. RegistrySound(z, roots) /\ OnlyApp(less, z, a) /\ z.threw = less.threw
    BY <1>2, <1>3, SetPointer
  <1> HIDE DEF z
  <1>5. OnlyApp(r, z, a)
    BY <1>2, <1>4, OnlyAppTransitive
  <1>6. OnlyApp(r, r, a)
    BY DEF OnlyApp
  <1> QED BY <1>1, <1>2, <1>4, <1>5, <1>6 DEF q

(* The pointer points to the option that the last step made.               *)
LEMMA PointAtSound ==
  ASSUME NEW r, NEW roots, RegistrySound(r, roots), NEW a \in DOMAIN r.apps,
         NEW field \in Pointers,
         ~r.threw => r.made \in ToSet(AppOf(r, a).options)
  PROVE  LET q == PointAt(r, a, field)
         IN RegistrySound(q, roots) /\ OnlyApp(r, q, a)
  <1> DEFINE q == PointAt(r, a, field)
             o == r.made
             s == [r EXCEPT !.apps[a][field] = r.made]
             x == [OptionOf(s, o) EXCEPT !.configurable = FALSE]
             z == [s EXCEPT !.options[o] = x]
  <1>1. CASE r.threw
    <2>1. q = r
      BY <1>1 DEF PointAt
    <2> QED BY <2>1 DEF OnlyApp
  <1>2. CASE ~r.threw
    <2>1. q = [r EXCEPT !.apps[a][field] = r.made,
                        !.options[r.made].configurable = FALSE]
      BY <1>2 DEF PointAt
    <2>2. /\ r \in [apps : {r.apps}, options : {r.options}, next : Nat,
                    graves : {r.graves}, made : Nat, threw : BOOLEAN]
          /\ r.options \in [DOMAIN r.options -> OptionRecords]
          /\ o \in DOMAIN r.options
      BY <1>2 DEF RegistrySound, IsRegistry, OptionsHeldOnce
    <2>3. q = z
      BY <2>1, <2>2 DEF OptionOf
    <2>4. /\ RegistrySound(s, roots) /\ OnlyApp(r, s, a)
          /\ s.options = r.options
      BY <1>2, SetPointer
    <2> HIDE DEF q, s
    <2>5. o \in DOMAIN s.options /\ OptionOf(s, o) \in OptionRecords
      BY <2>2, <2>4 DEF OptionOf
    <2>6. /\ x \in OptionRecords
          /\ x.parent = OptionOf(s, o).parent
          /\ x.needs = OptionOf(s, o).needs
          /\ x.excludes = OptionOf(s, o).excludes
          /\ x.short = OptionOf(s, o).short /\ x.long = OptionOf(s, o).long
          /\ x.case = OptionOf(s, o).case /\ x.under = OptionOf(s, o).under
      BY <2>5 DEF OptionRecords
    <2> HIDE DEF x
    <2>7. ASSUME NEW b \in DOMAIN s.apps, NEW p \in ToSet(AppOf(s, b).options),
                 p # o, o \in ToSet(AppOf(s, b).options),
                 x.parent = b, OptionOf(s, p).parent = b
          PROVE  /\ \A n \in x.short : ~TakesShort(OptionOf(s, p), n)
                 /\ \A n \in x.long : ~TakesLong(OptionOf(s, p), n)
                 /\ \A n \in OptionOf(s, p).short : ~TakesShort(x, n)
                 /\ \A n \in OptionOf(s, p).long : ~TakesLong(x, n)
      <3>1. /\ \A n \in OptionOf(s, o).short : ~TakesShort(OptionOf(s, p), n)
            /\ \A n \in OptionOf(s, o).long : ~TakesLong(OptionOf(s, p), n)
            /\ \A n \in OptionOf(s, p).short : ~TakesShort(OptionOf(s, o), n)
            /\ \A n \in OptionOf(s, p).long : ~TakesLong(OptionOf(s, o), n)
        BY <2>4, <2>6, <2>7 DEF RegistrySound, OptionsApart
      <3>2. \A n : /\ TakesShort(x, n) <=> TakesShort(OptionOf(s, o), n)
                   /\ TakesLong(x, n) <=> TakesLong(OptionOf(s, o), n)
        BY <2>6 DEF TakesShort, TakesLong
      <3> QED BY <2>6, <3>1, <3>2
    <2>8. RegistrySound(z, roots)
      BY <2>4, <2>5, <2>6, <2>7, ChangeOption
    <2>9. z.apps = s.apps
      <3>1. s \in [apps : {s.apps}, options : {s.options}, next : Nat,
                   graves : {s.graves}, made : Nat, threw : BOOLEAN]
        BY <2>4 DEF RegistrySound, IsRegistry
      <3> QED BY <3>1
    <2> HIDE DEF z
    <2>10. OnlyApp(r, z, a)
      BY <2>4, <2>9 DEF OnlyApp, AppOf
    <2> QED BY <2>3, <2>8, <2>10 DEF q
  <1> QED BY <1>1, <1>2

(* set_help_flag(), set_help_all_flag(), set_version_flag() and            *)
(* set_config() remove, add and point, in that order.                      *)
LEMMA PointSound ==
  ASSUME NEW r, NEW roots, RegistrySound(r, roots), NEW a \in DOMAIN r.apps,
         NEW field \in Pointers, NEW shape \in Shapes
  PROVE  LET q == Point(r, a, field, shape)
         IN RegistrySound(q, roots) /\ OnlyApp(r, q, a)
  <1> DEFINE q == Point(r, a, field, shape)
             c == Cleared(r, a, field)
             option == AddOption(c, a, shape)
             flag == AddFlag(c, a, shape)
             added == IF field = "config" THEN option ELSE flag
             z == PointAt(added, a, field)
  <1>1. q = IF shape = Unnamed THEN c ELSE z
    BY DEF Point
  <1>2. RegistrySound(c, roots) /\ OnlyApp(r, c, a)
    BY ClearedSound
  <1> HIDE DEF q, c
  <1>3. a \in DOMAIN c.apps
    BY <1>2 DEF OnlyApp
  <1>4. /\ RegistrySound(option, roots) /\ OnlyApp(c, option, a)
        /\ ~option.threw => option.made \in ToSet(AppOf(option, a).options)
    BY <1>2, <1>3, AddOptionSound
  <1>5. /\ RegistrySound(flag, roots) /\ OnlyApp(c, flag, a)
        /\ ~flag.threw => flag.made \in ToSet(AppOf(flag, a).options)
    BY <1>2, <1>3, AddFlagSound
  <1> HIDE DEF option, flag
  <1>6. /\ RegistrySound(added, roots) /\ OnlyApp(c, added, a)
        /\ ~added.threw => added.made \in ToSet(AppOf(added, a).options)
    BY <1>4, <1>5
  <1> HIDE DEF added
  <1>7. a \in DOMAIN added.apps
    BY <1>3, <1>6 DEF OnlyApp
  <1>8. RegistrySound(z, roots) /\ OnlyApp(added, z, a)
    BY <1>6, <1>7, PointAtSound
  <1> HIDE DEF z
  <1>9. OnlyApp(r, z, a)
    BY <1>2, <1>6, <1>8, OnlyAppTransitive
  <1> QED BY <1>1, <1>2, <1>8, <1>9 DEF q

(* The options of an app and its groups are options of the registry.       *)
LEMMA OptionsInTyped ==
  ASSUME NEW r, NEW roots, RegistrySound(r, roots), NEW a \in DOMAIN r.apps
  PROVE  OptionsIn(r, a) \in Seq(DOMAIN r.options)
  <1> DEFINE A == DOMAIN r.apps
             S == Seq(DOMAIN r.options)
             X == [A -> S]
             Named(s) == AppOf(r, s).name # NoName
             Own(x) == AppOf(r, x).options
             Kids(x) == AppOf(r, x).subs
             Below(g, x) == [i \in DOMAIN Kids(x) |->
                               IF Named(Kids(x)[i]) THEN <<>> ELSE g[Kids(x)[i]]]
             Level(g) == [x \in A |-> Own(x) \o FlattenSeq(Below(g, x))]
             Ends(x) == [i \in DOMAIN Kids(x) |-> <<>>]
             first == [x \in A |-> Own(x) \o FlattenSeq(Ends(x))]
             step == [n \in Nat |-> [g \in X |-> Level(g)]]
             n0 == Cardinality(A)
  <1>1. n0 \in Nat
    <2>1. r.next - 1 \in Int /\ A \subseteq 1 .. (r.next - 1)
      BY DEF RegistrySound, IsRegistry, NumbersUsedOnce
    <2>2. IsFiniteSet(1 .. (r.next - 1))
      BY <2>1, FS_Interval
    <2> QED BY <2>1, <2>2, FS_Subset, FS_CardinalityType
  <1>2. ASSUME NEW x \in A
        PROVE  /\ Own(x) \in S /\ Kids(x) \in Seq(A)
               /\ DOMAIN Kids(x) = 1 .. Len(Kids(x)) /\ Len(Kids(x)) \in Nat
    <2>1. AppOf(r, x).options \in Seq(Nat) /\ AppOf(r, x).subs \in Seq(Nat)
      BY DEF RegistrySound, IsRegistry, AppRecords, AppOf
    <2>2. ToSet(Own(x)) \subseteq DOMAIN r.options /\ ToSet(Kids(x)) \subseteq A
      BY DEF RegistrySound, OptionsHeldOnce, AppsHeldOnce
    <2>3. \A T : \A s \in Seq(Nat) : ToSet(s) \subseteq T => s \in Seq(T)
      BY DEF ToSet
    <2>4. \A s \in Seq(A) : DOMAIN s = 1 .. Len(s) /\ Len(s) \in Nat
      OBVIOUS
    <2>5. Own(x) \in Seq(Nat) /\ Kids(x) \in Seq(Nat)
      BY <2>1
    <2> HIDE DEF Own, Kids, A
    <2>6. Own(x) \in S /\ Kids(x) \in Seq(A)
      BY <2>2, <2>3, <2>5
    <2> QED BY <2>4, <2>6
  <1> HIDE DEF Own, Kids, A
  <1>3. ASSUME NEW g \in X, NEW x \in A
        PROVE  Own(x) \o FlattenSeq(Below(g, x)) \in S
    <2>1. \A i \in DOMAIN Kids(x) : Below(g, x)[i] \in S
      <3>1. \A i \in 1 .. Len(Kids(x)) : Kids(x)[i] \in A
        BY <1>2
      <3>2. <<>> \in S /\ \A k \in A : g[k] \in S
        OBVIOUS
      <3> HIDE DEF S, X
      <3> QED BY <1>2, <3>1, <3>2
    <2>2. Below(g, x) \in Seq(S)
      <3> DEFINE b == Below(g, x)
                 n == Len(Kids(x))
      <3>1. n \in Nat /\ b \in [1 .. n -> S]
        BY <1>2, <2>1
      <3> HIDE DEF b, n, S
      <3>2. b \in Seq(S)
        BY <3>1
      <3> QED BY <3>2 DEF b
    <2>3. FlattenSeq(Below(g, x)) \in S
      BY <2>2, FlattenIsSeq
    <2> HIDE DEF Below
    <2> QED BY <1>2, <2>3, ConcatProperties
  <1>4. ASSUME NEW x \in A PROVE Own(x) \o FlattenSeq(Ends(x)) \in S
    <2>1. Ends(x) \in Seq(S)
      <3> DEFINE b == Ends(x)
                 n == Len(Kids(x))
      <3>1. n \in Nat /\ b \in [1 .. n -> S]
        BY <1>2
      <3> HIDE DEF b, n, S
      <3>2. b \in Seq(S)
        BY <3>1
      <3> QED BY <3>2 DEF b
    <2>2. FlattenSeq(Ends(x)) \in S
      BY <2>1, FlattenIsSeq
    <2> HIDE DEF Ends
    <2> QED BY <1>2, <2>2, ConcatProperties
  <1>5. first \in X /\ step \in [Nat -> [X -> X]]
    <2> HIDE DEF Below, Ends, S
    <2> QED BY <1>3, <1>4
  <1>6. PICK f \in [Nat -> X] : Follows(f, first, step)
    <2> HIDE DEF X, first, step
    <2> QED BY <1>5, RecursionExists
  <1> DEFINE Whole(w) ==
        [n \in Nat |->
           [x \in A |->
              Own(x) \o FlattenSeq(
                [i \in DOMAIN Kids(x) |->
                   IF n = 0 \/ Named(Kids(x)[i]) THEN <<>>
                   ELSE w[n - 1][Kids(x)[i]]])]]
        within == CHOOSE w : w = Whole(w)
  <1>7. OptionsIn(r, a) = within[n0][a]
    BY DEF OptionsIn, Own, Kids, A
  <1>8. f = Whole(f)
    <2>1. f[0] = Whole(f)[0]
      <3>1. ASSUME NEW x \in A
            PROVE  [i \in DOMAIN Kids(x) |->
                      IF 0 = 0 \/ Named(Kids(x)[i]) THEN <<>>
                      ELSE f[0 - 1][Kids(x)[i]]] = Ends(x)
        OBVIOUS
      <3>2. f[0] = first
        BY <1>6 DEF Follows
      <3>3. Whole(f)[0] =
              [x \in A |-> Own(x) \o FlattenSeq(
                 [i \in DOMAIN Kids(x) |->
                    IF 0 = 0 \/ Named(Kids(x)[i]) THEN <<>>
                    ELSE f[0 - 1][Kids(x)[i]]])]
        OBVIOUS
      <3> HIDE DEF Ends, Whole
      <3> QED BY <3>1, <3>2, <3>3
    <2>2. ASSUME NEW n \in Nat PROVE f[n + 1] = Whole(f)[n + 1]
      <3>1. n + 1 \in Nat /\ (n + 1) - 1 = n /\ n + 1 # 0
        OBVIOUS
      <3>2. f[n] \in X /\ f[n + 1] = step[n][f[n]]
        BY <1>6 DEF Follows
      <3>3. step[n][f[n]] = Level(f[n])
        <4> HIDE DEF Level, X
        <4> QED BY <3>2
      <3>4. ASSUME NEW x \in A
            PROVE  [i \in DOMAIN Kids(x) |->
                      IF n + 1 = 0 \/ Named(Kids(x)[i]) THEN <<>>
                      ELSE f[(n + 1) - 1][Kids(x)[i]]] = Below(f[n], x)
        BY <3>1
      <3>5. Whole(f)[n + 1] =
              [x \in A |-> Own(x) \o FlattenSeq(
                 [i \in DOMAIN Kids(x) |->
                    IF n + 1 = 0 \/ Named(Kids(x)[i]) THEN <<>>
                    ELSE f[(n + 1) - 1][Kids(x)[i]]])]
        BY <3>1
      <3> HIDE DEF Below, Whole, X, step
      <3> QED BY <3>2, <3>3, <3>4, <3>5
    <2>3. \A n \in Nat : f[n] = Whole(f)[n]
      <3> DEFINE T == {n \in Nat : f[n] = Whole(f)[n]}
      <3> HIDE DEF Whole
      <3>1. 0 \in T /\ \A n \in T : n + 1 \in T
        BY <2>1, <2>2
      <3>2. T \in SUBSET Nat
        OBVIOUS
      <3> HIDE DEF T
      <3>3. T = Nat
        BY <3>1, <3>2, Induction
      <3> QED BY <3>3 DEF T
    <2>4. DOMAIN f = Nat /\ f = [n \in Nat |-> f[n]]
      BY <1>6
    <2>5. Whole(f) = [n \in Nat |-> Whole(f)[n]]
      OBVIOUS
    <2> HIDE DEF Whole
    <2> QED BY <2>3, <2>4, <2>5
  <1>9. within = Whole(within)
    <2> HIDE DEF Whole
    <2> QED BY <1>8
  <1> HIDE DEF within
  <1>10. \A n \in Nat : within[n] \in X
    <2>1. within[0] \in X
      <3>1. within[0] = first
        <4>1. within[0] = Whole(within)[0]
          <5> HIDE DEF Whole
          <5> QED BY <1>9
        <4>2. ASSUME NEW x \in A
              PROVE  [i \in DOMAIN Kids(x) |->
                        IF 0 = 0 \/ Named(Kids(x)[i]) THEN <<>>
                        ELSE within[0 - 1][Kids(x)[i]]] = Ends(x)
          OBVIOUS
        <4>3. Whole(within)[0] =
                [x \in A |-> Own(x) \o FlattenSeq(
                   [i \in DOMAIN Kids(x) |->
                      IF 0 = 0 \/ Named(Kids(x)[i]) THEN <<>>
                      ELSE within[0 - 1][Kids(x)[i]]])]
          OBVIOUS
        <4> HIDE DEF Ends, Whole
        <4> QED BY <4>1, <4>2, <4>3
      <3> QED BY <1>5, <3>1
    <2>2. ASSUME NEW n \in Nat, within[n] \in X PROVE within[n + 1] \in X
      <3>1. n + 1 \in Nat /\ (n + 1) - 1 = n /\ n + 1 # 0
        OBVIOUS
      <3>2. within[n + 1] = Whole(within)[n + 1]
        <4> HIDE DEF Whole
        <4> QED BY <1>9
      <3>3. ASSUME NEW x \in A
            PROVE  [i \in DOMAIN Kids(x) |->
                      IF n + 1 = 0 \/ Named(Kids(x)[i]) THEN <<>>
                      ELSE within[(n + 1) - 1][Kids(x)[i]]]
                    = Below(within[n], x)
        BY <3>1
      <3>4. Whole(within)[n + 1] =
              [x \in A |-> Own(x) \o FlattenSeq(
                 [i \in DOMAIN Kids(x) |->
                    IF n + 1 = 0 \/ Named(Kids(x)[i]) THEN <<>>
                    ELSE within[(n + 1) - 1][Kids(x)[i]]])]
        BY <3>1
      <3> HIDE DEF Below, Whole
      <3>5. within[n + 1] = Level(within[n])
        BY <3>2, <3>3, <3>4
      <3> QED BY <1>3, <2>2, <3>5
    <2> DEFINE T == {n \in Nat : within[n] \in X}
    <2> HIDE DEF X
    <2>3. 0 \in T /\ \A n \in T : n + 1 \in T
      BY <2>1, <2>2
    <2>4. T \in SUBSET Nat
      OBVIOUS
    <2> HIDE DEF T
    <2>5. T = Nat
      BY <2>3, <2>4, Induction
    <2> QED BY <2>5 DEF T
  <1>11. within[n0] \in X /\ a \in A
    BY <1>1, <1>10 DEF A
  <1> HIDE DEF S
  <1> QED BY <1>7, <1>11 DEF S

(* All the names of an option are names.                                   *)
LEMMA AllNamesShape ==
  ASSUME NEW o \in OptionRecords
  PROVE  AllNames(o) \in Shapes
  BY DEF AllNames, OptionRecords, Shapes

(* retire_option() by its option: a stand-in is added for it, or put in    *)
(* its place.                                                              *)
LEMMA RetireOptionSound ==
  ASSUME NEW r, NEW roots, RegistrySound(r, roots), NEW a \in DOMAIN r.apps,
         NEW o \in DOMAIN r.options
  PROVE  LET q == RetireOption(r, a, o)
         IN RegistrySound(q, roots) /\ OnlyApp(r, q, a)
  <1> DEFINE less == RemoveOption(r, a, o)
             shape == AllNames(OptionOf(r, o))
             q == AddOption(less, a, shape)
  <1>1. RegistrySound(less, roots) /\ OnlyApp(r, less, a)
    BY RemoveOptionSound
  <1>2. shape \in Shapes
    BY AllNamesShape DEF RegistrySound, IsRegistry, OptionOf
  <1>3. RetireOption(r, a, o) = q
    BY DEF RetireOption
  <1> HIDE DEF less, shape
  <1>4. a \in DOMAIN less.apps
    BY <1>1 DEF OnlyApp
  <1>5. RegistrySound(q, roots) /\ OnlyApp(less, q, a)
    BY <1>1, <1>2, <1>4, AddOptionSound
  <1> HIDE DEF q
  <1>6. OnlyApp(r, q, a)
    BY <1>1, <1>5, OnlyAppTransitive
  <1> QED BY <1>3, <1>5, <1>6

(* The first of some places in a sequence holds an element of it.          *)
LEMMA FirstOf ==
  ASSUME NEW T, NEW s \in Seq(T), NEW found \in SUBSET DOMAIN s, found # {}
  PROVE  s[Min(found)] \in T
  <1>1. DOMAIN s = 1 .. Len(s) /\ \A i \in 1 .. Len(s) : s[i] \in T
    OBVIOUS
  <1>2. found \in SUBSET Nat
    BY <1>1
  <1>3. Min(found) \in found
    BY <1>2, Least DEF Min
  <1> QED BY <1>1, <1>3

(* retire_option() by name: an option that has the name is retired, and a  *)
(* name that nobody has is added and retired.                              *)
LEMMA RetireByNameSound ==
  ASSUME NEW r, NEW roots, RegistrySound(r, roots), NEW a \in DOMAIN r.apps,
         NEW n \in Names
  PROVE  LET q == RetireByName(r, a, n)
         IN RegistrySound(q, roots) /\ OnlyApp(r, q, a)
  <1> DEFINE o == FindOption(r, a, LAMBDA p : TakesLong(p, n))
             shape == [Unnamed EXCEPT !.long = {n}]
             options == OptionsIn(r, a)
             found == {i \in DOMAIN options : TakesLong(OptionOf(r, options[i]), n)}
  <1>1. o = IF found = {} THEN 0 ELSE options[Min(found)]
    BY DEF FindOption
  <1>2. options \in Seq(DOMAIN r.options) /\ found \in SUBSET DOMAIN options
    BY OptionsInTyped
  <1>3. RetireByName(r, a, n) = IF o # 0 THEN RetireOption(r, a, o)
                                ELSE AddOption(r, a, shape)
    BY DEF RetireByName
  <1>4. shape \in Shapes
    BY DEF Unnamed, Shapes
  <1> HIDE DEF o, options, found, shape
  <1>5. CASE o # 0
    <2>1. o \in DOMAIN r.options
      BY <1>1, <1>2, <1>5, FirstOf
    <2> QED BY <1>3, <1>5, <2>1, RetireOptionSound
  <1>6. CASE o = 0
    <2>1. RegistrySound(AddOption(r, a, shape), roots)
          /\ OnlyApp(r, AddOption(r, a, shape), a)
      BY <1>4, AddOptionSound
    <2> QED BY <1>3, <1>6, <2>1
  <1> QED BY <1>5, <1>6

(* An option that goes to a group matches none of the group's.             *)
LEMMA MoveOptionSound ==
  ASSUME NEW r, NEW roots, RegistrySound(r, roots), NEW a \in DOMAIN r.apps,
         NEW o \in DOMAIN r.options, NEW g \in DOMAIN r.apps, g # a
  PROVE  RegistrySound(MoveOption(r, a, o, g), roots)
  <1> DEFINE q == MoveOption(r, a, o, g)
             z == [r EXCEPT !.apps[a].options = Without(@, o),
                            !.apps[g].options = Append(@, o)]
             here == ToSet(AppOf(r, a).options)
             there == ToSet(AppOf(r, g).options)
  <1>1. CASE q = Throws(r)
    BY <1>1, ThrowsSound
  <1>2. CASE q # Throws(r)
    <2>1. /\ q = z /\ o \in here
          /\ o \notin {AppOf(r, a).help, AppOf(r, a).helpAll}
          /\ \A p \in there : ~Matches(OptionOf(r, p), OptionOf(r, o))
      BY <1>2 DEF MoveOption
    <2> HIDE DEF q
    <2>2. /\ r \in [apps : {r.apps}, options : {r.options}, next : Nat,
                    graves : {r.graves}, made : Nat, threw : BOOLEAN]
          /\ r.apps \in [DOMAIN r.apps -> AppRecords]
          /\ r.options \in [DOMAIN r.options -> OptionRecords]
      BY DEF RegistrySound, IsRegistry
    <2>3. ASSUME NEW b \in DOMAIN r.apps
          PROVE  /\ AppOf(r, b).options \in Seq(Nat) /\ AppOf(r, b) \in AppRecords
                 /\ IsInjective(AppOf(r, b).options)
                 /\ ToSet(AppOf(r, b).options) \subseteq DOMAIN r.options
      BY <2>2 DEF AppOf, AppRecords, RegistrySound, OptionsHeldOnce
    <2> DEFINE less == Without(AppOf(r, a).options, o)
               more == Append(AppOf(r, g).options, o)
               xa == [AppOf(r, a) EXCEPT !.options = less]
               xg == [AppOf(r, g) EXCEPT !.options = more]
    <2>4. o \in Nat /\ o \notin there
      <3>1. o \in Nat
        BY DEF RegistrySound, IsRegistry, NumbersUsedOnce
      <3>2. here \cap there = {}
        BY DEF RegistrySound, OptionsHeldOnce
      <3> QED BY <2>1, <3>1, <3>2
    <2>5. less \in Seq(Nat) /\ ToSet(less) = here \ {o} /\ IsInjective(less)
      BY <2>3, SetWithout
    <2>6. more \in Seq(Nat) /\ ToSet(more) = there \cup {o} /\ IsInjective(more)
      BY <2>3, <2>4, SetOfAppend
    <2>7. /\ z \in [apps : {z.apps}, options : {r.options}, next : {r.next},
                    graves : {r.graves}, made : {r.made}, threw : {r.threw}]
          /\ z.apps = [r.apps EXCEPT ![a].options = less, ![g].options = more]
      BY <2>2 DEF AppOf
    <2> HIDE DEF z, less, more
    <2>8. /\ DOMAIN z.apps = DOMAIN r.apps
          /\ \A b \in DOMAIN r.apps \ {a, g} : AppOf(z, b) = AppOf(r, b)
          /\ AppOf(z, a) = xa /\ AppOf(z, g) = xg
      BY <2>2, <2>7 DEF AppOf
    <2>9. /\ xa \in AppRecords /\ xa.options = less
          /\ xa.help = AppOf(r, a).help /\ xa.helpAll = AppOf(r, a).helpAll
          /\ xa.parent = AppOf(r, a).parent /\ xa.subs = AppOf(r, a).subs
          /\ xa.needApps = AppOf(r, a).needApps
          /\ xa.excludeApps = AppOf(r, a).excludeApps
      <3> DEFINE y == AppOf(r, a)
      <3>1. y \in AppRecords
        BY <2>3
      <3> HIDE DEF y
      <3>2. LET x == [y EXCEPT !.options = less]
            IN /\ x \in AppRecords /\ x.options = less
               /\ x.help = y.help /\ x.helpAll = y.helpAll
               /\ x.parent = y.parent /\ x.subs = y.subs
               /\ x.needApps = y.needApps /\ x.excludeApps = y.excludeApps
        BY <2>5, <3>1 DEF AppRecords
      <3> QED BY <3>2 DEF y
    <2>10. /\ xg \in AppRecords /\ xg.options = more
           /\ xg.help = AppOf(r, g).help /\ xg.helpAll = AppOf(r, g).helpAll
           /\ xg.parent = AppOf(r, g).parent /\ xg.subs = AppOf(r, g).subs
           /\ xg.needApps = AppOf(r, g).needApps
           /\ xg.excludeApps = AppOf(r, g).excludeApps
      <3> DEFINE y == AppOf(r, g)
      <3>1. y \in AppRecords
        BY <2>3
      <3> HIDE DEF y
      <3>2. LET x == [y EXCEPT !.options = more]
            IN /\ x \in AppRecords /\ x.options = more
               /\ x.help = y.help /\ x.helpAll = y.helpAll
               /\ x.parent = y.parent /\ x.subs = y.subs
               /\ x.needApps = y.needApps /\ x.excludeApps = y.excludeApps
        BY <2>6, <3>1 DEF AppRecords
      <3> QED BY <3>2 DEF y
    <2> HIDE DEF xa, xg
    <2>11. ASSUME NEW b \in DOMAIN r.apps
           PROVE  /\ AppOf(z, b).parent = AppOf(r, b).parent
                  /\ AppOf(z, b).subs = AppOf(r, b).subs
                  /\ AppOf(z, b).needApps = AppOf(r, b).needApps
                  /\ AppOf(z, b).excludeApps = AppOf(r, b).excludeApps
                  /\ AppOf(z, b).help = AppOf(r, b).help
                  /\ AppOf(z, b).helpAll = AppOf(r, b).helpAll
                  /\ AppOf(z, b) \in AppRecords
                  /\ IsInjective(AppOf(z, b).options)
                  /\ ToSet(AppOf(z, b).options)
                       = IF b = a THEN here \ {o}
                         ELSE IF b = g THEN there \cup {o}
                         ELSE ToSet(AppOf(r, b).options)
      <3>1. CASE b = a
        BY <2>5, <2>8, <2>9, <3>1
      <3>2. CASE b = g
        BY <2>6, <2>8, <2>10, <3>2
      <3>3. CASE b # a /\ b # g
        BY <2>3, <2>8, <3>3
      <3> QED BY <3>1, <3>2, <3>3
    <2>12. /\ z.options = r.options /\ z.graves = r.graves /\ z.next = r.next
           /\ \A p : OptionOf(z, p) = OptionOf(r, p)
      BY <2>7 DEF OptionOf
    <2>13. IsRegistry(z)
      <3>1. z.apps \in [DOMAIN z.apps -> AppRecords]
        <4>1. \A b \in DOMAIN z.apps : z.apps[b] \in AppRecords
          BY <2>8, <2>11 DEF AppOf
        <4> QED BY <2>2, <2>7, <4>1
      <3> QED BY <2>2, <2>7, <2>12, <3>1 DEF RegistrySound, IsRegistry
    <2>14. NumbersUsedOnce(z)
      BY <2>8, <2>12 DEF RegistrySound, NumbersUsedOnce
    <2>15. OptionsHeldOnce(z)
      <3>1. ASSUME NEW b \in DOMAIN r.apps
            PROVE  /\ ToSet(AppOf(z, b).options) \subseteq DOMAIN z.options
                   /\ \A c \in DOMAIN r.apps \ {b} :
                        ToSet(AppOf(z, b).options)
                          \cap ToSet(AppOf(z, c).options) = {}
        BY <2>1, <2>4, <2>11, <2>12 DEF RegistrySound, OptionsHeldOnce
      <3> QED BY <2>8, <2>11, <3>1 DEF OptionsHeldOnce
    <2>16. AppsHeldOnce(z, roots)
      BY <2>8, <2>11 DEF RegistrySound, AppsHeldOnce
    <2>17. LinksKnown(z)
      BY <2>8, <2>11, <2>12 DEF RegistrySound, LinksKnown
    <2>18. OptionsApart(z)
      <3> SUFFICES ASSUME NEW b \in DOMAIN r.apps,
                          NEW v \in ToSet(AppOf(z, b).options),
                          NEW p \in ToSet(AppOf(z, b).options), v # p,
                          OptionOf(r, v).parent = b, OptionOf(r, p).parent = b
                   PROVE  /\ \A n \in OptionOf(r, v).short :
                               ~TakesShort(OptionOf(r, p), n)
                          /\ \A n \in OptionOf(r, v).long :
                               ~TakesLong(OptionOf(r, p), n)
        BY <2>8, <2>12 DEF OptionsApart
      <3>1. CASE v \in ToSet(AppOf(r, b).options) /\ p \in ToSet(AppOf(r, b).options)
        BY <3>1 DEF RegistrySound, OptionsApart
      <3>2. ASSUME NEW u \in there
            PROVE  /\ \A n \in OptionOf(r, u).short : ~TakesShort(OptionOf(r, o), n)
                   /\ \A n \in OptionOf(r, u).long : ~TakesLong(OptionOf(r, o), n)
                   /\ \A n \in OptionOf(r, o).short : ~TakesShort(OptionOf(r, u), n)
                   /\ \A n \in OptionOf(r, o).long : ~TakesLong(OptionOf(r, u), n)
        <4>1. OptionOf(r, u) \in OptionRecords /\ OptionOf(r, o) \in OptionRecords
          BY <2>2, <2>3 DEF OptionOf
        <4> QED BY <2>1, <4>1, NoMatch
      <3>3. CASE ~(/\ v \in ToSet(AppOf(r, b).options)
                   /\ p \in ToSet(AppOf(r, b).options))
        <4>1. b = g /\ v \in there \cup {o} /\ p \in there \cup {o}
          BY <2>11, <3>3
        <4> QED BY <3>2, <3>3, <4>1
      <3> QED BY <3>1, <3>3
    <2>19. OptionLinksLive(z)
      BY <2>12 DEF RegistrySound, OptionLinksLive
    <2>20. AppLinksLive(z)
      BY <2>8, <2>11, <2>12 DEF RegistrySound, AppLinksLive
    <2>21. PointersLive(z)
      <3>1. ASSUME NEW b \in DOMAIN r.apps
            PROVE  {AppOf(z, b).help, AppOf(z, b).helpAll}
                     \subseteq ToSet(AppOf(z, b).options) \cup {0}
        BY <2>1, <2>11 DEF RegistrySound, PointersLive
      <3> QED BY <2>8, <3>1 DEF PointersLive
    <2> QED BY <2>1, <2>13, <2>14, <2>15, <2>16, <2>17, <2>18, <2>19, <2>20,
               <2>21 DEF RegistrySound, q
  <1> QED BY <1>1, <1>2

(* The app id is new, and the others are as they were.                     *)
Fresh(r, q, id) ==
  /\ DOMAIN q.apps = DOMAIN r.apps \cup {id} /\ id \notin DOMAIN r.apps
  /\ \A b \in DOMAIN r.apps : AppOf(q, b) = AppOf(r, b)
  /\ AppOf(q, id).needApps = {} /\ AppOf(q, id).excludeApps = {}

(* A new app that is changed further is still all that is new.             *)
LEMMA FreshGoesOn ==
  ASSUME NEW r, NEW q, NEW z, NEW id, Fresh(r, q, id), OnlyApp(q, z, id)
  PROVE  Fresh(r, z, id)
  BY DEF Fresh, OnlyApp

(* A new app, with a number never used, is a root until it is taken in.    *)
LEMMA BornSound ==
  ASSUME NEW r, NEW roots, RegistrySound(r, roots),
         NEW name \in Names \cup {NoName}, NEW parent \in Nat
  PROVE  LET q == Born(r, name, parent)
         IN RegistrySound(q, roots \cup {r.next}) /\ Fresh(r, q, r.next)
  <1> DEFINE q == Born(r, name, parent)
             id == r.next
             new == [PlainEntry EXCEPT !.name = name, !.parent = parent]
  <1>1. /\ r \in [apps : {r.apps}, options : {r.options}, next : Nat,
                  graves : {r.graves}, made : Nat, threw : BOOLEAN]
        /\ r.apps \in [DOMAIN r.apps -> AppRecords]
        /\ r.options \in [DOMAIN r.options -> OptionRecords]
        /\ r.graves \in [DOMAIN r.graves -> SUBSET Nat]
    BY DEF RegistrySound, IsRegistry
  <1>2. /\ DOMAIN r.apps \cup DOMAIN r.options \cup DOMAIN r.graves
             \subseteq 1 .. (id - 1)
        /\ id \in Nat
        /\ (DOMAIN r.apps \cup DOMAIN r.graves) \cap DOMAIN r.options = {}
    BY <1>1 DEF RegistrySound, NumbersUsedOnce
  <1>3. /\ id \notin DOMAIN r.apps \cup DOMAIN r.options \cup DOMAIN r.graves
        /\ id \in 1 .. id \/ id = 0
        /\ 1 .. (id - 1) \subseteq 1 .. (id + 1 - 1)
        /\ id + 1 - 1 = id /\ id + 1 \in Nat
    BY <1>2
  <1>4. id # 0
    BY <1>2 DEF RegistrySound, AppsHeldOnce
  <1>5. /\ new \in AppRecords /\ new.options = <<>> /\ new.subs = <<>>
        /\ new.help = 0 /\ new.helpAll = 0 /\ new.needApps = {}
        /\ new.excludeApps = {}
    <2> DEFINE e == PlainEntry
    <2>1. <<>> \in Seq(Nat) /\ {} \in SUBSET Nat /\ {} \in SUBSET Names
          /\ 0 \in Nat /\ NoName \in Names \cup {NoName}
      OBVIOUS
    <2>2. /\ e \in AppRecords /\ e.options = <<>> /\ e.subs = <<>>
          /\ e.help = 0 /\ e.helpAll = 0 /\ e.needApps = {}
          /\ e.excludeApps = {}
      <3> DEFINE none == <<>>
      <3>1. none \in Seq(Nat)
        OBVIOUS
      <3>2. PlainEntry =
              [name |-> NoName, aliases |-> {}, parent |-> 0,
               options |-> none, subs |-> none, case |-> FALSE,
               under |-> FALSE, disabled |-> FALSE, hidden |-> FALSE,
               help |-> 0, helpAll |-> 0, version |-> 0, config |-> 0,
               needs |-> {}, excludes |-> {}, needApps |-> {},
               excludeApps |-> {},
               defaults |-> [case |-> FALSE, under |-> FALSE]]
        BY DEF PlainEntry
      <3> HIDE DEF none
      <3>3. e \in AppRecords /\ e.options = none /\ e.subs = none
        BY <3>1, <3>2 DEF AppRecords
      <3>4. /\ e.help = 0 /\ e.helpAll = 0 /\ e.needApps = {}
            /\ e.excludeApps = {}
        BY <3>2
      <3> QED BY <3>3, <3>4 DEF none
    <2>3. new = [e EXCEPT !.name = name, !.parent = parent]
      OBVIOUS
    <2> HIDE DEF e, new
    <2>4. new \in AppRecords
      BY <2>2, <2>3 DEF AppRecords
    <2>5. /\ new.options = e.options /\ new.subs = e.subs
          /\ new.help = e.help /\ new.helpAll = e.helpAll
          /\ new.needApps = e.needApps /\ new.excludeApps = e.excludeApps
      BY <2>2, <2>3 DEF AppRecords
    <2> QED BY <2>2, <2>4, <2>5
  <1>6. /\ q \in [apps : {q.apps}, options : {r.options}, next : {id + 1},
                  graves : {r.graves}, made : {r.made}, threw : {r.threw}]
        /\ q.apps = [b \in DOMAIN r.apps \cup {id} |->
                       IF b = id THEN new ELSE r.apps[b]]
    BY <1>1 DEF Born
  <1>7. ToSet(<<>>) = {} /\ IsInjective(<<>>)
    BY DEF ToSet, IsInjective
  <1> HIDE DEF q, new
  <1>8. /\ DOMAIN q.apps = DOMAIN r.apps \cup {id}
        /\ \A b \in DOMAIN r.apps : AppOf(q, b) = AppOf(r, b)
        /\ AppOf(q, id) = new
        /\ q.options = r.options /\ q.graves = r.graves /\ q.next = id + 1
        /\ \A o : OptionOf(q, o) = OptionOf(r, o)
    BY <1>3, <1>6 DEF AppOf, OptionOf
  <1>9. IsRegistry(q)
    <2>1. q.apps \in [DOMAIN q.apps -> AppRecords]
      BY <1>1, <1>3, <1>5, <1>6
    <2> QED BY <1>1, <1>3, <1>6, <2>1 DEF IsRegistry
  <1>10. NumbersUsedOnce(q)
    BY <1>2, <1>3, <1>4, <1>8 DEF NumbersUsedOnce
  <1>11. OptionsHeldOnce(q)
    BY <1>5, <1>7, <1>8 DEF RegistrySound, OptionsHeldOnce
  <1>12. AppsHeldOnce(q, roots \cup {id})
    <2>1. 1 \in roots \cup {id} /\ roots \cup {id} \subseteq DOMAIN q.apps
      BY <1>8 DEF RegistrySound, AppsHeldOnce
    <2>2. ASSUME NEW b \in DOMAIN q.apps
          PROVE  /\ IsInjective(AppOf(q, b).subs)
                 /\ \A s \in ToSet(AppOf(q, b).subs) :
                      /\ s \in DOMAIN q.apps \ ((roots \cup {id}) \cup {b})
                      /\ AppOf(q, s).parent = b
      <3>1. CASE b = id
        BY <1>5, <1>7, <1>8, <3>1
      <3>2. CASE b \in DOMAIN r.apps
        BY <1>3, <1>8, <3>2 DEF RegistrySound, AppsHeldOnce
      <3> QED BY <1>8, <3>1, <3>2
    <2>3. ASSUME NEW s \in DOMAIN q.apps \ (roots \cup {id})
          PROVE  LET p == AppOf(q, s).parent
                 IN p \in DOMAIN q.apps /\ s \in ToSet(AppOf(q, p).subs)
      <3>1. s \in DOMAIN r.apps \ roots
        BY <1>8
      <3>2. LET p == AppOf(r, s).parent
            IN p \in DOMAIN r.apps /\ s \in ToSet(AppOf(r, p).subs)
        BY <3>1 DEF RegistrySound, AppsHeldOnce
      <3> QED BY <1>8, <3>1, <3>2
    <2> QED BY <2>1, <2>2, <2>3 DEF AppsHeldOnce
  <1>13. LinksKnown(q)
    BY <1>5, <1>8 DEF RegistrySound, LinksKnown
  <1>14. OptionsApart(q)
    BY <1>5, <1>7, <1>8 DEF RegistrySound, OptionsApart
  <1>15. OptionLinksLive(q)
    BY <1>8 DEF RegistrySound, OptionLinksLive
  <1>16. AppLinksLive(q)
    <2> SUFFICES ASSUME NEW b \in DOMAIN q.apps
                 PROVE  LET x == AppOf(q, b)
                        IN /\ \A c \in (x.needApps \cup x.excludeApps)
                                       \ DOMAIN q.apps : b \notin q.graves[c]
                           /\ \A c \in x.excludeApps \cap DOMAIN q.apps :
                                b \in AppOf(q, c).excludeApps
      BY DEF AppLinksLive
    <2>1. CASE b = id
      BY <1>5, <1>8, <2>1
    <2>2. CASE b \in DOMAIN r.apps
      <3>1. /\ AppOf(r, b).needApps \cup AppOf(r, b).excludeApps
                 \subseteq DOMAIN r.apps \cup DOMAIN r.graves
            /\ \A c \in (AppOf(r, b).needApps \cup AppOf(r, b).excludeApps)
                        \ DOMAIN r.apps : b \notin r.graves[c]
            /\ \A c \in AppOf(r, b).excludeApps \cap DOMAIN r.apps :
                 b \in AppOf(r, c).excludeApps
        BY <2>2 DEF RegistrySound, LinksKnown, AppLinksLive
      <3> QED BY <1>3, <1>8, <2>2, <3>1
    <2> QED BY <1>8, <2>1, <2>2
  <1>17. PointersLive(q)
    BY <1>5, <1>8 DEF RegistrySound, PointersLive
  <1>18. Fresh(r, q, id)
    BY <1>3, <1>5, <1>8 DEF Fresh
  <1> QED BY <1>9, <1>10, <1>11, <1>12, <1>13, <1>14, <1>15, <1>16, <1>17, <1>18
          DEF RegistrySound, q

(* The constructor of an app copies a help flag of its parent.             *)
LEMMA InheritFlagSound ==
  ASSUME NEW r, NEW roots, RegistrySound(r, roots), NEW id \in DOMAIN r.apps,
         NEW m \in DOMAIN r.apps, NEW field \in {"help", "helpAll"}
  PROVE  LET q == InheritFlag(r, id, AppOf(r, m), field)
         IN RegistrySound(q, roots) /\ OnlyApp(r, q, id)
  <1> DEFINE mother == AppOf(r, m)
             q == InheritFlag(r, id, mother, field)
             shape == AllNames(OptionOf(r, mother[field]))
             z == Point(r, id, field, shape)
  <1>1. q = IF r.threw \/ mother[field] = 0 THEN r ELSE z
    BY DEF InheritFlag
  <1>2. field \in Pointers
    BY DEF Pointers
  <1>3. CASE r.threw \/ mother[field] = 0
    <2>1. q = r
      BY <1>1, <1>3
    <2> HIDE DEF q
    <2>2. OnlyApp(r, q, id)
      BY <2>1 DEF OnlyApp
    <2> QED BY <2>1, <2>2 DEF q
  <1>4. CASE ~(r.threw \/ mother[field] = 0)
    <2>1. mother[field] \in ToSet(mother.options)
      BY <1>4 DEF RegistrySound, PointersLive
    <2>2. mother[field] \in DOMAIN r.options
      BY <2>1 DEF RegistrySound, OptionsHeldOnce
    <2>3. shape \in Shapes
      BY <2>2, AllNamesShape DEF RegistrySound, IsRegistry, OptionOf
    <2>4. q = z
      BY <1>1, <1>4
    <2> HIDE DEF q, shape
    <2>5. RegistrySound(z, roots) /\ OnlyApp(r, z, id)
      BY <1>2, <2>3, PointSound
    <2> QED BY <2>4, <2>5 DEF q
  <1> QED BY <1>3, <1>4

(* The constructor of an app copies the settings of its parent and its     *)
(* help flags.                                                             *)
LEMMA InheritSound ==
  ASSUME NEW r, NEW roots, RegistrySound(r, roots), NEW id \in DOMAIN r.apps,
         NEW m \in AppRecords
  PROVE  LET q == Inherit(r, id, m)
         IN RegistrySound(q, roots) /\ OnlyApp(r, q, id)
  <1> DEFINE y == AppOf(r, id)
             x == [y EXCEPT !.defaults = m.defaults, !.case = m.case,
                            !.under = m.under, !.hidden = m.case /\ m.under]
             q == Changed(r, id, x)
  <1>1. /\ r \in [apps : {r.apps}, options : {r.options}, next : Nat,
                  graves : {r.graves}, made : Nat, threw : BOOLEAN]
        /\ r.apps \in [DOMAIN r.apps -> AppRecords]
        /\ y \in AppRecords
    BY DEF RegistrySound, IsRegistry, AppOf
  <1>2. Inherit(r, id, m) = q
    <2> DEFINE apps == [r.apps EXCEPT ![id].defaults = m.defaults,
                                       ![id].case = m.case, ![id].under = m.under,
                                       ![id].hidden = m.case /\ m.under]
    <2>1. apps = [r.apps EXCEPT ![id] = x]
      BY <1>1 DEF AppOf
    <2>2. Inherit(r, id, m) = [r EXCEPT !.apps = apps]
      BY <1>1 DEF Inherit
    <2> HIDE DEF apps, x
    <2> QED BY <2>1, <2>2 DEF Changed
  <1>3. {y.help, y.helpAll} \subseteq ToSet(y.options) \cup {0}
    BY DEF RegistrySound, PointersLive
  <1> DEFINE hide == m.case /\ m.under
  <1>31. /\ m.defaults \in [case : BOOLEAN, under : BOOLEAN]
         /\ m.case \in BOOLEAN /\ m.under \in BOOLEAN
    BY DEF AppRecords
  <1>32. hide \in BOOLEAN
    OBVIOUS
  <1>33. x = [y EXCEPT !.defaults = m.defaults, !.case = m.case,
                       !.under = m.under, !.hidden = hide]
    OBVIOUS
  <1> HIDE DEF y, x, hide
  <1>4. /\ x \in AppRecords
        /\ x.options = y.options /\ x.parent = y.parent /\ x.subs = y.subs
        /\ x.needApps = y.needApps /\ x.excludeApps = y.excludeApps
        /\ x.help = y.help /\ x.helpAll = y.helpAll
    <2> DEFINE d == m.defaults
               c == m.case
               u == m.under
    <2>1. /\ d \in [case : BOOLEAN, under : BOOLEAN]
          /\ c \in BOOLEAN /\ u \in BOOLEAN
          /\ x = [y EXCEPT !.defaults = d, !.case = c, !.under = u,
                           !.hidden = hide]
      BY <1>31, <1>33
    <2> HIDE DEF d, c, u
    <2>2. x \in AppRecords
      <3> DEFINE x1 == [y EXCEPT !.defaults = d]
                 x2 == [x1 EXCEPT !.case = c]
                 x3 == [x2 EXCEPT !.under = u]
      <3>1. x1 \in AppRecords
        BY <1>1, <2>1 DEF AppRecords
      <3>2. x = [x3 EXCEPT !.hidden = hide]
        BY <2>1
      <3> HIDE DEF x1
      <3>3. x2 \in AppRecords
        BY <2>1, <3>1 DEF AppRecords
      <3> HIDE DEF x2
      <3>4. x3 \in AppRecords
        BY <2>1, <3>3 DEF AppRecords
      <3> HIDE DEF x3
      <3> QED BY <1>32, <3>2, <3>4 DEF AppRecords
    <2>3. /\ x.options = y.options /\ x.parent = y.parent /\ x.subs = y.subs
          /\ x.needApps = y.needApps /\ x.excludeApps = y.excludeApps
          /\ x.help = y.help /\ x.helpAll = y.helpAll
      BY <1>1, <2>1 DEF AppRecords
    <2> QED BY <2>2, <2>3
  <1>5. SamePlace(x, AppOf(r, id))
    BY <1>4 DEF SamePlace, y
  <1>6. {x.help, x.helpAll} \subseteq ToSet(x.options) \cup {0}
    BY <1>3, <1>4
  <1>7. RegistrySound(q, roots)
    BY <1>4, <1>5, <1>6, ChangeApp DEF Changed
  <1>8. OnlyApp(r, q, id)
    BY <1>5, ChangedOnly
  <1> QED BY <1>2, <1>7, <1>8

(* A group drops the help flags that it has inherited.                     *)
LEMMA BaredSound ==
  ASSUME NEW r, NEW roots, RegistrySound(r, roots), NEW id \in DOMAIN r.apps,
         NEW bare \in BOOLEAN
  PROVE  LET q == Bared(r, id, bare)
         IN RegistrySound(q, roots) /\ OnlyApp(r, q, id)
  <1> DEFINE help == "help"
             helpAll == "helpAll"
             one == Cleared(r, id, help)
             two == Cleared(one, id, helpAll)
             q == Bared(r, id, bare)
  <1>1. q = IF bare THEN two ELSE r
    BY DEF Bared
  <1>2. help \in Pointers /\ helpAll \in Pointers
    BY DEF Pointers
  <1> HIDE DEF q, help, helpAll
  <1>3. RegistrySound(one, roots) /\ OnlyApp(r, one, id)
    BY <1>2, ClearedSound
  <1> HIDE DEF one
  <1>4. id \in DOMAIN one.apps
    BY <1>3 DEF OnlyApp
  <1>5. RegistrySound(two, roots) /\ OnlyApp(one, two, id)
    BY <1>2, <1>3, <1>4, ClearedSound
  <1> HIDE DEF two
  <1>6. OnlyApp(r, two, id) /\ OnlyApp(r, r, id)
    BY <1>3, <1>5, OnlyAppTransitive DEF OnlyApp
  <1> QED BY <1>1, <1>5, <1>6 DEF q

(* A new app is born, inherits, and is bared if it is a group.             *)
LEMMA NewAppSound ==
  ASSUME NEW r, NEW roots, RegistrySound(r, roots), NEW parent \in DOMAIN r.apps,
         NEW name \in Names \cup {NoName}, NEW bare \in BOOLEAN
  PROVE  LET q == NewApp(r, name, parent, bare)
         IN RegistrySound(q, roots \cup {r.next}) /\ Fresh(r, q, r.next)
  <1> DEFINE id == r.next
             mother == AppOf(r, parent)
             all == roots \cup {id}
             born == Born(r, name, parent)
             help == "help"
             helpAll == "helpAll"
             one == InheritFlag(born, id, mother, help)
             two == InheritFlag(one, id, mother, helpAll)
             heir == Inherit(two, id, mother)
             q == Bared(heir, id, bare)
  <1>1. NewApp(r, name, parent, bare) = q
    BY DEF NewApp
  <1>2. parent \in Nat
    BY DEF RegistrySound, NumbersUsedOnce
  <1>3. RegistrySound(born, all) /\ Fresh(r, born, id)
    BY <1>2, BornSound
  <1>4. mother \in AppRecords
    BY DEF RegistrySound, IsRegistry, AppOf
  <1>5. help \in {"help", "helpAll"} /\ helpAll \in {"help", "helpAll"}
    OBVIOUS
  <1>6. \A z : Fresh(r, z, id) =>
          /\ AppOf(z, parent) = mother
          /\ parent \in DOMAIN z.apps /\ id \in DOMAIN z.apps
    BY DEF Fresh
  <1> HIDE DEF born, help, helpAll, mother, all
  <1>7. RegistrySound(one, all) /\ OnlyApp(born, one, id)
    <2>1. AppOf(born, parent) = mother
      BY <1>3, <1>6
    <2>2. RegistrySound(InheritFlag(born, id, AppOf(born, parent), help), all)
          /\ OnlyApp(born, InheritFlag(born, id, AppOf(born, parent), help), id)
      BY <1>3, <1>5, <1>6, InheritFlagSound
    <2> QED BY <2>1, <2>2
  <1> HIDE DEF one
  <1>8. Fresh(r, one, id)
    BY <1>3, <1>7, FreshGoesOn
  <1>9. RegistrySound(two, all) /\ OnlyApp(one, two, id)
    <2>1. AppOf(one, parent) = mother
      BY <1>6, <1>8
    <2>2. RegistrySound(InheritFlag(one, id, AppOf(one, parent), helpAll), all)
          /\ OnlyApp(one, InheritFlag(one, id, AppOf(one, parent), helpAll), id)
      BY <1>5, <1>6, <1>7, <1>8, InheritFlagSound
    <2> QED BY <2>1, <2>2
  <1> HIDE DEF two
  <1>10. Fresh(r, two, id)
    BY <1>8, <1>9, FreshGoesOn
  <1>11. id \in DOMAIN two.apps
    BY <1>6, <1>10
  <1>12. RegistrySound(heir, all) /\ OnlyApp(two, heir, id)
    BY <1>4, <1>9, <1>11, InheritSound
  <1> HIDE DEF heir
  <1>13. Fresh(r, heir, id)
    BY <1>10, <1>12, FreshGoesOn
  <1>14. id \in DOMAIN heir.apps
    BY <1>6, <1>13
  <1>15. RegistrySound(q, all) /\ OnlyApp(heir, q, id)
    BY <1>12, <1>14, BaredSound
  <1> HIDE DEF q
  <1>16. Fresh(r, q, id)
    BY <1>13, <1>15, FreshGoesOn
  <1> QED BY <1>1, <1>15, <1>16 DEF all

(* A family is closed, and each of it but the first one is in the list of  *)
(* another.                                                                *)
LEMMA FamilyClosed ==
  ASSUME NEW r, NEW roots, RegistrySound(r, roots), NEW a \in DOMAIN r.apps
  PROVE  LET F == Family(r, a)
         IN /\ F \subseteq DOMAIN r.apps /\ a \in F
            /\ \A s \in F : ToSet(AppOf(r, s).subs) \subseteq F
            /\ \A d \in F \ {a} : \E c \in F : d \in ToSet(AppOf(r, c).subs)
  <1> DEFINE F == Family(r, a)
             A == DOMAIN r.apps
             Kids(s) == ToSet(AppOf(r, s).subs)
  <1>1. F = {b \in A : \A S \in SUBSET A :
                         a \in S /\ (\A s \in S : Kids(s) \subseteq S) => b \in S}
    BY DEF Family, Holds
  <1>2. a \in A /\ \A s \in A : Kids(s) \subseteq A
    BY DEF RegistrySound, AppsHeldOnce
  <1> HIDE DEF F, A, Kids
  <1>3. F \subseteq A /\ a \in F
    BY <1>1, <1>2
  <1>4. \A s \in F : Kids(s) \subseteq F
    BY <1>1, <1>2
  <1>5. ASSUME NEW d \in F \ {a} PROVE \E c \in F : d \in Kids(c)
    <2>1. SUFFICES ASSUME \A c \in F : d \notin Kids(c) PROVE FALSE
      OBVIOUS
    <2> DEFINE S == F \ {d}
    <2>2. S \in SUBSET A /\ a \in S /\ d \notin S
      BY <1>3
    <2>3. \A s \in S : Kids(s) \subseteq S
      BY <1>4, <2>1
    <2> HIDE DEF S
    <2> QED BY <1>1, <2>2, <2>3
  <1> QED BY <1>3, <1>4, <1>5 DEF F, A, Kids

(* Those who were there when a went do not link to it.                     *)
Told(r, a) ==
  \A b \in DOMAIN r.apps :
    a \in DOMAIN r.graves /\ b \in r.graves[a] =>
      a \notin AppOf(r, b).needApps \cup AppOf(r, b).excludeApps

(* A root goes with its family, once those that were told of it do not     *)
(* link to it.                                                             *)
LEMMA DestroyedSound ==
  ASSUME NEW r, NEW roots, RegistrySound(r, roots), NEW a \in roots, a # 1,
         Told(r, a)
  PROVE  RegistrySound(Destroyed(r, a), roots \ {a})
  <1> DEFINE q == Destroyed(r, a)
             dead == Family(r, a)
             held == UNION {ToSet(AppOf(r, d).options) : d \in dead}
             live == DOMAIN r.apps \ dead
  <1>1. /\ r \in [apps : {r.apps}, options : {r.options}, next : Nat,
                  graves : {r.graves}, made : Nat, threw : BOOLEAN]
        /\ r.apps \in [DOMAIN r.apps -> AppRecords]
        /\ r.options \in [DOMAIN r.options -> OptionRecords]
        /\ r.graves \in [DOMAIN r.graves -> SUBSET Nat]
    BY DEF RegistrySound, IsRegistry
  <1>2. a \in DOMAIN r.apps /\ 1 \in roots /\ roots \subseteq DOMAIN r.apps
    BY DEF RegistrySound, AppsHeldOnce
  <1>3. /\ dead \subseteq DOMAIN r.apps /\ a \in dead
        /\ \A s \in dead : ToSet(AppOf(r, s).subs) \subseteq dead
        /\ \A d \in dead \ {a} : \E c \in dead : d \in ToSet(AppOf(r, c).subs)
    BY <1>2, FamilyClosed
  <1>4. held \subseteq DOMAIN r.options
    BY <1>3 DEF RegistrySound, OptionsHeldOnce
  <1>5. ASSUME NEW b \in live
        PROVE  ToSet(AppOf(r, b).options) \cap held = {}
    <2>1. ASSUME NEW d \in dead
          PROVE  ToSet(AppOf(r, b).options) \cap ToSet(AppOf(r, d).options) = {}
      BY <1>3 DEF RegistrySound, OptionsHeldOnce
    <2> QED BY <2>1
  <1>6. /\ q \in [apps : {q.apps}, options : {q.options}, next : {r.next},
                  graves : {q.graves}, made : {r.made}, threw : {r.threw}]
        /\ q.apps = [b \in live |-> r.apps[b]]
        /\ q.options = [o \in DOMAIN r.options \ held |-> r.options[o]]
        /\ q.graves = [g \in DOMAIN r.graves \cup dead \cup held |->
                         IF g \in DOMAIN r.graves /\ (g = a \/ g \notin dead)
                         THEN r.graves[g] ELSE {}]
    BY <1>1 DEF Destroyed, Drop
  <1> HIDE DEF q, dead, held
  <1>7. /\ DOMAIN q.apps = live /\ \A b \in live : AppOf(q, b) = AppOf(r, b)
        /\ DOMAIN q.options = DOMAIN r.options \ held
        /\ \A o \in DOMAIN q.options : OptionOf(q, o) = OptionOf(r, o)
        /\ DOMAIN q.graves = DOMAIN r.graves \cup dead \cup held
        /\ \A g \in dead \cup held :
             g # a \/ g \notin DOMAIN r.graves => q.graves[g] = {}
        /\ a \in DOMAIN r.graves => q.graves[a] = r.graves[a]
        /\ \A g \in DOMAIN r.graves \ dead : q.graves[g] = r.graves[g]
        /\ q.next = r.next
    <2>1. held \cap DOMAIN r.graves = {} /\ a \notin held
      BY <1>2, <1>4 DEF RegistrySound, NumbersUsedOnce
    <2>2. \A g \in DOMAIN q.graves :
            q.graves[g] = IF g \in DOMAIN r.graves /\ (g = a \/ g \notin dead)
                          THEN r.graves[g] ELSE {}
      BY <1>6
    <2>3. DOMAIN q.graves = DOMAIN r.graves \cup dead \cup held
      BY <1>6
    <2>4. \A g \in dead \cup held :
            g # a \/ g \notin DOMAIN r.graves => q.graves[g] = {}
      BY <1>3, <2>1, <2>2, <2>3
    <2>5. /\ a \in DOMAIN r.graves => q.graves[a] = r.graves[a]
          /\ \A g \in DOMAIN r.graves \ dead : q.graves[g] = r.graves[g]
      BY <2>2, <2>3
    <2>6. /\ DOMAIN q.apps = live /\ \A b \in live : AppOf(q, b) = AppOf(r, b)
          /\ DOMAIN q.options = DOMAIN r.options \ held
          /\ \A o \in DOMAIN q.options : OptionOf(q, o) = OptionOf(r, o)
          /\ q.next = r.next
      BY <1>6 DEF AppOf, OptionOf
    <2> QED BY <2>3, <2>4, <2>5, <2>6
  <1>8. IsRegistry(q)
    <2>1. q.apps \in [DOMAIN q.apps -> AppRecords]
      BY <1>1, <1>6
    <2>2. q.options \in [DOMAIN q.options -> OptionRecords]
      BY <1>1, <1>6
    <2>3. q.graves \in [DOMAIN q.graves -> SUBSET Nat]
      BY <1>1, <1>6
    <2> QED BY <1>1, <1>6, <2>1, <2>2, <2>3 DEF IsRegistry
  <1>9. NumbersUsedOnce(q)
    <2>1. /\ (DOMAIN r.apps \cup DOMAIN r.graves) \cap DOMAIN r.options = {}
          /\ DOMAIN r.apps \cup DOMAIN r.options \cup DOMAIN r.graves
               \subseteq 1 .. (r.next - 1)
      BY DEF RegistrySound, NumbersUsedOnce
    <2>2. DOMAIN q.apps \cup DOMAIN q.graves
            \subseteq DOMAIN r.apps \cup DOMAIN r.graves \cup held
      BY <1>3, <1>7
    <2>3. /\ DOMAIN q.options \subseteq DOMAIN r.options
          /\ DOMAIN q.options \cap held = {}
      BY <1>7
    <2>4. (DOMAIN q.apps \cup DOMAIN q.graves) \cap DOMAIN q.options = {}
      BY <2>1, <2>2, <2>3
    <2>5. DOMAIN q.apps \cup DOMAIN q.options \cup DOMAIN q.graves
            \subseteq DOMAIN r.apps \cup DOMAIN r.options \cup DOMAIN r.graves
      BY <1>4, <2>2, <2>3
    <2> QED BY <1>7, <2>1, <2>4, <2>5 DEF NumbersUsedOnce
  <1>10. OptionsHeldOnce(q)
    <2>1. ASSUME NEW b \in live
          PROVE  /\ ToSet(AppOf(r, b).options) \subseteq DOMAIN r.options \ held
                 /\ IsInjective(AppOf(r, b).options)
                 /\ \A c \in live \ {b} : ToSet(AppOf(r, b).options)
                                            \cap ToSet(AppOf(r, c).options) = {}
      BY <1>5 DEF RegistrySound, OptionsHeldOnce
    <2> QED BY <1>7, <2>1 DEF OptionsHeldOnce
  <1>11. AppsHeldOnce(q, roots \ {a})
    <2>1. \A d \in dead \ {a} : d \notin roots
      BY <1>3 DEF RegistrySound, AppsHeldOnce
    <2>2. 1 \in roots \ {a} /\ roots \ {a} \subseteq live
      BY <1>2, <2>1
    <2>3. ASSUME NEW b \in live
          PROVE  /\ IsInjective(AppOf(r, b).subs)
                 /\ \A s \in ToSet(AppOf(r, b).subs) :
                      /\ s \in live \ ((roots \ {a}) \cup {b})
                      /\ AppOf(r, s).parent = b
      <3>1. /\ IsInjective(AppOf(r, b).subs)
            /\ \A s \in ToSet(AppOf(r, b).subs) :
                 s \in DOMAIN r.apps \ (roots \cup {b}) /\ AppOf(r, s).parent = b
        BY DEF RegistrySound, AppsHeldOnce
      <3>2. ASSUME NEW s \in ToSet(AppOf(r, b).subs), s \in dead PROVE FALSE
        <4>1. s # a
          BY <3>1
        <4>2. PICK c \in dead : s \in ToSet(AppOf(r, c).subs)
          BY <1>3, <3>2, <4>1
        <4>3. AppOf(r, s).parent = c
          BY <1>3, <4>2 DEF RegistrySound, AppsHeldOnce
        <4> QED BY <3>1, <4>3
      <3> QED BY <3>1, <3>2
    <2>4. ASSUME NEW s \in live \ (roots \ {a})
          PROVE  LET p == AppOf(r, s).parent
                 IN p \in live /\ s \in ToSet(AppOf(r, p).subs)
      <3>1. s \in DOMAIN r.apps \ roots
        BY <1>3
      <3>2. LET p == AppOf(r, s).parent
            IN p \in DOMAIN r.apps /\ s \in ToSet(AppOf(r, p).subs)
        BY <3>1 DEF RegistrySound, AppsHeldOnce
      <3> QED BY <1>3, <3>2
    <2> QED BY <1>7, <2>2, <2>3, <2>4 DEF AppsHeldOnce
  <1>12. LinksKnown(q)
    <2>1. ASSUME NEW o \in DOMAIN q.options
          PROVE  OptionOf(q, o).needs \cup OptionOf(q, o).excludes
                   \subseteq DOMAIN q.options \cup DOMAIN q.graves
      <3>1. OptionOf(r, o).needs \cup OptionOf(r, o).excludes
              \subseteq DOMAIN r.options \cup DOMAIN r.graves
        BY <1>7 DEF RegistrySound, LinksKnown
      <3> QED BY <1>7, <3>1
    <2>2. ASSUME NEW b \in live
          PROVE  AppOf(q, b).needApps \cup AppOf(q, b).excludeApps
                   \subseteq DOMAIN q.apps \cup DOMAIN q.graves
      <3>1. AppOf(r, b).needApps \cup AppOf(r, b).excludeApps
              \subseteq DOMAIN r.apps \cup DOMAIN r.graves
        BY DEF RegistrySound, LinksKnown
      <3> QED BY <1>7, <3>1
    <2> QED BY <1>7, <2>1, <2>2 DEF LinksKnown
  <1>13. OptionsApart(q)
    <2>1. ASSUME NEW b \in live
          PROVE  \A o \in ToSet(AppOf(r, b).options) :
                   OptionOf(q, o) = OptionOf(r, o)
      BY <1>5, <1>7 DEF RegistrySound, OptionsHeldOnce
    <2> SUFFICES ASSUME NEW b \in live,
                        NEW v \in ToSet(AppOf(r, b).options),
                        NEW p \in ToSet(AppOf(r, b).options), v # p,
                        OptionOf(r, v).parent = b, OptionOf(r, p).parent = b
                 PROVE  /\ \A n \in OptionOf(r, v).short :
                             ~TakesShort(OptionOf(r, p), n)
                        /\ \A n \in OptionOf(r, v).long :
                             ~TakesLong(OptionOf(r, p), n)
      BY <1>7, <2>1 DEF OptionsApart
    <2> QED BY DEF RegistrySound, OptionsApart
  <1>14. OptionLinksLive(q)
    <2> SUFFICES ASSUME NEW o \in DOMAIN q.options,
                        NEW p \in (OptionOf(q, o).needs
                                   \cup OptionOf(q, o).excludes)
                                  \ DOMAIN q.options
                 PROVE  o \notin q.graves[p]
      BY DEF OptionLinksLive
    <2>1. o \in DOMAIN r.options /\ OptionOf(q, o) = OptionOf(r, o)
      BY <1>7
    <2>2. CASE p \in DOMAIN r.options
      <3>1. p \in held /\ p # a
        BY <1>2, <1>7, <2>2 DEF RegistrySound, NumbersUsedOnce
      <3> QED BY <1>7, <3>1
    <2>3. CASE p \notin DOMAIN r.options
      <3>1. p \in DOMAIN r.graves /\ o \notin r.graves[p]
        BY <2>1, <2>3 DEF RegistrySound, LinksKnown, OptionLinksLive
      <3>2. CASE p \in dead
        BY <1>7, <3>1, <3>2
      <3>3. CASE p \notin dead
        BY <1>7, <3>1, <3>3
      <3> QED BY <3>2, <3>3
    <2> QED BY <2>2, <2>3
  <1>15. AppLinksLive(q)
    <2> SUFFICES ASSUME NEW b \in live
                 PROVE  LET x == AppOf(r, b)
                        IN /\ \A c \in (x.needApps \cup x.excludeApps) \ live :
                                b \notin q.graves[c]
                           /\ \A c \in x.excludeApps \cap live :
                                b \in AppOf(r, c).excludeApps
      BY <1>7 DEF AppLinksLive
    <2>1. ASSUME NEW c \in (AppOf(r, b).needApps \cup AppOf(r, b).excludeApps)
                           \ live
          PROVE  b \notin q.graves[c]
      <3>1. CASE c \in DOMAIN r.apps
        <4>1. c \in dead
          BY <3>1
        <4>2. CASE c = a /\ a \in DOMAIN r.graves
          BY <1>7, <4>2 DEF Told
        <4>3. CASE ~(c = a /\ a \in DOMAIN r.graves)
          BY <1>7, <4>1, <4>3
        <4> QED BY <4>2, <4>3
      <3>2. CASE c \notin DOMAIN r.apps
        <4>1. c \in DOMAIN r.graves /\ b \notin r.graves[c]
          BY <3>2 DEF RegistrySound, LinksKnown, AppLinksLive
        <4> QED BY <1>3, <1>7, <3>2, <4>1
      <3> QED BY <3>1, <3>2
    <2>2. \A c \in AppOf(r, b).excludeApps \cap live :
            b \in AppOf(r, c).excludeApps
      BY DEF RegistrySound, AppLinksLive
    <2> QED BY <2>1, <2>2
  <1>16. PointersLive(q)
    BY <1>7 DEF RegistrySound, PointersLive
  <1> QED BY <1>8, <1>9, <1>10, <1>11, <1>12, <1>13, <1>14, <1>15, <1>16
          DEF RegistrySound, q

(* A subcommand that its parent has let go, and told its sisters of.       *)
LEMMA ReleasedSound ==
  ASSUME NEW r, NEW roots, RegistrySound(r, roots), NEW a \in DOMAIN r.apps,
         NEW s \in ToSet(AppOf(r, a).subs)
  PROVE  LET q == Released(r, a, s)
         IN /\ RegistrySound(q, roots \cup {s}) /\ Told(q, s)
            /\ DOMAIN q.apps = DOMAIN r.apps /\ q.threw = r.threw
  <1> DEFINE q == Released(r, a, s)
             sisters == ToSet(AppOf(r, a).subs)
             Excluded(t) ==
               IF t = s
               THEN {b \in sisters : s \in AppOf(r, b).excludeApps} \cup {s}
               ELSE {s}
             Cut(t) == [AppOf(r, t) EXCEPT !.needApps = @ \ {s},
                                           !.excludeApps = @ \ Excluded(t)]
             told == [t \in DOMAIN r.apps |->
                        IF t \notin sisters THEN AppOf(r, t) ELSE Cut(t)]
             less == Without(AppOf(r, a).subs, s)
  <1>1. /\ r \in [apps : {r.apps}, options : {r.options}, next : Nat,
                  graves : {r.graves}, made : Nat, threw : BOOLEAN]
        /\ r.apps \in [DOMAIN r.apps -> AppRecords]
        /\ r.options \in [DOMAIN r.options -> OptionRecords]
        /\ r.graves \in [DOMAIN r.graves -> SUBSET Nat]
    BY DEF RegistrySound, IsRegistry
  <1>2. ASSUME NEW b \in DOMAIN r.apps
        PROVE  /\ AppOf(r, b) \in AppRecords /\ AppOf(r, b).subs \in Seq(Nat)
               /\ IsInjective(AppOf(r, b).subs)
               /\ \A c \in ToSet(AppOf(r, b).subs) :
                    /\ c \in DOMAIN r.apps \ (roots \cup {b})
                    /\ AppOf(r, c).parent = b
    BY <1>1 DEF AppOf, AppRecords, RegistrySound, AppsHeldOnce
  <1>3. /\ s \in DOMAIN r.apps \ roots /\ s # a /\ a \notin sisters
        /\ sisters \subseteq DOMAIN r.apps /\ s \in Nat /\ sisters \subseteq Nat
    <2>1. DOMAIN r.apps \subseteq Nat
      BY DEF RegistrySound, IsRegistry, NumbersUsedOnce
    <2> QED BY <1>2, <2>1
  <1>4. less \in Seq(Nat) /\ ToSet(less) = sisters \ {s} /\ IsInjective(less)
    BY <1>2, SetWithout
  <1>5. ASSUME NEW t \in DOMAIN r.apps
        PROVE  LET x == told[t]  y == AppOf(r, t)
               IN /\ x \in AppRecords
                  /\ x.parent = y.parent /\ x.options = y.options
                  /\ x.subs = y.subs /\ x.help = y.help /\ x.helpAll = y.helpAll
                  /\ x.needApps = IF t \in sisters THEN y.needApps \ {s}
                                  ELSE y.needApps
                  /\ x.excludeApps = IF t \in sisters
                                     THEN y.excludeApps \ Excluded(t)
                                     ELSE y.excludeApps
    <2> DEFINE x == told[t]
               y == AppOf(r, t)
               gone == Excluded(t)
    <2>1. /\ y \in AppRecords
          /\ x = IF t \notin sisters THEN y
                 ELSE [y EXCEPT !.needApps = @ \ {s}, !.excludeApps = @ \ gone]
      BY <1>2
    <2> HIDE DEF x, y, gone
    <2>2. x \in AppRecords
      BY <2>1 DEF AppRecords
    <2>3. /\ x.parent = y.parent /\ x.options = y.options
          /\ x.subs = y.subs /\ x.help = y.help /\ x.helpAll = y.helpAll
          /\ x.needApps = IF t \in sisters THEN y.needApps \ {s} ELSE y.needApps
          /\ x.excludeApps = IF t \in sisters THEN y.excludeApps \ gone
                             ELSE y.excludeApps
      BY <2>1 DEF AppRecords
    <2> QED BY <2>2, <2>3 DEF x, y, gone
  <1>6. /\ q \in [apps : {q.apps}, options : {r.options}, next : {r.next},
                  graves : {q.graves}, made : {r.made}, threw : {r.threw}]
        /\ q.apps = [told EXCEPT ![a].subs = less]
        /\ q.graves = [g \in DOMAIN r.graves \cup {s} |->
                         IF g = s THEN sisters ELSE r.graves[g]]
    BY <1>1 DEF Released
  <1> DEFINE xa == [told[a] EXCEPT !.subs = less]
  <1>7. /\ DOMAIN q.apps = DOMAIN r.apps
        /\ \A b \in DOMAIN r.apps : b # a => AppOf(q, b) = told[b]
        /\ AppOf(q, a) = xa
    <2>1. DOMAIN told = DOMAIN r.apps
      OBVIOUS
    <2> HIDE DEF q, told, less
    <2> QED BY <1>6, <2>1 DEF AppOf
  <1>8. LET y == AppOf(r, a)
        IN /\ xa \in AppRecords /\ xa.subs = less
           /\ xa.parent = y.parent /\ xa.options = y.options
           /\ xa.help = y.help /\ xa.helpAll = y.helpAll
           /\ xa.needApps = y.needApps /\ xa.excludeApps = y.excludeApps
    <2> DEFINE x == told[a]
    <2>1. /\ x \in AppRecords /\ x.parent = AppOf(r, a).parent
          /\ x.options = AppOf(r, a).options /\ x.help = AppOf(r, a).help
          /\ x.helpAll = AppOf(r, a).helpAll
          /\ x.needApps = AppOf(r, a).needApps
          /\ x.excludeApps = AppOf(r, a).excludeApps
      BY <1>3, <1>5
    <2> HIDE DEF x, less
    <2>2. LET z == [x EXCEPT !.subs = less]
          IN /\ z \in AppRecords /\ z.subs = less
             /\ z.parent = x.parent /\ z.options = x.options
             /\ z.help = x.help /\ z.helpAll = x.helpAll
             /\ z.needApps = x.needApps /\ z.excludeApps = x.excludeApps
      BY <1>4, <2>1 DEF AppRecords
    <2> QED BY <2>1, <2>2 DEF x
  <1> HIDE DEF q, told, less, xa, Excluded
  <1>9. ASSUME NEW b \in DOMAIN r.apps
        PROVE  LET x == AppOf(q, b)  y == AppOf(r, b)
               IN /\ x \in AppRecords
                  /\ x.parent = y.parent /\ x.options = y.options
                  /\ x.help = y.help /\ x.helpAll = y.helpAll
                  /\ IsInjective(x.subs)
                  /\ ToSet(x.subs) = IF b = a THEN sisters \ {s}
                                     ELSE ToSet(y.subs)
                  /\ x.needApps = IF b \in sisters THEN y.needApps \ {s}
                                  ELSE y.needApps
                  /\ x.excludeApps = IF b \in sisters
                                     THEN y.excludeApps \ Excluded(b)
                                     ELSE y.excludeApps
    <2>1. CASE b = a
      BY <1>3, <1>4, <1>7, <1>8, <2>1
    <2>2. CASE b # a
      <3>1. AppOf(q, b) = told[b] /\ IsInjective(AppOf(r, b).subs)
        BY <1>2, <1>7, <2>2
      <3> QED BY <1>5, <2>2, <3>1
    <2> QED BY <2>1, <2>2
  <1>10. /\ q.options = r.options /\ q.next = r.next
         /\ DOMAIN q.graves = DOMAIN r.graves \cup {s} /\ q.graves[s] = sisters
         /\ \A g \in DOMAIN r.graves \ {s} : q.graves[g] = r.graves[g]
         /\ \A o : OptionOf(q, o) = OptionOf(r, o)
    BY <1>6 DEF OptionOf
  <1>11. IsRegistry(q)
    <2>1. q.apps \in [DOMAIN q.apps -> AppRecords]
      <3>1. \A b \in DOMAIN q.apps : q.apps[b] \in AppRecords
        BY <1>7, <1>9 DEF AppOf
      <3>2. q.apps = [b \in DOMAIN q.apps |-> q.apps[b]]
        BY <1>6 DEF told
      <3> QED BY <3>1, <3>2
    <2>2. q.graves \in [DOMAIN q.graves -> SUBSET Nat]
      BY <1>1, <1>3, <1>6
    <2> QED BY <1>1, <1>6, <2>1, <2>2 DEF IsRegistry
  <1>12. NumbersUsedOnce(q)
    BY <1>3, <1>7, <1>10 DEF RegistrySound, NumbersUsedOnce
  <1>13. OptionsHeldOnce(q)
    BY <1>7, <1>9, <1>10 DEF RegistrySound, OptionsHeldOnce
  <1>14. AppsHeldOnce(q, roots \cup {s})
    <2>1. 1 \in roots \cup {s} /\ roots \cup {s} \subseteq DOMAIN q.apps
      BY <1>3, <1>7 DEF RegistrySound, AppsHeldOnce
    <2>2. ASSUME NEW b \in DOMAIN r.apps, NEW c \in ToSet(AppOf(q, b).subs)
          PROVE  /\ c \in DOMAIN r.apps \ ((roots \cup {s}) \cup {b})
                 /\ AppOf(q, c).parent = b
      <3>1. c \in ToSet(AppOf(r, b).subs)
        BY <1>9
      <3>2. c \in DOMAIN r.apps \ (roots \cup {b}) /\ AppOf(r, c).parent = b
        BY <1>2, <3>1
      <3>3. c # s
        <4>1. CASE b = a
          BY <1>9, <4>1
        <4>2. CASE b # a
          BY <1>2, <3>2, <4>2
        <4> QED BY <4>1, <4>2
      <3> QED BY <1>9, <3>2, <3>3
    <2>3. ASSUME NEW c \in DOMAIN r.apps \ (roots \cup {s})
          PROVE  LET p == AppOf(q, c).parent
                 IN p \in DOMAIN r.apps /\ c \in ToSet(AppOf(q, p).subs)
      <3>1. LET p == AppOf(r, c).parent
            IN p \in DOMAIN r.apps /\ c \in ToSet(AppOf(r, p).subs)
        BY DEF RegistrySound, AppsHeldOnce
      <3> QED BY <1>9, <3>1
    <2> QED BY <1>7, <1>9, <2>1, <2>2, <2>3 DEF AppsHeldOnce
  <1>15. LinksKnown(q)
    <2>1. ASSUME NEW b \in DOMAIN r.apps
          PROVE  AppOf(q, b).needApps \cup AppOf(q, b).excludeApps
                   \subseteq DOMAIN q.apps \cup DOMAIN q.graves
      <3>1. AppOf(q, b).needApps \cup AppOf(q, b).excludeApps
              \subseteq AppOf(r, b).needApps \cup AppOf(r, b).excludeApps
        BY <1>9
      <3> QED BY <1>7, <1>10, <3>1 DEF RegistrySound, LinksKnown
    <2> QED BY <1>7, <1>10, <2>1 DEF RegistrySound, LinksKnown
  <1>16. OptionsApart(q)
    <2> SUFFICES ASSUME NEW b \in DOMAIN r.apps,
                        NEW o \in ToSet(AppOf(r, b).options),
                        NEW p \in ToSet(AppOf(r, b).options), o # p,
                        OptionOf(r, o).parent = b, OptionOf(r, p).parent = b
                 PROVE  /\ \A n \in OptionOf(r, o).short :
                             ~TakesShort(OptionOf(r, p), n)
                        /\ \A n \in OptionOf(r, o).long :
                             ~TakesLong(OptionOf(r, p), n)
      <3>1. \A b \in DOMAIN r.apps : AppOf(q, b).options = AppOf(r, b).options
        BY <1>9
      <3> QED BY <1>7, <1>10, <3>1 DEF OptionsApart
    <2> QED BY DEF RegistrySound, OptionsApart
  <1>17. OptionLinksLive(q)
    <2>1. ASSUME NEW o \in DOMAIN r.options,
                 NEW p \in (OptionOf(r, o).needs \cup OptionOf(r, o).excludes)
                           \ DOMAIN r.options
          PROVE  o \notin q.graves[p]
      <3>1. p \in DOMAIN r.graves /\ o \notin r.graves[p]
        BY DEF RegistrySound, LinksKnown, OptionLinksLive
      <3>2. o \notin sisters
        BY <1>3 DEF RegistrySound, NumbersUsedOnce
      <3> QED BY <1>10, <3>1, <3>2
    <2> QED BY <1>10, <2>1 DEF OptionLinksLive
  <1>18. AppLinksLive(q)
    <2>1. ASSUME NEW b \in DOMAIN r.apps,
                 NEW c \in (AppOf(q, b).needApps \cup AppOf(q, b).excludeApps)
                           \ DOMAIN r.apps
          PROVE  b \notin q.graves[c]
      <3>1. c \in AppOf(r, b).needApps \cup AppOf(r, b).excludeApps
        BY <1>9
      <3>2. c \in DOMAIN r.graves /\ b \notin r.graves[c]
        BY <3>1 DEF RegistrySound, LinksKnown, AppLinksLive
      <3> QED BY <1>3, <1>10, <3>2
    <2>2. ASSUME NEW b \in DOMAIN r.apps,
                 NEW c \in AppOf(q, b).excludeApps \cap DOMAIN r.apps
          PROVE  b \in AppOf(q, c).excludeApps
      <3>1. c \in AppOf(r, b).excludeApps /\ b \in AppOf(r, c).excludeApps
        BY <1>9 DEF RegistrySound, AppLinksLive
      <3>2. /\ b \in sisters => c \notin Excluded(b)
            /\ c \in sisters => AppOf(q, c).excludeApps
                                  = AppOf(r, c).excludeApps \ Excluded(c)
            /\ c \notin sisters => AppOf(q, c).excludeApps = AppOf(r, c).excludeApps
        BY <1>9
      <3>3. c \in sisters => b \notin Excluded(c)
        BY <3>1, <3>2 DEF Excluded
      <3> QED BY <3>1, <3>2, <3>3
    <2> QED BY <1>7, <2>1, <2>2 DEF AppLinksLive
  <1>19. PointersLive(q)
    <2>1. \A b \in DOMAIN r.apps :
            /\ AppOf(q, b).options = AppOf(r, b).options
            /\ AppOf(q, b).help = AppOf(r, b).help
            /\ AppOf(q, b).helpAll = AppOf(r, b).helpAll
      BY <1>9
    <2> QED BY <1>7, <2>1 DEF RegistrySound, PointersLive
  <1>20. Told(q, s)
    <2>1. ASSUME NEW b \in sisters
          PROVE  s \notin AppOf(q, b).needApps \cup AppOf(q, b).excludeApps
      BY <1>3, <1>9 DEF Excluded
    <2> QED BY <1>7, <1>10, <2>1 DEF Told
  <1> QED BY <1>6, <1>7, <1>11, <1>12, <1>13, <1>14, <1>15, <1>16, <1>17, <1>18,
             <1>19, <1>20 DEF RegistrySound, q

(* A root is taken in, or the call throws.                                 *)
LEMMA AdoptSound ==
  ASSUME NEW r, NEW roots, NEW id, RegistrySound(r, roots \cup {id}),
         1 \in roots, id \notin roots, NEW a \in DOMAIN r.apps, a # id,
         Told(r, id)
  PROVE  RegistrySound(Adopt(r, a, id), roots)
  <1> DEFINE q == Adopt(r, a, id)
             all == roots \cup {id}
             gone == Destroyed(r, id)
             z == [r EXCEPT !.apps[id].parent = a, !.apps[a].subs = Append(@, id),
                            !.made = id]
  <1>1. q = Throws(gone) \/ q = z
    BY DEF Adopt
  <1>2. id \in all /\ id # 1 /\ all \ {id} = roots
    OBVIOUS
  <1>3. id \in DOMAIN r.apps
    BY DEF RegistrySound, AppsHeldOnce
  <1>4. CASE q = Throws(gone)
    <2> HIDE DEF q, gone, all
    <2>1. RegistrySound(Destroyed(r, id), all \ {id})
      BY <1>2, DestroyedSound DEF all
    <2>2. RegistrySound(gone, roots)
      BY <1>2, <2>1 DEF gone
    <2>3. RegistrySound(Throws(gone), roots)
      BY <2>2, ThrowsSound
    <2> QED BY <1>4, <2>3 DEF q
  <1>5. CASE q = z
    <2> HIDE DEF q
    <2> DEFINE sisters == ToSet(AppOf(r, a).subs)
               more == Append(AppOf(r, a).subs, id)
               xa == [AppOf(r, a) EXCEPT !.subs = more]
               xi == [AppOf(r, id) EXCEPT !.parent = a]
    <2>1. /\ r \in [apps : {r.apps}, options : {r.options}, next : Nat,
                    graves : {r.graves}, made : Nat, threw : BOOLEAN]
          /\ r.apps \in [DOMAIN r.apps -> AppRecords]
      BY DEF RegistrySound, IsRegistry
    <2>2. ASSUME NEW b \in DOMAIN r.apps
          PROVE  /\ AppOf(r, b) \in AppRecords /\ AppOf(r, b).subs \in Seq(Nat)
                 /\ IsInjective(AppOf(r, b).subs)
                 /\ \A c \in ToSet(AppOf(r, b).subs) :
                      /\ c \in DOMAIN r.apps \ (all \cup {b})
                      /\ AppOf(r, c).parent = b
      BY <2>1 DEF AppOf, AppRecords, RegistrySound, AppsHeldOnce
    <2>3. id \in Nat /\ a \in Nat /\ id \notin sisters
      <3>1. DOMAIN r.apps \subseteq Nat
        BY DEF RegistrySound, IsRegistry, NumbersUsedOnce
      <3> QED BY <1>3, <2>2, <3>1
    <2>4. more \in Seq(Nat) /\ ToSet(more) = sisters \cup {id} /\ IsInjective(more)
      BY <2>2, <2>3, SetOfAppend
    <2>5. /\ z \in [apps : {z.apps}, options : {r.options}, next : {r.next},
                    graves : {r.graves}, made : {id}, threw : {r.threw}]
          /\ z.apps = [r.apps EXCEPT ![id].parent = a, ![a].subs = more]
      BY <1>3, <2>1 DEF AppOf
    <2> HIDE DEF z, more
    <2>6. /\ DOMAIN z.apps = DOMAIN r.apps
          /\ \A b \in DOMAIN r.apps \ {a, id} : AppOf(z, b) = AppOf(r, b)
          /\ AppOf(z, a) = xa /\ AppOf(z, id) = xi
      BY <1>3, <2>1, <2>5 DEF AppOf
    <2>7. LET y == AppOf(r, a)
          IN /\ xa \in AppRecords /\ xa.subs = more
             /\ xa.parent = y.parent /\ xa.options = y.options
             /\ xa.help = y.help /\ xa.helpAll = y.helpAll
             /\ xa.needApps = y.needApps /\ xa.excludeApps = y.excludeApps
      <3> DEFINE y == AppOf(r, a)
      <3>1. y \in AppRecords
        BY <2>2
      <3> HIDE DEF y
      <3>2. LET x == [y EXCEPT !.subs = more]
            IN /\ x \in AppRecords /\ x.subs = more
               /\ x.parent = y.parent /\ x.options = y.options
               /\ x.help = y.help /\ x.helpAll = y.helpAll
               /\ x.needApps = y.needApps /\ x.excludeApps = y.excludeApps
        BY <2>4, <3>1 DEF AppRecords
      <3> QED BY <3>2 DEF y
    <2>8. LET y == AppOf(r, id)
          IN /\ xi \in AppRecords /\ xi.parent = a
             /\ xi.subs = y.subs /\ xi.options = y.options
             /\ xi.help = y.help /\ xi.helpAll = y.helpAll
             /\ xi.needApps = y.needApps /\ xi.excludeApps = y.excludeApps
      <3> DEFINE y == AppOf(r, id)
      <3>1. y \in AppRecords
        BY <1>3, <2>2
      <3> HIDE DEF y
      <3>2. LET x == [y EXCEPT !.parent = a]
            IN /\ x \in AppRecords /\ x.parent = a
               /\ x.subs = y.subs /\ x.options = y.options
               /\ x.help = y.help /\ x.helpAll = y.helpAll
               /\ x.needApps = y.needApps /\ x.excludeApps = y.excludeApps
        BY <2>3, <3>1 DEF AppRecords
      <3> QED BY <3>2 DEF y
    <2> HIDE DEF xa, xi
    <2>9. ASSUME NEW b \in DOMAIN r.apps
          PROVE  LET x == AppOf(z, b)  y == AppOf(r, b)
                 IN /\ x \in AppRecords
                    /\ x.parent = IF b = id THEN a ELSE y.parent
                    /\ x.options = y.options
                    /\ x.help = y.help /\ x.helpAll = y.helpAll
                    /\ IsInjective(x.subs)
                    /\ ToSet(x.subs) = IF b = a THEN sisters \cup {id}
                                       ELSE ToSet(y.subs)
                    /\ x.needApps = y.needApps /\ x.excludeApps = y.excludeApps
      <3>1. CASE b = a
        BY <2>4, <2>6, <2>7, <3>1
      <3>2. CASE b = id
        BY <2>2, <2>6, <2>8, <3>2
      <3>3. CASE b # a /\ b # id
        BY <2>2, <2>6, <3>3
      <3> QED BY <3>1, <3>2, <3>3
    <2>10. /\ z.options = r.options /\ z.next = r.next /\ z.graves = r.graves
           /\ \A o : OptionOf(z, o) = OptionOf(r, o)
      BY <2>5 DEF OptionOf
    <2>11. IsRegistry(z)
      <3>1. z.apps \in [DOMAIN z.apps -> AppRecords]
        <4>1. \A b \in DOMAIN z.apps : z.apps[b] \in AppRecords
          BY <2>6, <2>9 DEF AppOf
        <4> QED BY <2>1, <2>5, <4>1
      <3> QED BY <2>1, <2>3, <2>5, <2>10, <3>1 DEF RegistrySound, IsRegistry
    <2>12. NumbersUsedOnce(z)
      BY <2>6, <2>10 DEF RegistrySound, NumbersUsedOnce
    <2>13. OptionsHeldOnce(z)
      <3>1. \A b \in DOMAIN r.apps : AppOf(z, b).options = AppOf(r, b).options
        BY <2>9
      <3> QED BY <2>6, <2>10, <3>1 DEF RegistrySound, OptionsHeldOnce
    <2>14. AppsHeldOnce(z, roots)
      <3>1. 1 \in roots /\ roots \subseteq DOMAIN z.apps
        BY <2>6 DEF RegistrySound, AppsHeldOnce
      <3>2. ASSUME NEW b \in DOMAIN r.apps, NEW c \in ToSet(AppOf(z, b).subs)
            PROVE  /\ c \in DOMAIN r.apps \ (roots \cup {b})
                   /\ AppOf(z, c).parent = b
        <4>1. CASE c = id
          <5>1. b = a
            BY <2>2, <2>9, <4>1
          <5> QED BY <1>3, <2>9, <4>1, <5>1
        <4>2. CASE c # id
          <5>1. c \in ToSet(AppOf(r, b).subs)
            BY <2>9, <4>2
          <5> QED BY <2>2, <2>9, <4>2, <5>1
        <4> QED BY <4>1, <4>2
      <3>3. ASSUME NEW c \in DOMAIN r.apps \ roots
            PROVE  LET p == AppOf(z, c).parent
                   IN p \in DOMAIN r.apps /\ c \in ToSet(AppOf(z, p).subs)
        <4>1. CASE c = id
          BY <2>9, <4>1
        <4>2. CASE c # id
          <5>1. LET p == AppOf(r, c).parent
                IN p \in DOMAIN r.apps /\ c \in ToSet(AppOf(r, p).subs)
            BY <4>2 DEF RegistrySound, AppsHeldOnce
          <5> QED BY <2>9, <4>2, <5>1
        <4> QED BY <4>1, <4>2
      <3> QED BY <2>6, <2>9, <3>1, <3>2, <3>3 DEF AppsHeldOnce
    <2>15. LinksKnown(z)
      BY <2>6, <2>9, <2>10 DEF RegistrySound, LinksKnown
    <2>16. OptionsApart(z)
      BY <2>6, <2>9, <2>10 DEF RegistrySound, OptionsApart
    <2>17. OptionLinksLive(z)
      BY <2>10 DEF RegistrySound, OptionLinksLive
    <2>18. AppLinksLive(z)
      BY <2>6, <2>9, <2>10 DEF RegistrySound, AppLinksLive
    <2>19. PointersLive(z)
      BY <2>6, <2>9 DEF RegistrySound, PointersLive
    <2> QED BY <1>5, <2>11, <2>12, <2>13, <2>14, <2>15, <2>16, <2>17, <2>18,
               <2>19 DEF RegistrySound, q
  <1> QED BY <1>1, <1>4, <1>5

(* A new app for a: it is taken in or destroyed.                           *)
LEMMA AddedSound ==
  ASSUME NEW r, NEW roots, RegistrySound(r, roots), NEW a \in DOMAIN r.apps,
         NEW name \in Names \cup {NoName}, NEW bare \in BOOLEAN
  PROVE  RegistrySound(Adopt(NewApp(r, name, a, bare), a, r.next), roots)
  <1> DEFINE id == r.next
             q == NewApp(r, name, a, bare)
  <1>1. RegistrySound(q, roots \cup {id}) /\ Fresh(r, q, id)
    BY NewAppSound
  <1> HIDE DEF q
  <1>2. 1 \in roots /\ roots \subseteq DOMAIN r.apps
    BY DEF RegistrySound, AppsHeldOnce
  <1>3. id \notin roots /\ a \in DOMAIN q.apps /\ a # id
    BY <1>1, <1>2 DEF Fresh
  <1>4. Told(q, id)
    <2>1. id \notin DOMAIN r.apps \cup DOMAIN r.graves
      BY DEF RegistrySound, IsRegistry, NumbersUsedOnce
    <2>2. ASSUME NEW b \in DOMAIN q.apps
          PROVE  id \notin AppOf(q, b).needApps \cup AppOf(q, b).excludeApps
      <3>1. CASE b = id
        BY <1>1, <3>1 DEF Fresh
      <3>2. CASE b \in DOMAIN r.apps
        BY <1>1, <2>1, <3>2 DEF Fresh, RegistrySound, LinksKnown
      <3> QED BY <1>1, <3>1, <3>2 DEF Fresh
    <2> QED BY <2>2 DEF Told
  <1> HIDE DEF id
  <1>5. RegistrySound(Adopt(q, a, id), roots)
    BY <1>1, <1>2, <1>3, <1>4, AdoptSound
  <1> QED BY <1>5 DEF q, id

(* remove_subcommand() tells the sisters and destroys.                     *)
LEMMA RemoveSubcommandSound ==
  ASSUME NEW r, NEW roots, RegistrySound(r, roots), NEW a \in DOMAIN r.apps,
         NEW s \in ToSet(AppOf(r, a).subs)
  PROVE  RegistrySound(RemoveSubcommand(r, a, s), roots)
  <1> DEFINE q == Released(r, a, s)
             all == roots \cup {s}
  <1>1. RegistrySound(q, all) /\ Told(q, s)
    BY ReleasedSound
  <1>2. s \notin roots /\ 1 \in roots
    BY DEF RegistrySound, AppsHeldOnce
  <1>3. s \in all /\ s # 1 /\ all \ {s} = roots
    BY <1>2
  <1> HIDE DEF q, all
  <1>4. RegistrySound(Destroyed(q, s), all \ {s})
    BY <1>1, <1>3, DestroyedSound
  <1> QED BY <1>3, <1>4 DEF RemoveSubcommand, q

(* Option_group::add_subcommand() takes an app from its parent: the tree   *)
(* stays a tree.                                                           *)
LEMMA TakeSubcommandSound ==
  ASSUME NEW r, NEW roots, RegistrySound(r, roots), NEW g \in DOMAIN r.apps,
         NEW s \in DOMAIN r.apps \ roots, g # s
  PROVE  RegistrySound(TakeSubcommand(r, g, s), roots)
  <1> DEFINE p == AppOf(r, s).parent
             q == Released(r, p, s)
  <1>1. p \in DOMAIN r.apps /\ s \in ToSet(AppOf(r, p).subs) /\ 1 \in roots
    BY DEF RegistrySound, AppsHeldOnce
  <1> HIDE DEF p
  <1>2. /\ RegistrySound(q, roots \cup {s}) /\ Told(q, s)
        /\ DOMAIN q.apps = DOMAIN r.apps
    BY <1>1, ReleasedSound
  <1> HIDE DEF q
  <1>3. g \in DOMAIN q.apps
    BY <1>2
  <1>4. RegistrySound(Adopt(q, g, s), roots)
    BY <1>1, <1>2, <1>3, AdoptSound
  <1> QED BY <1>4 DEF TakeSubcommand, q, p

(* An app that keeps its place: renamed, or set otherwise.                 *)
Settled(r, a, x) ==
  /\ x \in AppRecords /\ SamePlace(x, AppOf(r, a))
  /\ x.help = AppOf(r, a).help /\ x.helpAll = AppOf(r, a).helpAll

(* An app that keeps its place may be set, after a comparison or not.      *)
LEMMA SettledSound ==
  ASSUME NEW r, NEW roots, RegistrySound(r, roots), NEW a \in DOMAIN r.apps,
         NEW x, Settled(r, a, x)
  PROVE  /\ RegistrySound(Changed(r, a, x), roots)
         /\ RegistrySound(Try(r, a, x), roots)
  <1> DEFINE q == Changed(r, a, x)
  <1>1. {x.help, x.helpAll} \subseteq ToSet(x.options) \cup {0}
    BY DEF Settled, SamePlace, RegistrySound, PointersLive
  <1>2. RegistrySound(q, roots)
    BY <1>1, ChangeApp DEF Settled, Changed
  <1>3. RegistrySound(Throws(r), roots)
    BY ThrowsSound
  <1>4. Try(r, a, x) \in {q, Throws(r)}
    BY DEF Try, Changed
  <1> HIDE DEF q
  <1>5. RegistrySound(Try(r, a, x), roots)
    BY <1>2, <1>3, <1>4
  <1> QED BY <1>2, <1>5 DEF q

(* name() compares the names of all but a root.                            *)
LEMMA RenameSound ==
  ASSUME NEW r, NEW roots, RegistrySound(r, roots), NEW a \in DOMAIN r.apps,
         NEW name \in Names \cup {NoName}
  PROVE  RegistrySound(Rename(r, a, name), roots)
  <1> DEFINE y == AppOf(r, a)
             x == [y EXCEPT !.name = name]
  <1>1. y \in AppRecords
    BY DEF RegistrySound, IsRegistry, AppOf
  <1>2. \/ Rename(r, a, name) = Changed(r, a, x)
        \/ Rename(r, a, name) = Try(r, a, x)
    BY DEF Rename, Changed
  <1> HIDE DEF y
  <1>3. x \in AppRecords /\ SamePlace(x, y) /\ x.help = y.help
        /\ x.helpAll = y.helpAll
    BY <1>1 DEF AppRecords, SamePlace
  <1> HIDE DEF x
  <1>4. Settled(r, a, x)
    BY <1>3 DEF Settled, y
  <1> QED BY <1>2, <1>4, SettledSound

(* alias() compares the names of all but a root.                           *)
LEMMA AliasSound ==
  ASSUME NEW r, NEW roots, RegistrySound(r, roots), NEW a \in DOMAIN r.apps,
         NEW name \in Names
  PROVE  RegistrySound(Alias(r, a, name), roots)
  <1> DEFINE y == AppOf(r, a)
             x == [y EXCEPT !.aliases = @ \cup {name}]
  <1>1. y \in AppRecords
    BY DEF RegistrySound, IsRegistry, AppOf
  <1>2. \/ Alias(r, a, name) = Changed(r, a, x)
        \/ Alias(r, a, name) = Try(r, a, x)
    BY DEF Alias, Changed
  <1> HIDE DEF y
  <1>3. x \in AppRecords /\ SamePlace(x, y) /\ x.help = y.help
        /\ x.helpAll = y.helpAll
    BY <1>1 DEF AppRecords, SamePlace
  <1> HIDE DEF x
  <1>4. Settled(r, a, x)
    BY <1>3 DEF Settled, y
  <1> QED BY <1>2, <1>4, SettledSound

(* ignore_case() and ignore_underscore() of an app compare its names.      *)
LEMMA IgnoreInAppSound ==
  ASSUME NEW r, NEW roots, RegistrySound(r, roots), NEW a \in DOMAIN r.apps,
         NEW field \in Fields, NEW value \in BOOLEAN
  PROVE  RegistrySound(IgnoreInApp(r, a, field, value), roots)
  <1> DEFINE y == AppOf(r, a)
             set == [y EXCEPT ![field] = value]
             hide == set.hidden \/ (set.case /\ set.under)
             x == [set EXCEPT !.hidden = hide]
  <1>1. y \in AppRecords
    BY DEF RegistrySound, IsRegistry, AppOf
  <1>2. \/ IgnoreInApp(r, a, field, value) = Changed(r, a, x)
        \/ IgnoreInApp(r, a, field, value) = Try(r, a, x)
    <2>1. set \in AppRecords
      <3> HIDE DEF y
      <3>1. CASE field = "case"
        BY <1>1, <3>1 DEF AppRecords
      <3>2. CASE field = "under"
        BY <1>1, <3>2 DEF AppRecords
      <3> QED BY <3>1, <3>2 DEF Fields
    <2>2. [set EXCEPT !.hidden = @ \/ (set.case /\ set.under)] = x
      BY <2>1
    <2> QED BY <2>2 DEF IgnoreInApp, Changed
  <1> HIDE DEF y
  <1>3. set \in AppRecords /\ SamePlace(set, y) /\ set.help = y.help
        /\ set.helpAll = y.helpAll
    <2>1. CASE field = "case"
      BY <1>1, <2>1 DEF AppRecords, SamePlace
    <2>2. CASE field = "under"
      BY <1>1, <2>2 DEF AppRecords, SamePlace
    <2> QED BY <2>1, <2>2 DEF Fields
  <1> HIDE DEF set
  <1>4. hide \in BOOLEAN
    BY <1>3 DEF AppRecords
  <1> HIDE DEF hide
  <1>5. x \in AppRecords
    BY <1>3, <1>4 DEF AppRecords
  <1>6. SamePlace(x, set) /\ x.help = set.help /\ x.helpAll = set.helpAll
    BY <1>3 DEF AppRecords, SamePlace
  <1> HIDE DEF x
  <1>7. SamePlace(x, y)
    BY <1>3, <1>6 DEF SamePlace
  <1>8. Settled(r, a, x)
    BY <1>3, <1>5, <1>6, <1>7 DEF Settled, y
  <1> QED BY <1>2, <1>8, SettledSound

(* disabled() compares nothing.                                            *)
LEMMA DisableSound ==
  ASSUME NEW r, NEW roots, RegistrySound(r, roots), NEW a \in DOMAIN r.apps,
         NEW value \in BOOLEAN
  PROVE  RegistrySound(Disable(r, a, value), roots)
  <1> DEFINE y == AppOf(r, a)
             x == [y EXCEPT !.disabled = value, !.hidden = TRUE]
  <1>1. /\ r \in [apps : {r.apps}, options : {r.options}, next : Nat,
                  graves : {r.graves}, made : Nat, threw : BOOLEAN]
        /\ r.apps \in [DOMAIN r.apps -> AppRecords]
        /\ y \in AppRecords
    BY DEF RegistrySound, IsRegistry, AppOf
  <1>2. Disable(r, a, value) = Changed(r, a, x)
    BY <1>1 DEF Changed, Disable, AppOf
  <1> HIDE DEF y
  <1>3. x \in AppRecords /\ SamePlace(x, y) /\ x.help = y.help
        /\ x.helpAll = y.helpAll
    BY <1>1 DEF AppRecords, SamePlace
  <1> HIDE DEF x
  <1>4. Settled(r, a, x)
    BY <1>3 DEF Settled, y
  <1> QED BY <1>2, <1>4, SettledSound

(* The defaults of the options to come are settings of the app.            *)
LEMMA SetDefaultSound ==
  ASSUME NEW r, NEW roots, RegistrySound(r, roots), NEW a \in DOMAIN r.apps,
         NEW field \in Fields
  PROVE  RegistrySound(SetDefault(r, a, field), roots)
  <1> DEFINE y == AppOf(r, a)
             d == [y.defaults EXCEPT ![field] = TRUE]
             x == [y EXCEPT !.defaults = d]
  <1>1. /\ r \in [apps : {r.apps}, options : {r.options}, next : Nat,
                  graves : {r.graves}, made : Nat, threw : BOOLEAN]
        /\ r.apps \in [DOMAIN r.apps -> AppRecords]
        /\ y \in AppRecords
    BY DEF RegistrySound, IsRegistry, AppOf
  <1>2. SetDefault(r, a, field) = Changed(r, a, x)
    BY <1>1 DEF Changed, SetDefault, AppOf
  <1> HIDE DEF y
  <1>3. d \in [case : BOOLEAN, under : BOOLEAN]
    <2>1. y.defaults \in [case : BOOLEAN, under : BOOLEAN]
      BY <1>1 DEF AppRecords
    <2> QED BY <2>1 DEF Fields
  <1> HIDE DEF d
  <1>4. x \in AppRecords /\ SamePlace(x, y) /\ x.help = y.help
        /\ x.helpAll = y.helpAll
    BY <1>1, <1>3 DEF AppRecords, SamePlace
  <1> HIDE DEF x
  <1>5. Settled(r, a, x)
    BY <1>4 DEF Settled, y
  <1> QED BY <1>2, <1>5, SettledSound

(* An option that keeps its names and its app.                             *)
SameNames(x, y) ==
  /\ x.short = y.short /\ x.long = y.long /\ x.parent = y.parent
  /\ x.case = y.case /\ x.under = y.under

(* The links of an option may grow by options that are there.              *)
LEMMA LinkOption ==
  ASSUME NEW r, NEW roots, RegistrySound(r, roots), NEW o \in DOMAIN r.options,
         NEW x \in OptionRecords, SameNames(x, OptionOf(r, o)),
         x.needs \cup x.excludes
           \subseteq DOMAIN r.options \cup OptionOf(r, o).needs
                       \cup OptionOf(r, o).excludes
  PROVE  LET q == [r EXCEPT !.options[o] = x]
         IN /\ RegistrySound(q, roots) /\ DOMAIN q.options = DOMAIN r.options
            /\ \A p \in DOMAIN r.options :
                 OptionOf(q, p) = IF p = o THEN x ELSE OptionOf(r, p)
  <1> DEFINE q == [r EXCEPT !.options[o] = x]
  <1>1. /\ q \in [apps : {q.apps}, options : {q.options}, next : Nat,
                  graves : {q.graves}, made : Nat, threw : BOOLEAN]
        /\ q.options = [r.options EXCEPT ![o] = x]
        /\ q.apps = r.apps /\ q.graves = r.graves /\ q.next = r.next
    BY DEF RegistrySound, IsRegistry
  <1> HIDE DEF q
  <1>2. /\ DOMAIN q.options = DOMAIN r.options
        /\ \A p \in DOMAIN r.options :
             OptionOf(q, p) = IF p = o THEN x ELSE OptionOf(r, p)
    BY <1>1 DEF RegistrySound, IsRegistry, OptionOf
  <1>3. IsRegistry(q)
    BY <1>1 DEF RegistrySound, IsRegistry
  <1>4. \A p \in DOMAIN r.options :
          SameNames(OptionOf(q, p), OptionOf(r, p))
    BY <1>2 DEF SameNames
  <1>5. NumbersUsedOnce(q)
    BY <1>1, <1>2 DEF RegistrySound, NumbersUsedOnce
  <1>6. OptionsHeldOnce(q)
    BY <1>1, <1>2 DEF RegistrySound, OptionsHeldOnce, AppOf
  <1>7. AppsHeldOnce(q, roots)
    BY <1>1 DEF RegistrySound, AppsHeldOnce, AppOf
  <1>8. LinksKnown(q)
    <2>1. ASSUME NEW p \in DOMAIN r.options
          PROVE  OptionOf(q, p).needs \cup OptionOf(q, p).excludes
                   \subseteq DOMAIN r.options \cup DOMAIN r.graves
      BY <1>2 DEF RegistrySound, LinksKnown
    <2> QED BY <1>1, <1>2, <2>1 DEF RegistrySound, LinksKnown, AppOf
  <1>9. OptionsApart(q)
    <2> SUFFICES ASSUME NEW a \in DOMAIN r.apps,
                        NEW p1 \in ToSet(AppOf(r, a).options),
                        NEW p2 \in ToSet(AppOf(r, a).options),
                        p1 # p2,
                        OptionOf(q, p1).parent = a, OptionOf(q, p2).parent = a
                 PROVE  /\ \A n \in OptionOf(q, p1).short :
                             ~TakesShort(OptionOf(q, p2), n)
                        /\ \A n \in OptionOf(q, p1).long :
                             ~TakesLong(OptionOf(q, p2), n)
      BY <1>1 DEF OptionsApart, AppOf
    <2>1. p1 \in DOMAIN r.options /\ p2 \in DOMAIN r.options
      BY DEF RegistrySound, OptionsHeldOnce
    <2>2. /\ SameNames(OptionOf(q, p1), OptionOf(r, p1))
          /\ SameNames(OptionOf(q, p2), OptionOf(r, p2))
      BY <1>4, <2>1
    <2>3. /\ \A n \in OptionOf(r, p1).short : ~TakesShort(OptionOf(r, p2), n)
          /\ \A n \in OptionOf(r, p1).long : ~TakesLong(OptionOf(r, p2), n)
      BY <2>2 DEF RegistrySound, OptionsApart, SameNames
    <2>4. \A n : /\ TakesShort(OptionOf(q, p2), n) <=> TakesShort(OptionOf(r, p2), n)
                 /\ TakesLong(OptionOf(q, p2), n) <=> TakesLong(OptionOf(r, p2), n)
      BY <2>2 DEF TakesShort, TakesLong, SameNames
    <2> QED BY <2>2, <2>3, <2>4 DEF SameNames
  <1>10. OptionLinksLive(q)
    <2>1. ASSUME NEW p \in DOMAIN r.options,
                 NEW g \in (OptionOf(q, p).needs \cup OptionOf(q, p).excludes)
                           \ DOMAIN r.options
          PROVE  p \notin r.graves[g]
      BY <1>2 DEF RegistrySound, OptionLinksLive
    <2> QED BY <1>1, <1>2, <2>1 DEF OptionLinksLive
  <1>11. AppLinksLive(q)
    BY <1>1 DEF RegistrySound, AppLinksLive, AppOf
  <1>12. PointersLive(q)
    BY <1>1 DEF RegistrySound, PointersLive, AppOf
  <1> QED BY <1>2, <1>3, <1>5, <1>6, <1>7, <1>8, <1>9, <1>10, <1>11, <1>12
          DEF q, RegistrySound

(* Links to apps that are there, or were linked before; exclusions on both *)
(* sides.                                                                  *)
LEMMA LinkApps ==
  ASSUME NEW r, NEW roots, RegistrySound(r, roots), NEW q,
         q \in [apps : {q.apps}, options : {r.options}, next : {r.next},
                graves : {r.graves}, made : Nat, threw : BOOLEAN],
         q.apps \in [DOMAIN r.apps -> AppRecords],
         \A b \in DOMAIN r.apps :
           LET x == AppOf(q, b)  y == AppOf(r, b)
           IN /\ x.parent = y.parent /\ x.options = y.options
              /\ x.subs = y.subs /\ x.help = y.help /\ x.helpAll = y.helpAll
              /\ x.needApps \cup x.excludeApps
                   \subseteq DOMAIN r.apps \cup y.needApps \cup y.excludeApps
              /\ \A c \in x.excludeApps \cap DOMAIN r.apps :
                   b \in AppOf(q, c).excludeApps
  PROVE  RegistrySound(q, roots)
  <1>1. /\ DOMAIN q.apps = DOMAIN r.apps
        /\ q.options = r.options /\ q.next = r.next /\ q.graves = r.graves
        /\ \A o : OptionOf(q, o) = OptionOf(r, o)
    BY DEF OptionOf
  <1>2. \A b \in DOMAIN r.apps :
          /\ AppOf(q, b).parent = AppOf(r, b).parent
          /\ AppOf(q, b).options = AppOf(r, b).options
          /\ AppOf(q, b).subs = AppOf(r, b).subs
          /\ AppOf(q, b).help = AppOf(r, b).help
          /\ AppOf(q, b).helpAll = AppOf(r, b).helpAll
    OBVIOUS
  <1>3. IsRegistry(q)
    BY <1>1 DEF RegistrySound, IsRegistry
  <1>4. NumbersUsedOnce(q)
    BY <1>1 DEF RegistrySound, NumbersUsedOnce
  <1>5. OptionsHeldOnce(q)
    BY <1>1, <1>2 DEF RegistrySound, OptionsHeldOnce
  <1>6. AppsHeldOnce(q, roots)
    BY <1>1, <1>2 DEF RegistrySound, AppsHeldOnce
  <1>7. LinksKnown(q)
    <2>1. ASSUME NEW b \in DOMAIN r.apps
          PROVE  AppOf(q, b).needApps \cup AppOf(q, b).excludeApps
                   \subseteq DOMAIN r.apps \cup DOMAIN r.graves
      BY DEF RegistrySound, LinksKnown
    <2> QED BY <1>1, <2>1 DEF RegistrySound, LinksKnown
  <1>8. OptionsApart(q)
    BY <1>1, <1>2 DEF RegistrySound, OptionsApart
  <1>9. OptionLinksLive(q)
    BY <1>1 DEF RegistrySound, OptionLinksLive
  <1>10. AppLinksLive(q)
    <2>1. ASSUME NEW b \in DOMAIN r.apps
          PROVE  /\ \A c \in (AppOf(q, b).needApps \cup AppOf(q, b).excludeApps)
                             \ DOMAIN r.apps : b \notin r.graves[c]
                 /\ \A c \in AppOf(q, b).excludeApps \cap DOMAIN r.apps :
                      b \in AppOf(q, c).excludeApps
      BY DEF RegistrySound, AppLinksLive
    <2> QED BY <1>1, <2>1 DEF AppLinksLive
  <1>11. PointersLive(q)
    BY <1>1, <1>2 DEF RegistrySound, PointersLive
  <1> QED BY <1>3, <1>4, <1>5, <1>6, <1>7, <1>8, <1>9, <1>10, <1>11
          DEF RegistrySound

(* needs(), excludes(), remove_needs() and remove_excludes() of an option; *)
(* an exclusion is entered on both sides and dropped from one.             *)
LEMMA OptionLinksSound ==
  ASSUME NEW r, NEW roots, RegistrySound(r, roots), NEW o \in DOMAIN r.options,
         NEW p \in DOMAIN r.options
  PROVE  /\ RegistrySound(OptionNeeds(r, o, p), roots)
         /\ RegistrySound(OptionExcludes(r, o, p), roots)
         /\ RegistrySound(DropNeeds(r, o, p), roots)
         /\ RegistrySound(DropExcludes(r, o, p), roots)
  <1>1. /\ r \in [apps : {r.apps}, options : {r.options}, next : Nat,
                  graves : {r.graves}, made : Nat, threw : BOOLEAN]
        /\ r.options \in [DOMAIN r.options -> OptionRecords]
    BY DEF RegistrySound, IsRegistry
  <1>2. o \in Nat /\ p \in Nat
    BY DEF RegistrySound, IsRegistry, NumbersUsedOnce
  <1> DEFINE y == OptionOf(r, o)
             x1 == [y EXCEPT !.needs = @ \cup {p}]
             x2 == [y EXCEPT !.excludes = @ \cup {p}]
             x3 == [y EXCEPT !.needs = @ \ {p}]
             x4 == [y EXCEPT !.excludes = @ \ {p}]
  <1>3. y \in OptionRecords
    BY <1>1 DEF OptionOf
  <1>4. /\ [r EXCEPT !.options[o] = x1]
             = [r EXCEPT !.options[o].needs = @ \cup {p}]
        /\ [r EXCEPT !.options[o] = x3] = DropNeeds(r, o, p)
        /\ [r EXCEPT !.options[o] = x4] = DropExcludes(r, o, p)
    BY <1>1 DEF OptionOf, DropNeeds, DropExcludes
  <1>5. /\ OptionNeeds(r, o, p) = r
           \/ OptionNeeds(r, o, p) = [r EXCEPT !.options[o] = x1]
    BY <1>4 DEF OptionNeeds
  <1> DEFINE both == [r EXCEPT !.options[o].excludes = @ \cup {p},
                              !.options[p].excludes = @ \cup {o}]
  <1>6. OptionExcludes(r, o, p) = IF o = p THEN Throws(r) ELSE both
    BY DEF OptionExcludes
  <1> DEFINE s == [r EXCEPT !.options[o] = x2]
             z == OptionOf(s, p)
             x5 == [z EXCEPT !.excludes = @ \cup {o}]
             q == [s EXCEPT !.options[p] = x5]
  <1>7. o # p => both = q
    BY <1>1 DEF OptionOf
  <1> HIDE DEF y, both
  <1>8. /\ x1 \in OptionRecords /\ SameNames(x1, y)
        /\ x1.needs = y.needs \cup {p} /\ x1.excludes = y.excludes
    BY <1>2, <1>3 DEF OptionRecords, SameNames
  <1>9. /\ x2 \in OptionRecords /\ SameNames(x2, y)
        /\ x2.excludes = y.excludes \cup {p} /\ x2.needs = y.needs
    BY <1>2, <1>3 DEF OptionRecords, SameNames
  <1>10. /\ x3 \in OptionRecords /\ SameNames(x3, y)
         /\ x3.needs = y.needs \ {p} /\ x3.excludes = y.excludes
    BY <1>3 DEF OptionRecords, SameNames
  <1>11. /\ x4 \in OptionRecords /\ SameNames(x4, y)
         /\ x4.excludes = y.excludes \ {p} /\ x4.needs = y.needs
    BY <1>3 DEF OptionRecords, SameNames
  <1> HIDE DEF x1, x2, x3, x4
  <1>12. /\ x1.needs \cup x1.excludes
              \subseteq DOMAIN r.options \cup y.needs \cup y.excludes
         /\ x2.needs \cup x2.excludes
              \subseteq DOMAIN r.options \cup y.needs \cup y.excludes
         /\ x3.needs \cup x3.excludes
              \subseteq DOMAIN r.options \cup y.needs \cup y.excludes
         /\ x4.needs \cup x4.excludes
              \subseteq DOMAIN r.options \cup y.needs \cup y.excludes
    BY <1>8, <1>9, <1>10, <1>11
  <1>13. RegistrySound([r EXCEPT !.options[o] = x1], roots)
    BY <1>8, <1>12, LinkOption DEF y
  <1>14. RegistrySound([r EXCEPT !.options[o] = x3], roots)
    BY <1>10, <1>12, LinkOption DEF y
  <1>15. RegistrySound([r EXCEPT !.options[o] = x4], roots)
    BY <1>11, <1>12, LinkOption DEF y
  <1>16. /\ RegistrySound(s, roots) /\ DOMAIN s.options = DOMAIN r.options
         /\ z = IF p = o THEN x2 ELSE OptionOf(r, p)
    BY <1>9, <1>12, LinkOption DEF y
  <1> HIDE DEF s
  <1>17. p \in DOMAIN s.options /\ o \in DOMAIN s.options
    BY <1>16
  <1>18. z \in OptionRecords
    BY <1>16, <1>17 DEF RegistrySound, IsRegistry, OptionOf
  <1> HIDE DEF z
  <1>19. /\ x5 \in OptionRecords /\ SameNames(x5, z)
         /\ x5.excludes = z.excludes \cup {o} /\ x5.needs = z.needs
    BY <1>2, <1>18 DEF OptionRecords, SameNames
  <1> HIDE DEF x5
  <1>20. x5.needs \cup x5.excludes
           \subseteq DOMAIN s.options \cup z.needs \cup z.excludes
    BY <1>17, <1>19
  <1>21. RegistrySound(q, roots)
    BY <1>16, <1>17, <1>19, <1>20, LinkOption DEF z
  <1> HIDE DEF q
  <1>22. RegistrySound(OptionExcludes(r, o, p), roots)
    <2>1. RegistrySound(Throws(r), roots)
      BY ThrowsSound
    <2>2. OptionExcludes(r, o, p) = Throws(r) \/ OptionExcludes(r, o, p) = q
      BY <1>6, <1>7
    <2> QED BY <1>21, <2>1, <2>2
  <1>23. RegistrySound(OptionNeeds(r, o, p), roots)
    <2> DEFINE w == [r EXCEPT !.options[o] = x1]
    <2>1. OptionNeeds(r, o, p) = r \/ OptionNeeds(r, o, p) = w
      BY <1>5
    <2>2. RegistrySound(w, roots)
      BY <1>13
    <2> HIDE DEF w
    <2> QED BY <2>1, <2>2
  <1> QED BY <1>4, <1>14, <1>15, <1>22, <1>23

(* An app that is changed in its links to apps alone.                      *)
Relinked(x, y, needApps, excludeApps) ==
  /\ x \in AppRecords
  /\ x.parent = y.parent /\ x.options = y.options /\ x.subs = y.subs
  /\ x.help = y.help /\ x.helpAll = y.helpAll
  /\ x.needApps = needApps /\ x.excludeApps = excludeApps

(* The links of an app are set one kind at a time.                         *)
LEMMA Relinks ==
  ASSUME NEW y \in AppRecords, NEW n \in SUBSET Nat, NEW e \in SUBSET Nat
  PROVE  /\ Relinked(y, y, y.needApps, y.excludeApps)
         /\ Relinked([y EXCEPT !.needApps = n], y, n, y.excludeApps)
         /\ Relinked([y EXCEPT !.excludeApps = e], y, y.needApps, e)
         /\ y.needApps \in SUBSET Nat /\ y.excludeApps \in SUBSET Nat
  <1>1. Relinked(y, y, y.needApps, y.excludeApps)
    BY DEF Relinked
  <1>2. Relinked([y EXCEPT !.needApps = n], y, n, y.excludeApps)
    <2> DEFINE x == [y EXCEPT !.needApps = n]
    <2>1. x \in AppRecords
      BY DEF AppRecords
    <2>2. /\ x.parent = y.parent /\ x.options = y.options /\ x.subs = y.subs
          /\ x.help = y.help /\ x.helpAll = y.helpAll
          /\ x.needApps = n /\ x.excludeApps = y.excludeApps
      BY DEF AppRecords
    <2> QED BY <2>1, <2>2 DEF Relinked
  <1>3. Relinked([y EXCEPT !.excludeApps = e], y, y.needApps, e)
    <2> DEFINE x == [y EXCEPT !.excludeApps = e]
    <2>1. x \in AppRecords
      BY DEF AppRecords
    <2>2. /\ x.parent = y.parent /\ x.options = y.options /\ x.subs = y.subs
          /\ x.help = y.help /\ x.helpAll = y.helpAll
          /\ x.needApps = y.needApps /\ x.excludeApps = e
      BY DEF AppRecords
    <2> QED BY <2>1, <2>2 DEF Relinked
  <1>4. y.needApps \in SUBSET Nat /\ y.excludeApps \in SUBSET Nat
    BY DEF AppRecords
  <1> QED BY <1>1, <1>2, <1>3, <1>4

(* An app that is changed in its links alone stays in its place.           *)
LEMMA RelinkedSound ==
  ASSUME NEW r, NEW roots, RegistrySound(r, roots), NEW q,
         q \in [apps : {q.apps}, options : {r.options}, next : {r.next},
                graves : {r.graves}, made : Nat, threw : BOOLEAN],
         NEW need, NEW exclude,
         q.apps = [c \in DOMAIN r.apps |-> q.apps[c]],
         \A c \in DOMAIN r.apps :
           /\ Relinked(AppOf(q, c), AppOf(r, c), need[c], exclude[c])
           /\ need[c] \cup exclude[c]
                \subseteq DOMAIN r.apps \cup AppOf(r, c).needApps
                            \cup AppOf(r, c).excludeApps
           /\ \A d \in exclude[c] \cap DOMAIN r.apps : c \in exclude[d]
  PROVE  RegistrySound(q, roots)
  <1>1. q.apps \in [DOMAIN r.apps -> AppRecords]
    <2>1. \A c \in DOMAIN r.apps : q.apps[c] \in AppRecords
      BY DEF Relinked, AppOf
    <2> QED BY <2>1
  <1>2. ASSUME NEW c \in DOMAIN r.apps
        PROVE  LET x == AppOf(q, c)  y == AppOf(r, c)
               IN /\ x.parent = y.parent /\ x.options = y.options
                  /\ x.subs = y.subs /\ x.help = y.help
                  /\ x.helpAll = y.helpAll
                  /\ x.needApps \cup x.excludeApps
                       \subseteq DOMAIN r.apps \cup y.needApps
                                   \cup y.excludeApps
                  /\ \A d \in x.excludeApps \cap DOMAIN r.apps :
                       c \in AppOf(q, d).excludeApps
    BY DEF Relinked
  <1> QED BY <1>1, <1>2, LinkApps

(* Exclusions of apps are entered and dropped on both sides.               *)
LEMMA AppLinksSound ==
  ASSUME NEW r, NEW roots, RegistrySound(r, roots), NEW a \in DOMAIN r.apps,
         NEW b \in DOMAIN r.apps
  PROVE  /\ RegistrySound(AppNeeds(r, a, b), roots)
         /\ RegistrySound(AppExcludes(r, a, b), roots)
         /\ RegistrySound(DropAppNeeds(r, a, b), roots)
         /\ RegistrySound(DropAppExcludes(r, a, b), roots)
  <1>1. /\ r \in [apps : {r.apps}, options : {r.options}, next : Nat,
                  graves : {r.graves}, made : Nat, threw : BOOLEAN]
        /\ r.apps \in [DOMAIN r.apps -> AppRecords]
    BY DEF RegistrySound, IsRegistry
  <1>2. a \in Nat /\ b \in Nat
    BY DEF RegistrySound, IsRegistry, NumbersUsedOnce
  <1> DEFINE need == [c \in DOMAIN r.apps |-> AppOf(r, c).needApps]
             exclude == [c \in DOMAIN r.apps |-> AppOf(r, c).excludeApps]
  <1>3. ASSUME NEW c \in DOMAIN r.apps
        PROVE  /\ AppOf(r, c) \in AppRecords
               /\ Relinked(AppOf(r, c), AppOf(r, c), need[c], exclude[c])
               /\ need[c] \in SUBSET Nat /\ exclude[c] \in SUBSET Nat
    <2>1. AppOf(r, c) \in AppRecords
      BY <1>1 DEF AppOf
    <2> QED BY <2>1, Relinks
  <1>4. \A c \in DOMAIN r.apps : \A d \in exclude[c] \cap DOMAIN r.apps :
          c \in exclude[d]
    BY DEF RegistrySound, AppLinksLive
  <1>5. RegistrySound(Throws(r), roots)
    BY ThrowsSound
  <1> HIDE DEF need, exclude
  <1>6. \A c \in DOMAIN r.apps :
          /\ need[c] = AppOf(r, c).needApps
          /\ exclude[c] = AppOf(r, c).excludeApps
    BY DEF need, exclude
  <1>7. ASSUME NEW n \in SUBSET Nat, n \subseteq need[a] \cup {b}
        PROVE  RegistrySound([r EXCEPT !.apps[a].needApps = n], roots)
    <2> DEFINE q == [r EXCEPT !.apps[a].needApps = n]
               x == [AppOf(r, a) EXCEPT !.needApps = n]
               need2 == [c \in DOMAIN r.apps |-> IF c = a THEN n ELSE need[c]]
    <2>1. /\ q \in [apps : {q.apps}, options : {r.options}, next : {r.next},
                    graves : {r.graves}, made : Nat, threw : BOOLEAN]
          /\ q.apps = [r.apps EXCEPT ![a] = x]
      BY <1>1 DEF AppOf
    <2> HIDE DEF q, x
    <2>2. /\ q.apps = [c \in DOMAIN r.apps |-> q.apps[c]]
          /\ \A c \in DOMAIN r.apps : AppOf(q, c) = IF c = a THEN x ELSE AppOf(r, c)
      BY <1>1, <2>1 DEF AppOf
    <2>3. Relinked(x, AppOf(r, a), n, exclude[a])
      BY <1>3, <1>6, Relinks DEF x
    <2>4. ASSUME NEW c \in DOMAIN r.apps
          PROVE  /\ Relinked(AppOf(q, c), AppOf(r, c), need2[c], exclude[c])
                 /\ need2[c] \cup exclude[c]
                      \subseteq DOMAIN r.apps \cup AppOf(r, c).needApps
                                  \cup AppOf(r, c).excludeApps
                 /\ \A d \in exclude[c] \cap DOMAIN r.apps : c \in exclude[d]
      <3>1. CASE c = a
        BY <1>4, <1>6, <1>7, <2>2, <2>3, <3>1
      <3>2. CASE c # a
        BY <1>3, <1>4, <1>6, <2>2, <3>2
      <3> QED BY <3>1, <3>2
    <2> HIDE DEF need2
    <2>5. RegistrySound(q, roots)
      BY <2>1, <2>2, <2>4, RelinkedSound
    <2> QED BY <2>5 DEF q
  <1>8. ASSUME NEW ea \in SUBSET Nat, NEW eb \in SUBSET Nat,
               ea \subseteq exclude[a] \cup {b}, eb \subseteq exclude[b] \cup {a},
               a = b => ea = eb,
               a # b => \A d \in DOMAIN r.apps :
                          /\ d \in ea <=> IF d = b THEN a \in eb
                                          ELSE d \in exclude[a]
                          /\ d \in eb <=> IF d = a THEN b \in ea
                                          ELSE d \in exclude[b],
               a = b => \A d \in DOMAIN r.apps \ {a} : d \in ea <=> d \in exclude[a]
        PROVE  RegistrySound([r EXCEPT !.apps[a].excludeApps = ea,
                                       !.apps[b].excludeApps = eb], roots)
    <2> DEFINE q == [r EXCEPT !.apps[a].excludeApps = ea,
                              !.apps[b].excludeApps = eb]
               xa == [AppOf(r, a) EXCEPT !.excludeApps = ea]
               xb == [AppOf(r, b) EXCEPT !.excludeApps = eb]
               exclude2 == [c \in DOMAIN r.apps |->
                              IF c = a THEN ea ELSE IF c = b THEN eb
                              ELSE exclude[c]]
    <2>1. /\ q \in [apps : {q.apps}, options : {r.options}, next : {r.next},
                    graves : {r.graves}, made : Nat, threw : BOOLEAN]
          /\ q.apps = [r.apps EXCEPT ![a].excludeApps = ea,
                                     ![b].excludeApps = eb]
      BY <1>1
    <2>2. /\ q.apps = [c \in DOMAIN r.apps |-> q.apps[c]]
          /\ \A c \in DOMAIN r.apps :
               AppOf(q, c) = IF c = a THEN xa ELSE IF c = b THEN xb
                             ELSE AppOf(r, c)
      <3>1. CASE a # b
        BY <1>1, <2>1, <3>1 DEF AppOf
      <3>2. CASE a = b
        <4> HIDE DEF q
        <4>1. q.apps = [r.apps EXCEPT ![a].excludeApps = ea,
                                      ![a].excludeApps = ea]
          BY <1>8, <2>1, <3>2
        <4>2. AppOf(r, a) \in AppRecords
          BY <1>3
        <4>3. [[AppOf(r, a) EXCEPT !.excludeApps = ea]
                 EXCEPT !.excludeApps = ea] = xa
          <5> DEFINE y == AppOf(r, a)
          <5>1. y \in AppRecords
            BY <4>2
          <5> HIDE DEF y
          <5>2. [[y EXCEPT !.excludeApps = ea] EXCEPT !.excludeApps = ea]
                  = [y EXCEPT !.excludeApps = ea]
            BY <5>1 DEF AppRecords
          <5> QED BY <5>2 DEF y
        <4>4. q.apps = [r.apps EXCEPT ![a] = xa]
          BY <1>1, <4>1, <4>3 DEF AppOf
        <4> QED BY <1>1, <3>2, <4>4 DEF AppOf
      <3> QED BY <3>1, <3>2
    <2> HIDE DEF q, xa, xb
    <2>3. /\ Relinked(xa, AppOf(r, a), need[a], ea)
          /\ Relinked(xb, AppOf(r, b), need[b], eb)
      BY <1>3, <1>6, Relinks DEF xa, xb
    <2>4. /\ \A c \in DOMAIN r.apps :
               exclude2[c] = IF c = a THEN ea ELSE IF c = b THEN eb ELSE exclude[c]
      OBVIOUS
    <2> HIDE DEF exclude2
    <2>5. ASSUME NEW c \in DOMAIN r.apps
          PROVE  /\ Relinked(AppOf(q, c), AppOf(r, c), need[c], exclude2[c])
                 /\ need[c] \cup exclude2[c]
                      \subseteq DOMAIN r.apps \cup AppOf(r, c).needApps
                                  \cup AppOf(r, c).excludeApps
      <3>1. CASE c = a
        <4>1. AppOf(q, a) = xa /\ exclude2[a] = ea
          BY <2>2, <2>4
        <4>2. need[a] \cup ea \subseteq DOMAIN r.apps \cup AppOf(r, a).needApps
                                          \cup AppOf(r, a).excludeApps
          BY <1>6, <1>8
        <4> QED BY <2>3, <3>1, <4>1, <4>2
      <3>2. CASE c = b /\ c # a
        <4>1. AppOf(q, b) = xb /\ exclude2[b] = eb
          BY <2>2, <2>4, <3>2
        <4>2. need[b] \cup eb \subseteq DOMAIN r.apps \cup AppOf(r, b).needApps
                                          \cup AppOf(r, b).excludeApps
          BY <1>6, <1>8
        <4> QED BY <2>3, <3>2, <4>1, <4>2
      <3>3. CASE c # a /\ c # b
        BY <1>3, <1>6, <2>2, <2>4, <3>3
      <3> QED BY <3>1, <3>2, <3>3
    <2>6. ASSUME NEW c \in DOMAIN r.apps, NEW d \in exclude2[c] \cap DOMAIN r.apps
          PROVE  c \in exclude2[d]
      <3>1. CASE a # b
        <4>1. CASE c = a
          BY <1>4, <1>8, <2>4, <3>1, <4>1
        <4>2. CASE c = b
          BY <1>4, <1>8, <2>4, <3>1, <4>2
        <4>3. CASE c # a /\ c # b
          BY <1>4, <1>8, <2>4, <3>1, <4>3
        <4> QED BY <4>1, <4>2, <4>3
      <3>2. CASE a = b
        BY <1>4, <1>8, <2>4, <3>2
      <3> QED BY <3>1, <3>2
    <2>7. RegistrySound(q, roots)
      BY <2>1, <2>2, <2>5, <2>6, RelinkedSound
    <2> QED BY <2>7 DEF q
  <1>9. RegistrySound(AppNeeds(r, a, b), roots)
    <2> DEFINE q == [r EXCEPT !.apps[a].needApps = need[a] \cup {b}]
    <2>1. AppNeeds(r, a, b) = IF a = b THEN Throws(r) ELSE q
      BY <1>6 DEF AppNeeds, AppOf
    <2>2. need[a] \cup {b} \in SUBSET Nat
      BY <1>2, <1>3
    <2>3. RegistrySound(q, roots)
      BY <1>7, <2>2
    <2> HIDE DEF q
    <2> QED BY <1>5, <2>1, <2>3
  <1>10. RegistrySound(DropAppNeeds(r, a, b), roots)
    <2> DEFINE q == [r EXCEPT !.apps[a].needApps = need[a] \ {b}]
    <2>1. DropAppNeeds(r, a, b) = q
      BY <1>6 DEF DropAppNeeds, AppOf
    <2>2. need[a] \ {b} \in SUBSET Nat
      BY <1>3
    <2>3. RegistrySound(q, roots)
      BY <1>7, <2>2
    <2> HIDE DEF q
    <2> QED BY <2>1, <2>3
  <1>11. RegistrySound(AppExcludes(r, a, b), roots)
    <2> DEFINE ea == exclude[a] \cup {b}
               eb == exclude[b] \cup {a}
               q == [r EXCEPT !.apps[a].excludeApps = ea,
                              !.apps[b].excludeApps = eb]
               twice == [r EXCEPT !.apps[a].excludeApps = @ \cup {b},
                                  !.apps[b].excludeApps = @ \cup {a}]
    <2>1. AppExcludes(r, a, b) = IF a = b THEN Throws(r)
                                 ELSE IF b \in AppOf(r, a).excludeApps THEN r
                                 ELSE twice
      BY DEF AppExcludes
    <2>2. a # b => twice = q
      BY <1>1, <1>6 DEF AppOf
    <2>3. CASE a # b
      <3>1. ea \in SUBSET Nat /\ eb \in SUBSET Nat
        BY <1>2, <1>3
      <3>2. RegistrySound(q, roots)
        <4>1. /\ ea \subseteq exclude[a] \cup {b}
              /\ eb \subseteq exclude[b] \cup {a}
              /\ \A d \in DOMAIN r.apps :
                   /\ d \in ea <=> IF d = b THEN a \in eb ELSE d \in exclude[a]
                   /\ d \in eb <=> IF d = a THEN b \in ea ELSE d \in exclude[b]
          BY <2>3
        <4> HIDE DEF ea, eb
        <4> QED BY <1>8, <2>3, <3>1, <4>1
      <3> HIDE DEF q, twice
      <3> QED BY <1>5, <2>1, <2>2, <2>3, <3>2
    <2>4. CASE a = b
      BY <1>5, <2>1, <2>4
    <2> QED BY <2>3, <2>4
  <1>12. RegistrySound(DropAppExcludes(r, a, b), roots)
    <2> DEFINE ea == exclude[a] \ {b}
               eb == exclude[b] \ {a}
               q == [r EXCEPT !.apps[a].excludeApps = ea,
                              !.apps[b].excludeApps = eb]
               twice == [r EXCEPT !.apps[a].excludeApps = @ \ {b},
                                  !.apps[b].excludeApps = @ \ {a}]
    <2>1. DropAppExcludes(r, a, b) = IF b \in AppOf(r, a).excludeApps THEN twice
                                     ELSE r
      BY DEF DropAppExcludes
    <2>2. twice = q
      <3>1. CASE a # b
        BY <1>1, <1>6, <3>1 DEF AppOf
      <3>2. CASE a = b
        <4> DEFINE e0 == exclude[a]
        <4>1. [r EXCEPT !.apps[a].excludeApps = @ \ {a},
                        !.apps[a].excludeApps = @ \ {a}]
                = [r EXCEPT !.apps[a].excludeApps = e0 \ {a},
                            !.apps[a].excludeApps = (e0 \ {a}) \ {a}]
          BY <1>1, <1>3, <1>6 DEF AppOf, AppRecords
        <4>2. (e0 \ {a}) \ {a} = e0 \ {a}
          OBVIOUS
        <4> QED BY <3>2, <4>1, <4>2
      <3> QED BY <3>1, <3>2
    <2>3. ea \in SUBSET Nat /\ eb \in SUBSET Nat
      BY <1>3
    <2>4. /\ ea \subseteq exclude[a] \cup {b} /\ eb \subseteq exclude[b] \cup {a}
          /\ a = b => ea = eb
          /\ a # b => \A d \in DOMAIN r.apps :
                        /\ d \in ea <=> IF d = b THEN a \in eb
                                        ELSE d \in exclude[a]
                        /\ d \in eb <=> IF d = a THEN b \in ea
                                        ELSE d \in exclude[b]
          /\ a = b => \A d \in DOMAIN r.apps \ {a} : d \in ea <=> d \in exclude[a]
      OBVIOUS
    <2>5. RegistrySound(q, roots)
      <3> HIDE DEF ea, eb
      <3> QED BY <1>8, <2>3, <2>4
    <2> HIDE DEF q, twice
    <2> QED BY <2>1, <2>2, <2>5
  <1> QED BY <1>9, <1>10, <1>11, <1>12

(* Links of an app to options: nothing of it is promised.                  *)
LEMMA AppOptionLinksSound ==
  ASSUME NEW r, NEW roots, RegistrySound(r, roots), NEW a \in DOMAIN r.apps,
         NEW o \in DOMAIN r.options
  PROVE  /\ RegistrySound(AppNeedsOption(r, a, o), roots)
         /\ RegistrySound(AppExcludesOption(r, a, o), roots)
         /\ RegistrySound(DropAppNeedsOption(r, a, o), roots)
         /\ RegistrySound(DropAppExcludesOption(r, a, o), roots)
  <1> DEFINE y == AppOf(r, a)
             x1 == [y EXCEPT !.needs = @ \cup {o}]
             x2 == [y EXCEPT !.excludes = @ \cup {o}]
             x3 == [y EXCEPT !.needs = @ \ {o}]
             x4 == [y EXCEPT !.excludes = @ \ {o}]
  <1>1. /\ r \in [apps : {r.apps}, options : {r.options}, next : Nat,
                  graves : {r.graves}, made : Nat, threw : BOOLEAN]
        /\ r.apps \in [DOMAIN r.apps -> AppRecords]
        /\ y \in AppRecords /\ o \in Nat
    BY DEF RegistrySound, IsRegistry, AppOf, NumbersUsedOnce
  <1>2. /\ AppNeedsOption(r, a, o) = Changed(r, a, x1)
        /\ AppExcludesOption(r, a, o) = Changed(r, a, x2)
        /\ DropAppNeedsOption(r, a, o) = Changed(r, a, x3)
        /\ DropAppExcludesOption(r, a, o) = Changed(r, a, x4)
    BY <1>1 DEF Changed, AppOf, AppNeedsOption, AppExcludesOption,
                DropAppNeedsOption, DropAppExcludesOption
  <1> HIDE DEF y
  <1>3. ASSUME NEW x \in {x1, x2, x3, x4} PROVE Settled(r, a, x)
    <2>1. CASE x = x1
      BY <1>1, <2>1 DEF AppRecords, SamePlace, Settled, y
    <2>2. CASE x = x2
      BY <1>1, <2>2 DEF AppRecords, SamePlace, Settled, y
    <2>3. CASE x = x3
      BY <1>1, <2>3 DEF AppRecords, SamePlace, Settled, y
    <2>4. CASE x = x4
      BY <1>1, <2>4 DEF AppRecords, SamePlace, Settled, y
    <2> HIDE DEF x1, x2, x3, x4
    <2> QED BY <2>1, <2>2, <2>3, <2>4
  <1> HIDE DEF x1, x2, x3, x4
  <1>4. \A x \in {x1, x2, x3, x4} : RegistrySound(Changed(r, a, x), roots)
    BY <1>3, SettledSound
  <1> QED BY <1>2, <1>4

----------------------------------------------------------------------------
(* Every call leaves a registry behind.                                    *)
LEMMA NowSound ==
  ASSUME RegistrySound(registry, {1})
  PROVE  /\ RegistrySound(Now, {1})
         /\ DOMAIN Now.apps = Apps /\ DOMAIN Now.options = Options
         /\ \A a \in Apps : /\ ToSet(AppOf(Now, a).options) = OptionsOf(a)
                            /\ ToSet(AppOf(Now, a).subs) = SubsOf(a)
  <1>1. registry \in [apps : {registry.apps}, options : {registry.options},
                      next : Nat, graves : {registry.graves}, made : Nat,
                      threw : BOOLEAN]
    BY DEF RegistrySound, IsRegistry
  <1>2. Now \in [apps : {registry.apps}, options : {registry.options},
                 next : {registry.next}, graves : {registry.graves},
                 made : Nat, threw : BOOLEAN]
    BY <1>1 DEF Now
  <1>3. Now.apps = registry.apps /\ Now.options = registry.options
    BY <1>2
  <1>4. RegistrySound(Now, {1})
    BY <1>2, SameTree
  <1> QED BY <1>3, <1>4 DEF Apps, Options, OptionsOf, SubsOf, AppOf

(* Every call keeps the registry sound.                                    *)
LEMMA RegistryStep ==
  ASSUME RegistrySound(registry, {1}), [RegistryNext]_registryVars
  PROVE  RegistrySound(registry', {1})
  <1> USE NowSound
  <1>1. /\ OptionShapes \subseteq Shapes
        /\ \A n \in AppNames : n \in Names \cup {NoName}
    BY RegistryAssumption
  <1>2. ASSUME NEW op, NEW r, Becomes(op, r), RegistrySound(r, {1})
        PROVE  RegistrySound(registry', {1})
    BY <1>2 DEF Becomes
  <1>3. CASE CallAdd
    <2>1. PICK a \in Apps, s \in OptionShapes :
            \/ Becomes("add", AddOption(Now, a, s))
            \/ Becomes("flag", AddFlag(Now, a, s))
            \/ \E f \in {"help", "helpAll", "version", "config"} :
                 Becomes(f, Point(Now, a, f, s))
      BY <1>3 DEF CallAdd
    <2>2. s \in Shapes
      BY <1>1
    <2>3. RegistrySound(AddOption(Now, a, s), {1})
      BY <2>2, AddOptionSound
    <2>4. RegistrySound(AddFlag(Now, a, s), {1})
      BY <2>2, AddFlagSound
    <2>5. \A f \in Pointers : RegistrySound(Point(Now, a, f, s), {1})
      BY <2>2, PointSound
    <2> QED BY <1>2, <2>1, <2>3, <2>4, <2>5 DEF Pointers
  <1>4. CASE CallUnpoint
    <2>1. PICK a \in Apps, f \in Pointers : Becomes(f, Point(Now, a, f, Unnamed))
      BY <1>4 DEF CallUnpoint, Pointers
    <2>2. Unnamed \in Shapes
      BY DEF Unnamed, Shapes
    <2>3. RegistrySound(Point(Now, a, f, Unnamed), {1})
      BY <2>2, PointSound
    <2> QED BY <1>2, <2>1, <2>3
  <1>5. CASE CallRemove
    <2>1. PICK a \in Apps :
            \E o \in OptionsOf(a) :
              \/ Becomes("remove", RemoveOption(Now, a, o))
              \/ Becomes("retire", RetireOption(Now, a, o))
      BY <1>5 DEF CallRemove
    <2>5. PICK o \in OptionsOf(a) :
            \/ Becomes("remove", RemoveOption(Now, a, o))
            \/ Becomes("retire", RetireOption(Now, a, o))
      BY <2>1
    <2>2. o \in DOMAIN Now.options
      BY DEF RegistrySound, OptionsHeldOnce
    <2>3. RegistrySound(RemoveOption(Now, a, o), {1})
      BY RemoveOptionSound
    <2>4. RegistrySound(RetireOption(Now, a, o), {1})
      BY <2>2, RetireOptionSound
    <2> QED BY <1>2, <2>5, <2>3, <2>4
  <1>6. CASE CallRetireByName
    <2>1. PICK a \in Apps, n \in Names : Becomes("retire", RetireByName(Now, a, n))
      BY <1>6 DEF CallRetireByName
    <2>2. RegistrySound(RetireByName(Now, a, n), {1})
      BY RetireByNameSound
    <2> QED BY <1>2, <2>1, <2>2
  <1>7. CASE CallIgnore
    <2>1. PICK o \in Options, f \in Fields, value \in BOOLEAN :
            /\ OptionOf(Now, o).parent \in Apps
            /\ Becomes("ignore", Ignore(Now, o, f, value))
      BY <1>7 DEF CallIgnore, Fields
    <2>2. RegistrySound(Ignore(Now, o, f, value), {1})
      BY <2>1, IgnoreSound
    <2> QED BY <1>2, <2>1, <2>2
  <1>8. CASE CallDefault
    <2>1. PICK a \in Apps, f \in Fields : Becomes("default", SetDefault(Now, a, f))
      BY <1>8 DEF CallDefault, Fields
    <2>2. RegistrySound(SetDefault(Now, a, f), {1})
      BY SetDefaultSound
    <2> QED BY <1>2, <2>1, <2>2
  <1>9. CASE CallMove
    <2>1. PICK a \in Apps :
            \E o \in Options, g \in SubsOf(a) :
              Becomes("move", MoveOption(Now, a, o, g))
      BY <1>9 DEF CallMove
    <2>4. PICK o \in Options, g \in SubsOf(a) :
            Becomes("move", MoveOption(Now, a, o, g))
      BY <2>1
    <2>2. g \in DOMAIN Now.apps /\ g # a
      BY DEF RegistrySound, AppsHeldOnce
    <2>3. RegistrySound(MoveOption(Now, a, o, g), {1})
      BY <2>2, MoveOptionSound
    <2> QED BY <1>2, <2>4, <2>3
  <1>10. CASE CallAddSubcommand
    <2>1. PICK a \in Apps, n \in AppNames : Becomes("sub", AddSubcommand(Now, a, n))
      BY <1>10 DEF CallAddSubcommand
    <2>2. n \in Names \cup {NoName} /\ FALSE \in BOOLEAN
      BY <1>1
    <2>3. RegistrySound(AddSubcommand(Now, a, n), {1})
      BY <2>2, AddedSound DEF AddSubcommand
    <2> QED BY <1>2, <2>1, <2>3
  <1>11. CASE CallAddGroup
    <2>1. PICK a \in Apps, bare \in BOOLEAN : Becomes("group", AddGroup(Now, a, bare))
      BY <1>11 DEF CallAddGroup
    <2>2. NoName \in Names \cup {NoName}
      OBVIOUS
    <2>3. RegistrySound(AddGroup(Now, a, bare), {1})
      BY <2>2, AddedSound DEF AddGroup
    <2> QED BY <1>2, <2>1, <2>3
  <1>12. CASE CallRemoveSubcommand
    <2>1. PICK a \in Apps :
            \E s \in SubsOf(a) : Becomes("removeSub", RemoveSubcommand(Now, a, s))
      BY <1>12 DEF CallRemoveSubcommand
    <2>3. PICK s \in SubsOf(a) : Becomes("removeSub", RemoveSubcommand(Now, a, s))
      BY <2>1
    <2>2. RegistrySound(RemoveSubcommand(Now, a, s), {1})
      BY RemoveSubcommandSound
    <2> QED BY <1>2, <2>3, <2>2
  <1>13. CASE CallTake
    <2>1. PICK s \in Apps \ {1} :
            \E g \in Apps \ Family(Now, s) :
              Becomes("take", TakeSubcommand(Now, g, s))
      BY <1>13 DEF CallTake
    <2>4. PICK g \in Apps \ Family(Now, s) :
            Becomes("take", TakeSubcommand(Now, g, s))
      BY <2>1
    <2>2. g # s
      BY FamilyClosed
    <2>3. RegistrySound(TakeSubcommand(Now, g, s), {1})
      BY <2>2, TakeSubcommandSound
    <2> QED BY <1>2, <2>4, <2>3
  <1>14. CASE CallName
    <2>1. PICK a \in Apps, n \in AppNames :
            \/ Becomes("name", Rename(Now, a, n))
            \/ n # NoName /\ Becomes("alias", Alias(Now, a, n))
      BY <1>14 DEF CallName
    <2>2. RegistrySound(Rename(Now, a, n), {1})
      BY <1>1, RenameSound
    <2>3. CASE n # NoName
      <3>1. n \in Names
        BY <1>1, <2>3
      <3>2. RegistrySound(Alias(Now, a, n), {1})
        BY <3>1, AliasSound
      <3> QED BY <1>2, <2>1, <2>2, <3>2
    <2> QED BY <1>2, <2>1, <2>2, <2>3
  <1>15. CASE CallIgnoreInApp
    <2>1. PICK a \in Apps, f \in Fields, value \in BOOLEAN :
            Becomes("ignoreApp", IgnoreInApp(Now, a, f, value))
      BY <1>15 DEF CallIgnoreInApp, Fields
    <2>2. RegistrySound(IgnoreInApp(Now, a, f, value), {1})
      BY IgnoreInAppSound
    <2> QED BY <1>2, <2>1, <2>2
  <1>16. CASE CallDisable
    <2>1. PICK a \in Apps, value \in BOOLEAN :
            Becomes("disable", Disable(Now, a, value))
      BY <1>16 DEF CallDisable
    <2>2. RegistrySound(Disable(Now, a, value), {1})
      BY DisableSound
    <2> QED BY <1>2, <2>1, <2>2
  <1>17. CASE CallOptionLink
    <2>1. PICK o \in Options, p \in Options :
            \/ Becomes("link", OptionNeeds(Now, o, p))
            \/ Becomes("link", OptionExcludes(Now, o, p))
            \/ Becomes("link", DropNeeds(Now, o, p))
            \/ Becomes("link", DropExcludes(Now, o, p))
      BY <1>17 DEF CallOptionLink
    <2>2. /\ RegistrySound(OptionNeeds(Now, o, p), {1})
          /\ RegistrySound(OptionExcludes(Now, o, p), {1})
          /\ RegistrySound(DropNeeds(Now, o, p), {1})
          /\ RegistrySound(DropExcludes(Now, o, p), {1})
      BY OptionLinksSound
    <2> QED BY <1>2, <2>1, <2>2
  <1>18. CASE CallAppLink
    <2>1. PICK a \in Apps, b \in Apps :
            \/ Becomes("linkApp", AppNeeds(Now, a, b))
            \/ Becomes("linkApp", AppExcludes(Now, a, b))
            \/ Becomes("linkApp", DropAppNeeds(Now, a, b))
            \/ Becomes("linkApp", DropAppExcludes(Now, a, b))
      BY <1>18 DEF CallAppLink
    <2>2. /\ RegistrySound(AppNeeds(Now, a, b), {1})
          /\ RegistrySound(AppExcludes(Now, a, b), {1})
          /\ RegistrySound(DropAppNeeds(Now, a, b), {1})
          /\ RegistrySound(DropAppExcludes(Now, a, b), {1})
      BY AppLinksSound
    <2> QED BY <1>2, <2>1, <2>2
  <1>19. CASE CallAppOptionLink
    <2>1. PICK a \in Apps, o \in Options :
            \/ Becomes("linkApp", AppNeedsOption(Now, a, o))
            \/ Becomes("linkApp", AppExcludesOption(Now, a, o))
            \/ Becomes("linkApp", DropAppNeedsOption(Now, a, o))
            \/ Becomes("linkApp", DropAppExcludesOption(Now, a, o))
      BY <1>19 DEF CallAppOptionLink
    <2>2. /\ RegistrySound(AppNeedsOption(Now, a, o), {1})
          /\ RegistrySound(AppExcludesOption(Now, a, o), {1})
          /\ RegistrySound(DropAppNeedsOption(Now, a, o), {1})
          /\ RegistrySound(DropAppExcludesOption(Now, a, o), {1})
      BY AppOptionLinksSound
    <2> QED BY <1>2, <2>1, <2>2
  <1>20. CASE UNCHANGED registryVars
    BY <1>20 DEF registryVars
  <1> QED BY <1>3, <1>4, <1>5, <1>6, <1>7, <1>8, <1>9, <1>10, <1>11, <1>12, <1>13,
             <1>14, <1>15, <1>16, <1>17, <1>18, <1>19, <1>20 DEF RegistryNext

(* A draft is a registry that calls have built.                            *)
LEMMA RegistryStart ==
  ASSUME RegistryInit
  PROVE  RegistrySound(registry, {1})
  <1>1. PICK d \in Drafts : registry = d.registry
    BY DEF RegistryInit
  <1>2. RegistrySound(d.registry, {1})
    BY RegistryAssumption
  <1> QED BY <1>1, <1>2

(* A main app without options or subcommands is a registry: those that are *)
(* built from it by calls are, by the lemmas above.                        *)
THEOREM BlankSound == RegistrySound(Blank, {1})
  <1>1. /\ Blank.apps = [a \in {1} |-> PlainEntry] /\ Blank.options = <<>>
        /\ Blank.graves = <<>> /\ Blank.next = 2 /\ Blank.made = 0
        /\ Blank.threw = FALSE
    BY DEF Blank
  <1>2. DOMAIN <<>> = {} /\ PlainEntry \in AppRecords
    BY DEF PlainEntry, AppRecords
  <1>3. IsRegistry(Blank)
    BY <1>1, <1>2 DEF IsRegistry, Blank
  <1>4. /\ DOMAIN Blank.apps = {1} /\ AppOf(Blank, 1) = PlainEntry
        /\ DOMAIN Blank.options = {} /\ DOMAIN Blank.graves = {}
    BY <1>1, <1>2 DEF AppOf
  <1>5. /\ ToSet(PlainEntry.options) = {} /\ ToSet(PlainEntry.subs) = {}
        /\ IsInjective(PlainEntry.options) /\ IsInjective(PlainEntry.subs)
        /\ PlainEntry.needApps = {} /\ PlainEntry.excludeApps = {}
        /\ PlainEntry.help = 0 /\ PlainEntry.helpAll = 0
    BY <1>2 DEF PlainEntry, ToSet, IsInjective
  <1>6. NumbersUsedOnce(Blank)
    BY <1>1, <1>4 DEF NumbersUsedOnce
  <1>7. /\ OptionsHeldOnce(Blank) /\ AppsHeldOnce(Blank, {1})
        /\ LinksKnown(Blank) /\ OptionsApart(Blank)
        /\ OptionLinksLive(Blank) /\ AppLinksLive(Blank) /\ PointersLive(Blank)
    BY <1>4, <1>5 DEF OptionsHeldOnce, AppsHeldOnce, LinksKnown, OptionsApart,
                      OptionLinksLive, AppLinksLive, PointersLive
  <1> QED BY <1>3, <1>6, <1>7 DEF RegistrySound

(* Whatever the calls, from whatever drafts: each object has one owner, a  *)
(* number is never used again, and no link leads to an object that is gone *)
(* and whose going its holder was told of (add_option, remove_option,      *)
(* add_subcommand, remove_subcommand, needs, excludes ...).                *)
THEOREM RegistryStaysSound == RegistrySpec => []RegistrySound(registry, {1})
  <1>1. RegistryInit => RegistrySound(registry, {1})
    BY RegistryStart
  <1>2. /\ RegistrySound(registry, {1}) /\ [RegistryNext]_registryVars
        => RegistrySound(registry, {1})'
    BY RegistryStep
  <1> QED BY <1>1, <1>2, PTL DEF RegistrySpec

(* If two comparable options have a name in common, the one that ignores   *)
(* more answers to the name of the other.                                  *)
LEMMA SharedName ==
  ASSUME NEW x \in OptionRecords, NEW y \in OptionRecords, NEW n \in Names,
         x.case => y.case, x.under => y.under
  PROVE  /\ TakesShort(x, n) /\ TakesShort(y, n) =>
              \E m \in x.short : TakesShort(y, m)
         /\ TakesLong(x, n) /\ TakesLong(y, n) =>
              \E m \in x.long : TakesLong(y, m)
  <1>1. /\ x.short \subseteq Names /\ x.long \subseteq Names
        /\ y.short \subseteq Names /\ y.long \subseteq Names
        /\ x.case \in BOOLEAN /\ x.under \in BOOLEAN
        /\ y.case \in BOOLEAN /\ y.under \in BOOLEAN
    BY DEF OptionRecords
  <1>2. ASSUME TakesShort(x, n), TakesShort(y, n)
        PROVE  \E m \in x.short : TakesShort(y, m)
    <2>1. PICK m \in x.short : Norm(x.case, FALSE, m) = Norm(x.case, FALSE, n)
      BY <1>2 DEF TakesShort, Alike
    <2>2. PICK k \in y.short : Norm(y.case, FALSE, k) = Norm(y.case, FALSE, n)
      BY <1>2 DEF TakesShort, Alike
    <2>3. Norm(y.case, FALSE, m) = Norm(y.case, FALSE, n)
      BY <1>1, <2>1, Coarser
    <2>4. TakesShort(y, m)
      BY <2>2, <2>3 DEF TakesShort, Alike
    <2> QED BY <2>4
  <1>3. ASSUME TakesLong(x, n), TakesLong(y, n)
        PROVE  \E m \in x.long : TakesLong(y, m)
    <2>1. PICK m \in x.long : Norm(x.case, x.under, m) = Norm(x.case, x.under, n)
      BY <1>3 DEF TakesLong, Alike
    <2>2. PICK k \in y.long : Norm(y.case, y.under, k) = Norm(y.case, y.under, n)
      BY <1>3 DEF TakesLong, Alike
    <2>3. Norm(y.case, y.under, m) = Norm(y.case, y.under, n)
      BY <1>1, <2>1, Coarser
    <2>4. TakesLong(y, m)
      BY <2>2, <2>3 DEF TakesLong, Alike
    <2> QED BY <2>4
  <1> QED BY <1>2, <1>3

(* No name that a user may type is that of two options of an app, made for *)
(* it and comparable: what add_option, ignore_case and ignore_underscore   *)
(* test pair by pair is enough for every name.                             *)
THEOREM OptionNamesUnique == RegistrySpec => []OptionNamesAreUnique
  <1>1. RegistrySound(registry, {1}) => OptionNamesAreUnique
    <2> SUFFICES ASSUME RegistrySound(registry, {1}), NEW a \in Apps,
                        NEW o \in OptionsOf(a), NEW p \in OptionsOf(a), o # p,
                        registry.options[o].parent = a,
                        registry.options[p].parent = a,
                        Comparable(registry.options[o], registry.options[p]),
                        NEW n \in Names
                 PROVE  /\ ~(/\ TakesShort(registry.options[o], n)
                             /\ TakesShort(registry.options[p], n))
                        /\ ~(/\ TakesLong(registry.options[o], n)
                             /\ TakesLong(registry.options[p], n))
      BY DEF OptionNamesAreUnique
    <2> DEFINE x == registry.options[o]
               y == registry.options[p]
    <2>1. x \in OptionRecords /\ y \in OptionRecords
      BY DEF RegistrySound, IsRegistry, OptionsHeldOnce, AppOf, Apps, OptionsOf
    <2>2. /\ \A m \in x.short : ~TakesShort(y, m)
          /\ \A m \in x.long : ~TakesLong(y, m)
          /\ \A m \in y.short : ~TakesShort(x, m)
          /\ \A m \in y.long : ~TakesLong(x, m)
      BY DEF RegistrySound, OptionsApart, AppOf, OptionOf, Apps, OptionsOf
    <2>3. \/ (x.case => y.case) /\ (x.under => y.under)
          \/ (y.case => x.case) /\ (y.under => x.under)
      BY DEF Comparable
    <2> HIDE DEF x, y
    <2>4. CASE (x.case => y.case) /\ (x.under => y.under)
      BY <2>1, <2>2, <2>4, SharedName DEF x, y
    <2>5. CASE (y.case => x.case) /\ (y.under => x.under)
      BY <2>1, <2>2, <2>5, SharedName DEF x, y
    <2> QED BY <2>3, <2>4, <2>5
  <1> QED BY <1>1, RegistryStaysSound, PTL

(* The two together: what the calls of one thread build is sound.          *)
THEOREM RegistryProved == RegistrySpec => []RegistryIsSound
  BY RegistryStaysSound, OptionNamesUnique, PTL DEF RegistryIsSound
=============================================================================
