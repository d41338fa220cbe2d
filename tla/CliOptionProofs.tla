-------------------------- MODULE CliOptionProofs --------------------------
(***************************************************************************)
(* Whatever the calls made to an option, its callback is given what the    *)
(* multi-option policy promises, and a read gives what a callback would be *)
(* given.                                                                  *)
(***************************************************************************)
EXTENDS CliOption, SequenceTheorems, Recursion, TLAPS

----------------------------------------------------------------------------
(* Reversing twice changes nothing.                                        *)
LEMMA ReverseTwice ==
  ASSUME NEW S, NEW s \in Seq(S)
  PROVE  /\ Reverse(s) \in Seq(S) /\ Len(Reverse(s)) = Len(s)
         /\ Reverse(Reverse(s)) = s
  <1>1. Len(s) \in Nat
    OBVIOUS
  <1>2. \A i \in 1 .. Len(s) : s[(Len(s) - i) + 1] \in S
    <2> SUFFICES ASSUME NEW i \in 1 .. Len(s)
                 PROVE  s[(Len(s) - i) + 1] \in S
      OBVIOUS
    <2>1. (Len(s) - i) + 1 \in 1 .. Len(s)
      BY <1>1
    <2> QED BY <2>1, ElementOfSeq
  <1>3. /\ Reverse(s) \in Seq(S) /\ Len(Reverse(s)) = Len(s)
        /\ \A i \in 1 .. Len(s) : Reverse(s)[i] = s[(Len(s) - i) + 1]
    BY <1>1, <1>2 DEF Reverse
  <1> DEFINE t == Reverse(s)
  <1> HIDE DEF t
  <1>4. /\ t \in Seq(S) /\ Len(t) = Len(s)
        /\ \A i \in 1 .. Len(s) : t[i] = s[(Len(s) - i) + 1]
    BY <1>3 DEF t
  <1>5. \A i \in 1 .. Len(t) : t[(Len(t) - i) + 1] \in S
    <2> SUFFICES ASSUME NEW i \in 1 .. Len(t)
                 PROVE  t[(Len(t) - i) + 1] \in S
      OBVIOUS
    <2>1. (Len(t) - i) + 1 \in 1 .. Len(t)
      BY <1>1, <1>4
    <2> QED BY <1>4, <2>1, ElementOfSeq
  <1>6. /\ Reverse(t) \in Seq(S) /\ Len(Reverse(t)) = Len(t)
        /\ \A i \in 1 .. Len(t) : Reverse(t)[i] = t[(Len(t) - i) + 1]
    BY <1>1, <1>4, <1>5 DEF Reverse
  <1>7. ASSUME NEW i \in 1 .. Len(s) PROVE Reverse(t)[i] = s[i]
    <2>1. /\ i \in 1 .. Len(t) /\ (Len(t) - i) + 1 \in 1 .. Len(s)
          /\ (Len(s) - ((Len(t) - i) + 1)) + 1 = i
      BY <1>1, <1>4
    <2> QED BY <1>4, <1>6, <2>1
  <1>8. Reverse(t) = s
    <2>1. /\ Len(Reverse(t)) = Len(s)
          /\ \A i \in 1 .. Len(Reverse(t)) : Reverse(t)[i] = s[i]
      BY <1>4, <1>6, <1>7
    <2> QED BY <1>6, <2>1, SeqEqual
  <1> QED BY <1>3, <1>8 DEF t

(* The first ones and the last ones of a sequence are a prefix and a       *)
(* suffix of it.                                                           *)
LEMMA Ends ==
  ASSUME NEW S, NEW t \in Seq(S), NEW n \in 0 .. Len(t)
  PROVE  /\ SubSeq(t, 1, n) \in Seq(S) /\ Len(SubSeq(t, 1, n)) = n
         /\ IsPrefix(SubSeq(t, 1, n), t)
         /\ LastOf(t, n) \in Seq(S) /\ Len(LastOf(t, n)) = n
         /\ IsSuffix(LastOf(t, n), t)
  <1>1. Len(t) \in Nat /\ n \in Nat /\ n <= Len(t)
    OBVIOUS
  <1>2. /\ SubSeq(t, 1, n) \in Seq(S) /\ Len(SubSeq(t, 1, n)) = n
        /\ \A i \in 1 .. n : SubSeq(t, 1, n)[i] = t[i]
    <2>1. \A i \in 1 .. n : t[i] \in S
      BY <1>1
    <2> QED BY <1>1, <2>1, SubSeqProperties
  <1>3. IsPrefix(SubSeq(t, 1, n), t)
    <2>1. SubSeq(SubSeq(t, 1, n), 1, n) = SubSeq(t, 1, n)
      BY <1>2, SubSeqFull
    <2> QED BY <1>1, <1>2, <2>1 DEF IsPrefix
  <1> DEFINE k == LastOf(t, n)
  <1>4. /\ k \in Seq(S) /\ Len(k) = n
        /\ \A i \in 1 .. n : k[i] = t[(Len(t) - n) + i]
    <2>1. \A i \in (Len(t) - n + 1) .. Len(t) : t[i] \in S
      BY <1>1
    <2>2. /\ Len(t) - n + 1 \in Int /\ Len(t) \in Int
          /\ Len(t) - (Len(t) - n + 1) + 1 = n
          /\ (~(Len(t) - n + 1 <= Len(t)) => n = 0)
          /\ \A i \in 1 .. n : (Len(t) - n + 1) + i - 1 = (Len(t) - n) + i
      BY <1>1
    <2>3. /\ k \in Seq(S)
          /\ Len(k) = IF Len(t) - n + 1 <= Len(t)
                      THEN Len(t) - (Len(t) - n + 1) + 1 ELSE 0
          /\ \A i \in 1 .. Len(t) - (Len(t) - n + 1) + 1 :
               k[i] = t[(Len(t) - n + 1) + i - 1]
      BY <2>1, <2>2, SubSeqProperties DEF LastOf
    <2> HIDE DEF k
    <2> QED BY <2>2, <2>3
  <1>5. IsSuffix(k, t)
    <2> HIDE DEF k
    <2> DEFINE a == Reverse(k)
               b == Reverse(t)
    <2>1. /\ a \in Seq(S) /\ Len(a) = n /\ b \in Seq(S) /\ Len(b) = Len(t)
      BY <1>4, ReverseTwice
    <2>2. \A i \in 1 .. n : a[i] = k[(n - i) + 1]
      BY <1>4 DEF Reverse
    <2>3. \A i \in 1 .. Len(t) : b[i] = t[(Len(t) - i) + 1]
      BY DEF Reverse
    <2>4. ASSUME NEW i \in 1 .. n PROVE a[i] = b[i]
      <3>1. /\ (n - i) + 1 \in 1 .. n /\ i \in 1 .. Len(t)
            /\ (Len(t) - n) + ((n - i) + 1) = (Len(t) - i) + 1
        BY <1>1
      <3> HIDE DEF a, b
      <3> QED BY <1>4, <2>2, <2>3, <3>1
    <2>5. SubSeq(a, 1, Len(a)) = a
      BY <2>1, SubSeqFull
    <2> HIDE DEF a, b
    <2>6. \A i \in 1 .. n : b[i] \in S
      BY <1>1, <2>1
    <2>7. /\ SubSeq(b, 1, n) \in Seq(S) /\ Len(SubSeq(b, 1, n)) = n
          /\ \A i \in 1 .. n : SubSeq(b, 1, n)[i] = b[i]
      BY <1>1, <2>6, SubSeqProperties
    <2>8. a = SubSeq(b, 1, n)
      <3>1. \A i \in 1 .. Len(a) : a[i] = SubSeq(b, 1, n)[i]
        BY <2>1, <2>4, <2>7
      <3>2. Len(a) = Len(SubSeq(b, 1, n))
        BY <2>1, <2>7
      <3> QED BY <2>1, <2>7, <3>1, <3>2, SeqEqual
    <2>9. IsPrefix(a, b)
      BY <1>1, <2>1, <2>5, <2>8 DEF IsPrefix
    <2> QED BY <2>9 DEF a, b, IsSuffix
  <1> QED BY <1>2, <1>3, <1>4, <1>5

(* A sequence is a prefix and a suffix of itself.                          *)
LEMMA Itself ==
  ASSUME NEW S, NEW t \in Seq(S)
  PROVE  IsPrefix(t, t) /\ IsSuffix(t, t)
  <1>1. Reverse(t) \in Seq(S)
    BY ReverseTwice
  <1> QED BY <1>1 DEF IsPrefix, IsSuffix

(* Nothing is put together to nothing, and one sequence to itself.         *)
LEMMA FlattenOne ==
  /\ FlattenSeq(<<>>) = <<>>
  /\ \A S : \A x \in Seq(S) : FlattenSeq(<<x>>) = x
  <1>1. FlattenSeq(<<>>) = <<>>
    BY DEF FlattenSeq
  <1>2. ASSUME NEW S, NEW x \in Seq(S) PROVE FlattenSeq(<<x>>) = x
    <2>1. <<x>> \in Seq(Seq(S)) /\ <<x>> # <<>> /\ Len(<<x>>) = 1
          /\ <<x>>[1] = x
      OBVIOUS
    <2> DEFINE seqs == <<x>>
    <2> HIDE DEF seqs
    <2>2. \E f \in [1 .. Len(seqs) -> Seq(S)] :
            FlattenSeq(seqs) = f[Len(seqs)] /\ f[1] = seqs[1]
      BY <2>1, FlattenSteps DEF seqs
    <2> QED BY <2>1, <2>2 DEF seqs
  <1> QED BY <1>1, <1>2

----------------------------------------------------------------------------
(* What a reduction looks at, and what it makes of it.                     *)
Bases == [of : Seq(Texts), policy : Policies, least : Int, items : Nat \ {0}]

(* As many items are left as there are, or as the policy lets through.     *)
LEMMA TrimmedWithin ==
  ASSUME NEW b \in Bases
  PROVE  /\ b.of \in Seq(Texts) /\ Len(b.of) \in Nat
         /\ Trimmed(b) \in 0 .. Len(b.of)
         /\ Trimmed(b) = Smaller(b.items, Len(b.of))
         /\ (Trimmed(b) = 0 => Len(b.of) = 0)
  <1>1. b.of \in Seq(Texts) /\ b.items \in Nat \ {0}
    BY DEF Bases
  <1>2. Len(b.of) \in Nat
    BY <1>1
  <1> QED BY <1>1, <1>2 DEF Trimmed, Smaller

(* The first pass of the reduction obeys the policy.                       *)
LEMMA PolicyKept ==
  ASSUME NEW b \in Bases, NEW own, Len(own) = Len(b.of)
  PROVE  Promised(b, Either(ByPolicy(b, own), b.of))
  <1> DEFINE n == Trimmed(b)
             values == Either(ByPolicy(b, own), b.of)
  <1>1. /\ b.of \in Seq(Texts) /\ Len(b.of) \in Nat /\ n \in 0 .. Len(b.of)
        /\ n = Smaller(b.items, Len(b.of))
        /\ (n = 0 => Len(b.of) = 0)
    BY TrimmedWithin
  <1> HIDE DEF n
  <1>2. b.policy \in Policies
    BY DEF Bases
  <1>3. /\ LastOf(b.of, n) \in Seq(Texts) /\ Len(LastOf(b.of, n)) = n
        /\ IsSuffix(LastOf(b.of, n), b.of)
        /\ SubSeq(b.of, 1, n) \in Seq(Texts) /\ Len(SubSeq(b.of, 1, n)) = n
        /\ IsPrefix(SubSeq(b.of, 1, n), b.of)
        /\ IsPrefix(b.of, b.of) /\ IsSuffix(b.of, b.of)
    BY <1>1, Ends, Itself
  <1>4. FlattenSeq(b.of) \in Texts
    BY <1>1, FlattenIsSeq DEF Texts
  <1>5. ASSUME b.policy \in {"TakeAll", "Throw"} PROVE Promised(b, values)
    <2>1. values = b.of
      BY <1>5 DEF ByPolicy, Either
    <2> QED BY <1>5, <2>1 DEF Promised
  <1>6. ASSUME b.policy = "TakeLast" PROVE Promised(b, values)
    <2>1. ByPolicy(b, own) = IF Len(b.of) = n THEN <<>> ELSE LastOf(b.of, n)
      BY <1>6 DEF ByPolicy, ReduceLast, n
    <2>2. CASE Len(b.of) = n
      <3>1. values = b.of
        BY <2>1, <2>2 DEF Either
      <3> QED BY <1>1, <1>3, <1>6, <2>2, <3>1 DEF Promised
    <2>3. CASE Len(b.of) # n
      <3>1. LastOf(b.of, n) # <<>>
        BY <1>1, <1>3, <2>3
      <3>2. values = LastOf(b.of, n)
        BY <2>1, <2>3, <3>1 DEF Either
      <3> QED BY <1>1, <1>3, <1>6, <3>2 DEF Promised
    <2> QED BY <2>2, <2>3
  <1>7. ASSUME b.policy = "TakeFirst" PROVE Promised(b, values)
    <2>1. ByPolicy(b, own) = IF Len(b.of) = n THEN <<>> ELSE SubSeq(b.of, 1, n)
      BY <1>7 DEF ByPolicy, n
    <2>2. CASE Len(b.of) = n
      <3>1. values = b.of
        BY <2>1, <2>2 DEF Either
      <3> QED BY <1>1, <1>3, <1>7, <2>2, <3>1 DEF Promised
    <2>3. CASE Len(b.of) # n
      <3>1. SubSeq(b.of, 1, n) # <<>>
        BY <1>1, <1>3, <2>3
      <3>2. values = SubSeq(b.of, 1, n)
        BY <2>1, <2>3, <3>1 DEF Either
      <3> QED BY <1>1, <1>3, <1>7, <3>2 DEF Promised
    <2> QED BY <2>2, <2>3
  <1>8. ASSUME b.policy = "Reverse" PROVE Promised(b, values)
    <2>1. ByPolicy(b, own) = IF Len(b.of) = n /\ n <= 1 THEN <<>>
                             ELSE Reverse(LastOf(b.of, n))
      BY <1>8 DEF ByPolicy, n
    <2>2. /\ Reverse(LastOf(b.of, n)) \in Seq(Texts)
          /\ Len(Reverse(LastOf(b.of, n))) = n
          /\ Reverse(Reverse(LastOf(b.of, n))) = LastOf(b.of, n)
      BY <1>3, ReverseTwice
    <2>3. CASE Len(b.of) = n /\ n <= 1
      <3>1. values = b.of
        BY <2>1, <2>3 DEF Either
      <3>2. Reverse(b.of) = b.of
        <4>1. Reverse(b.of) \in Seq(Texts) /\ Len(Reverse(b.of)) = Len(b.of)
          BY <1>1, ReverseTwice
        <4>2. \A i \in 1 .. Len(b.of) : Reverse(b.of)[i] = b.of[i]
          <5>1. \A i \in 1 .. Len(b.of) : (Len(b.of) - i) + 1 = i
            BY <1>1, <2>3
          <5>2. \A i \in 1 .. Len(b.of) :
                  Reverse(b.of)[i] = b.of[(Len(b.of) - i) + 1]
            BY DEF Reverse
          <5> QED BY <5>1, <5>2
        <4>3. \A i \in 1 .. Len(Reverse(b.of)) : Reverse(b.of)[i] = b.of[i]
          BY <4>1, <4>2
        <4> QED BY <1>1, <4>1, <4>3, SeqEqual
      <3> QED BY <1>1, <1>3, <1>8, <2>3, <3>1, <3>2 DEF Promised
    <2>4. CASE ~(Len(b.of) = n /\ n <= 1)
      <3>1. n # 0
        BY <1>1, <2>4
      <3>2. Reverse(LastOf(b.of, n)) # <<>>
        BY <1>1, <2>2, <3>1
      <3>3. values = Reverse(LastOf(b.of, n))
        BY <2>1, <2>4, <3>2 DEF Either
      <3> QED BY <1>1, <1>3, <1>8, <2>2, <3>3 DEF Promised
    <2> QED BY <2>3, <2>4
  <1>9. /\ FlattenSeq(<<FlattenSeq(b.of)>>) = FlattenSeq(b.of)
        /\ <<FlattenSeq(b.of)>> # <<>> /\ Len(<<FlattenSeq(b.of)>>) = 1
    BY <1>4, FlattenOne DEF Texts
  <1>10. ASSUME b.policy = "Join" PROVE Promised(b, values)
    <2>1. ByPolicy(b, own) = IF Len(own) > 1 THEN <<FlattenSeq(b.of)>> ELSE <<>>
      BY <1>10 DEF ByPolicy
    <2>2. CASE Len(own) > 1
      <3>1. values = <<FlattenSeq(b.of)>>
        BY <1>9, <2>1, <2>2 DEF Either
      <3> QED BY <1>9, <1>10, <3>1 DEF Promised
    <2>3. CASE ~(Len(own) > 1)
      <3>1. values = b.of
        BY <2>1, <2>3 DEF Either
      <3>2. Len(b.of) = 1 \/ b.of = <<>>
        <4>1. Len(b.of) \in Nat /\ ~(Len(b.of) > 1)
          BY <1>1, <2>3
        <4>2. \A k \in Nat : ~(k > 1) => k = 1 \/ k = 0
          OBVIOUS
        <4>3. Len(b.of) = 1 \/ Len(b.of) = 0
          BY <4>1, <4>2
        <4> QED BY <1>1, <4>3
      <3> QED BY <1>10, <3>1, <3>2 DEF Promised
    <2> QED BY <2>2, <2>3
  <1>11. ASSUME b.policy = "Sum" PROVE Promised(b, values)
    <2>1. ByPolicy(b, own) = <<FlattenSeq(b.of)>>
      BY <1>11 DEF ByPolicy
    <2>2. values = <<FlattenSeq(b.of)>>
      BY <1>9, <2>1 DEF Either
    <2> QED BY <1>9, <1>11, <2>2 DEF Promised
  <1> QED BY <1>2, <1>5, <1>6, <1>7, <1>8, <1>10, <1>11 DEF Policies

(* What the reduction sends on obeys the policy.                           *)
LEMMA ReduceObeys ==
  ASSUME NEW b \in Bases, NEW own, Len(own) = Len(b.of)
  PROVE  Obeys(b, Either(Reduce(b, own), b.of))
  <1> DEFINE out == ByPolicy(b, own)
             marks == b.least > 0 /\ Either(out, b.of) = <<Empty>>
  <1>1. Promised(b, Either(out, b.of))
    BY PolicyKept
  <1>2. Reduce(b, own) = IF marks THEN <<Empty, Separator>> ELSE out
    BY DEF Reduce
  <1> HIDE DEF out
  <1>3. CASE marks
    <2>1. Either(Reduce(b, own), b.of) = <<Empty, Separator>>
      BY <1>2, <1>3 DEF Either
    <2> QED BY <1>1, <1>3, <2>1 DEF Obeys
  <1>4. CASE ~marks
    BY <1>1, <1>2, <1>4 DEF Obeys
  <1> QED BY <1>3, <1>4

(* One text is left as it is, but for the mark of an empty container.      *)
LEMMA OneIsKept ==
  ASSUME NEW b \in Bases, NEW own, Len(b.of) = 1, Len(own) = 1,
         b.of # <<Empty>>
  PROVE  Either(Reduce(b, own), b.of) = b.of
  <1>1. /\ b.of \in Seq(Texts) /\ Trimmed(b) \in 0 .. 1 /\ Trimmed(b) # 0
    <2>1. /\ b.of \in Seq(Texts) /\ Trimmed(b) \in 0 .. Len(b.of)
          /\ (Trimmed(b) = 0 => Len(b.of) = 0)
      BY TrimmedWithin
    <2> QED BY <2>1
  <1>2. Trimmed(b) = 1
    BY <1>1
  <1>3. b.of = <<b.of[1]>> /\ b.of[1] \in Texts
    BY <1>1
  <1>4. FlattenSeq(b.of) = b.of[1]
    BY <1>3, FlattenOne DEF Texts
  <1>5. b.policy \in Policies
    BY DEF Bases
  <1>6. ~Marked(b)
    BY <1>1 DEF Marked
  <1>7. ByPolicy(b, own) \in {<<>>, b.of}
    <2>1. b.policy \in {"TakeAll", "TakeLast", "TakeFirst", "Reverse", "Join",
                        "Throw"} => ByPolicy(b, own) = <<>>
      BY <1>2, <1>6 DEF ByPolicy, ReduceLast
    <2>2. b.policy = "Sum" => ByPolicy(b, own) = <<FlattenSeq(b.of)>>
      BY DEF ByPolicy
    <2> QED BY <1>3, <1>4, <1>5, <2>1, <2>2 DEF Policies
  <1>8. Either(ByPolicy(b, own), b.of) = b.of
    BY <1>7 DEF Either
  <1>9. Reduce(b, own) = ByPolicy(b, own)
    BY <1>8 DEF Reduce
  <1> QED BY <1>8, <1>9

----------------------------------------------------------------------------
(* What the setters of sizes change in a configuration.                    *)
Bounded(c, low, high) == [c EXCEPT !.min = low, !.max = high]
Exactly(c, low, high, flag) ==
  [c EXCEPT !.min = low, !.max = high, !.flagLike = flag]
Unbounded(c, low, high) ==
  [c EXCEPT !.min = low, !.max = high, !.extra = TRUE, !.flagLike = FALSE]
Open(c, low, high, most) ==
  [c EXCEPT !.typeMax = high, !.typeMin = low, !.max = most]
Sized(c, low, high, injects, needed) ==
  [c EXCEPT !.typeMax = high, !.typeMin = low, !.inject = injects,
            !.required = needed]
SizedWithin(c, most, low, high, needed, injects) ==
  [c EXCEPT !.max = most, !.typeMin = low, !.typeMax = high,
            !.required = needed, !.inject = injects]

(* The numbers of items of a configuration may change.                     *)
LEMMA ExpectedTyped ==
  ASSUME NEW c \in Configurations, NEW low \in Int, NEW high \in Int,
         NEW flag \in BOOLEAN
  PROVE  /\ Bounded(c, low, high) \in Configurations
         /\ Exactly(c, low, high, flag) \in Configurations
         /\ Unbounded(c, low, high) \in Configurations
  BY DEF Bounded, Exactly, Unbounded, Configurations

(* And so may the sizes of its type.                                       *)
LEMMA SizeTyped ==
  ASSUME NEW c \in Configurations, NEW low \in Int, NEW high \in Int,
         NEW most \in Int, NEW needed \in BOOLEAN, NEW injects \in BOOLEAN
  PROVE  /\ Open(c, low, high, most) \in Configurations
         /\ Sized(c, low, high, injects, needed) \in Configurations
         /\ SizedWithin(c, most, low, high, needed, injects) \in Configurations
  BY ZenonT(60) DEF Open, Sized, SizedWithin, Configurations

(* A setter leaves a configuration.                                        *)
LEMMA SetTyped ==
  ASSUME NEW c \in Configurations, NEW s \in Setters
  PROVE  Set(c, s) \in Configurations
  <1>1. /\ c.min \in Int /\ c.max \in Int /\ c.typeMin \in Int
        /\ c.typeMax \in Int /\ c.validators \in Seq(Validators)
        /\ c.inject \in BOOLEAN /\ c.required \in BOOLEAN
    BY DEF Configurations
  <1>2. s \in SetterCalls
    BY OptionAssumption
  <1>3. ASSUME s.name = "expected" PROVE Set(c, s) \in Configurations
    <2>1. s.n \in Int /\ Set(c, s) = Expected(c, s.n)
      BY <1>2, <1>3 DEF SetterCalls, Set
    <2> DEFINE n == s.n
               high == Larger(c.max, -n)
               flag == (n = 0)
    <2>2. /\ -n \in Int /\ high \in Int /\ Vector \in Int /\ 1 \in Int
          /\ n \in Int /\ flag \in BOOLEAN
      BY <1>1, <2>1 DEF Larger, Vector
    <2>3. CASE n < 0
      <3>1. Set(c, s) = Unbounded(c, -n, high)
        BY <2>1, <2>3 DEF Expected, Unbounded
      <3> HIDE DEF high
      <3> QED BY <2>2, <3>1, ExpectedTyped
    <2>4. CASE ~(n < 0) /\ n = Vector
      <3>1. Set(c, s) = Unbounded(c, 1, Vector)
        BY <2>1, <2>4 DEF Expected, Unbounded
      <3> QED BY <2>2, <3>1, ExpectedTyped
    <2>5. CASE ~(n < 0) /\ n # Vector
      <3>1. Set(c, s) = Exactly(c, n, n, flag)
        BY <2>1, <2>5 DEF Expected, Exactly
      <3> HIDE DEF flag
      <3> QED BY <2>2, <3>1, ExpectedTyped
    <2> QED BY <2>3, <2>4, <2>5
  <1>4. ASSUME s.name = "expectedBetween" PROVE Set(c, s) \in Configurations
    <2>1. s.n \in Int /\ s.m \in Int /\ Set(c, s) = ExpectedBetween(c, s.n, s.m)
      BY <1>2, <1>4 DEF SetterCalls, Set
    <2> DEFINE low == IF s.n < 0 THEN -(s.n) ELSE s.n
               high == IF s.m < 0 THEN Vector ELSE s.m
    <2>2. low \in Int /\ high \in Int
      BY <2>1 DEF Vector
    <2>3. Set(c, s) = Bounded(c, Smaller(low, high), Larger(low, high))
      BY <2>1 DEF ExpectedBetween, Bounded
    <2> HIDE DEF low, high
    <2>4. Smaller(low, high) \in Int /\ Larger(low, high) \in Int
      BY <2>2 DEF Smaller, Larger
    <2> QED BY <2>3, <2>4, ExpectedTyped
  <1>5. ASSUME s.name = "typeSize" PROVE Set(c, s) \in Configurations
    <2>1. s.n \in Int /\ Set(c, s) = TypeSize(c, s.n)
      BY <1>2, <1>5 DEF SetterCalls, Set
    <2> DEFINE n == s.n
               low == IF n < Vector THEN n ELSE c.typeMin
               injects == c.inject \/ n >= Vector
               needed == c.required /\ n # 0
    <2>2. /\ -n \in Int /\ Vector \in Int /\ n \in Int /\ low \in Int
          /\ injects \in BOOLEAN /\ needed \in BOOLEAN
      BY <1>1, <2>1 DEF Vector
    <2>3. CASE n < 0
      <3>1. Set(c, s) = Open(c, -n, -n, Vector)
        BY <2>1, <2>3 DEF TypeSize, Open
      <3> HIDE DEF n, low, injects, needed
      <3> QED BY <2>2, <3>1, SizeTyped
    <2>4. CASE ~(n < 0)
      <3>1. Set(c, s) = Sized(c, low, n, injects, needed)
        BY <2>1, <2>4 DEF TypeSize, Sized
      <3> HIDE DEF n, low, injects, needed
      <3> QED BY <2>2, <3>1, SizeTyped, ZenonT(60)
    <2> QED BY <2>3, <2>4
  <1>6. ASSUME s.name = "typeSizeBetween" PROVE Set(c, s) \in Configurations
    <2>1. s.n \in Int /\ s.m \in Int /\ Set(c, s) = TypeSizeBetween(c, s.n, s.m)
      BY <1>2, <1>6 DEF SetterCalls, Set
    <2> DEFINE low == IF s.n < 0 THEN -(s.n) ELSE s.n
               high == IF s.m < 0 THEN -(s.m) ELSE s.m
               least == Smaller(low, high)
               most == Larger(low, high)
               items == IF s.n < 0 \/ s.m < 0 THEN Vector ELSE c.max
               needed == c.required /\ most # 0
               injects == c.inject \/ most >= Vector
    <2>2. low \in Int /\ high \in Int
      BY <2>1
    <2>3. Set(c, s) = SizedWithin(c, items, least, most, needed, injects)
      BY <2>1 DEF TypeSizeBetween, SizedWithin
    <2>4. items \in Int
      BY <1>1, <2>1 DEF Vector
    <2> HIDE DEF low, high, items
    <2>5. least \in Int /\ most \in Int
      BY <2>2 DEF Smaller, Larger
    <2> HIDE DEF least, most
    <2>6. needed \in BOOLEAN /\ injects \in BOOLEAN
      BY <1>1
    <2> HIDE DEF needed, injects
    <2> QED BY <2>3, <2>4, <2>5, <2>6, SizeTyped, ZenonT(60)
  <1>7. ASSUME s.name = "policy" PROVE Set(c, s) \in Configurations
    <2>1. s.p \in Policies /\ Set(c, s) = WithPolicy(c, s.p)
      BY <1>2, <1>7 DEF SetterCalls, Set
    <2> QED BY <1>1, <2>1 DEF WithPolicy, Configurations
  <1>8. ASSUME s.name = "check" PROVE Set(c, s) \in Configurations
    <2>1. s.v \in Validators /\ Set(c, s) = Check(c, s.v)
      BY <1>2, <1>8 DEF SetterCalls, Set
    <2>2. Append(c.validators, s.v) \in Seq(Validators)
      BY <1>1, <2>1
    <2> QED BY <2>1, <2>2 DEF Check, Configurations
  <1>9. ASSUME s.name = "transform" PROVE Set(c, s) \in Configurations
    <2>1. s.v \in Validators /\ Set(c, s) = Transform(c, s.v)
      BY <1>2, <1>9 DEF SetterCalls, Set
    <2>2. <<s.v>> \o c.validators \in Seq(Validators)
      BY <1>1, <2>1
    <2> QED BY <2>1, <2>2 DEF Transform, Configurations
  <1>10. s.name \in {"expected", "expectedBetween", "typeSize",
                     "typeSizeBetween", "policy", "check", "transform"}
    BY <1>2 DEF SetterCalls
  <1> QED
    BY <1>3, <1>4, <1>5, <1>6, <1>7, <1>8, <1>9, <1>10

(* Leaving out the empty texts leaves texts.                               *)
LEMMA NonEmptyTyped ==
  ASSUME NEW texts \in Seq(Texts)
  PROVE  NonEmpty(texts) \in Seq(Texts)
  <1> DEFINE n == Len(texts)
             step == [k \in Nat |-> [t \in Seq(Texts) |->
                        IF k + 1 <= n /\ texts[k + 1] # <<>>
                        THEN Append(t, texts[k + 1]) ELSE t]]
             Kept(f) == [k \in 0 .. n |->
                           IF k = 0 THEN <<>>
                           ELSE IF texts[k] = <<>> THEN f[k - 1]
                           ELSE Append(f[k - 1], texts[k])]
             kept == CHOOSE f : f = Kept(f)
  <1>1. n \in Nat
    OBVIOUS
  <1>2. \A k \in Nat : k + 1 <= n => texts[k + 1] \in Texts
    OBVIOUS
  <1>3. step \in [Nat -> [Seq(Texts) -> Seq(Texts)]]
    <2>1. \A k \in Nat, t \in Seq(Texts) :
            k + 1 <= n => Append(t, texts[k + 1]) \in Seq(Texts)
      BY <1>2
    <2> QED BY <2>1
  <1>4. PICK g \in [Nat -> Seq(Texts)] :
          g[0] = <<>> /\ \A k \in Nat : g[k + 1] = step[k][g[k]]
    <2> DEFINE X == Seq(Texts)
               first == <<>>
    <2>1. step \in [Nat -> [X -> X]] /\ first \in X
      BY <1>3
    <2> HIDE DEF step, X, first
    <2>2. \E g \in [Nat -> X] : Follows(g, first, step)
      BY <2>1, RecursionExists
    <2> QED BY <2>2 DEF X, first, Follows
  <1> DEFINE h == [k \in 0 .. n |-> g[k]]
  <1>5. \A k \in Nat, t \in Seq(Texts) : k + 1 <= n =>
          step[k][t] = IF texts[k + 1] = <<>> THEN t
                       ELSE Append(t, texts[k + 1])
    OBVIOUS
  <1>6. h = Kept(h)
    <2>1. ASSUME NEW k \in 0 .. n, k # 0
          PROVE  h[k] = IF texts[k] = <<>> THEN h[k - 1]
                        ELSE Append(h[k - 1], texts[k])
      <3>1. /\ k - 1 \in Nat /\ (k - 1) + 1 = k /\ k <= n
            /\ k - 1 \in 0 .. n
        BY <1>1, <2>1
      <3>2. h[k] = g[k] /\ h[k - 1] = g[k - 1] /\ g[k - 1] \in Seq(Texts)
        BY <1>4, <3>1
      <3> HIDE DEF h, step
      <3>3. g[(k - 1) + 1] = step[k - 1][g[k - 1]]
        BY <1>4, <3>1
      <3>4. step[k - 1][g[k - 1]] = IF texts[(k - 1) + 1] = <<>> THEN g[k - 1]
                                    ELSE Append(g[k - 1], texts[(k - 1) + 1])
        BY <1>5, <3>1, <3>2
      <3> QED BY <3>1, <3>2, <3>3, <3>4
    <2>2. 0 \in 0 .. n
      BY <1>1
    <2>3. h[0] = <<>>
      BY <1>4, <2>2
    <2> HIDE DEF h, step
    <2>4. \A k \in 0 .. n :
            h[k] = IF k = 0 THEN <<>>
                   ELSE IF texts[k] = <<>> THEN h[k - 1]
                   ELSE Append(h[k - 1], texts[k])
      BY <2>1, <2>3
    <2> QED BY <2>4 DEF h
  <1>7. kept = Kept(kept)
    <2> HIDE DEF Kept, h
    <2> QED BY <1>6
  <1>8. NonEmpty(texts) = kept[n]
    BY DEF NonEmpty
  <1> HIDE DEF kept, h, step
  <1>9. n \in {k \in Nat : k <= n => kept[k] \in Seq(Texts)}
    <2> DEFINE T == {k \in Nat : k <= n => kept[k] \in Seq(Texts)}
    <2>1. 0 \in T
      <3>1. 0 \in 0 .. n
        BY <1>1
      <3>2. kept[0] = <<>>
        BY <1>7, <3>1
      <3>3. kept[0] \in Seq(Texts)
        BY <3>2
      <3> QED BY <3>3
    <2>2. ASSUME NEW k \in T PROVE k + 1 \in T
      <3>1. SUFFICES ASSUME k + 1 <= n PROVE kept[k + 1] \in Seq(Texts)
        OBVIOUS
      <3>2. /\ k \in Nat /\ k + 1 \in 0 .. n /\ k + 1 # 0 /\ (k + 1) - 1 = k
            /\ k <= n
        BY <1>1, <3>1, SMTT(30)
      <3>3. kept[k] \in Seq(Texts) /\ texts[k + 1] \in Texts
        BY <1>2, <3>1, <3>2
      <3>4. kept[k + 1] = IF texts[k + 1] = <<>> THEN kept[(k + 1) - 1]
                          ELSE Append(kept[(k + 1) - 1], texts[k + 1])
        BY <1>7, <3>2
      <3>5. Append(kept[k], texts[k + 1]) \in Seq(Texts)
        BY <3>3
      <3> QED BY <3>2, <3>3, <3>4, <3>5
    <2> HIDE DEF T
    <2>3. T \in SUBSET Nat
      BY DEF T
    <2>4. T = Nat
      BY <2>1, <2>2, <2>3, Induction
    <2> QED BY <1>1, <2>4 DEF T
  <1> QED BY <1>1, <1>8, <1>9

----------------------------------------------------------------------------
(* A word adds texts.                                                      *)
LEMMA AddedTyped ==
  ASSUME option \in Configurations, NEW w \in TextWords
  PROVE  Added(w) \in Seq(Texts)
  <1>1. w.parts \in Seq(Texts)
    BY DEF TextWords
  <1>2. ASSUME NEW v, v.parts = w.parts
        PROVE  Parts(v) \in Seq(Texts)
    <2>1. CASE v.shape # "vector"
      BY <1>1, <1>2, <2>1 DEF Parts
    <2>2. CASE v.shape = "vector"
      <3> DEFINE last == Len(w.parts)
                 Bracketed(i) == (IF i = 1 THEN <<"[">> ELSE <<>>) \o w.parts[i]
                                 \o IF i = last THEN <<"]">> ELSE <<>>
      <3>1. last \in Nat
        BY <1>1
      <3>2. ASSUME NEW i \in 1 .. last PROVE Bracketed(i) \in Texts
        <4>1. w.parts[i] \in Seq(STRING)
          BY <1>1, <3>2 DEF Texts
        <4> DEFINE a == IF i = 1 THEN <<"[">> ELSE <<>>
                   b == IF i = last THEN <<"]">> ELSE <<>>
        <4>2. a \in Seq(STRING) /\ b \in Seq(STRING)
          <5>1. \A S, c : c \in S => <<c>> \in Seq(S)
            OBVIOUS
          <5>2. "[" \in STRING /\ "]" \in STRING
            BY OptionAssumption
          <5>3. \A S : <<>> \in Seq(S)
            OBVIOUS
          <5>4. <<"[">> \in Seq(STRING) /\ <<"]">> \in Seq(STRING)
                /\ <<>> \in Seq(STRING)
            BY ONLY <5>1, <5>2, <5>3
          <5> QED BY <5>4
        <4> HIDE DEF a, b
        <4>3. a \o w.parts[i] \in Seq(STRING)
          BY <4>1, <4>2, ConcatProperties
        <4>4. (a \o w.parts[i]) \o b \in Seq(STRING)
          BY <4>2, <4>3, ConcatProperties
        <4> QED BY <4>4 DEF a, b, Texts
      <3>3. Parts(v) = [i \in 1 .. last |-> Bracketed(i)]
        BY <1>2, <2>2 DEF Parts
      <3> HIDE DEF Bracketed, last
      <3> QED BY <3>1, <3>2, <3>3
    <2> QED BY <2>1, <2>2
  <1>3. ASSUME NEW parts \in Seq(Texts)
        PROVE  <<FlattenSeq(parts)>> \in Seq(Texts)
    <2>1. FlattenSeq(parts) \in Seq(STRING)
      BY <1>3, FlattenIsSeq DEF Texts
    <2> QED BY <2>1 DEF Texts
  <1>4. /\ Parts(w) \in Seq(Texts)
        /\ Parts([w EXCEPT !.shape = "vector"]) \in Seq(Texts)
    <2>1. [w EXCEPT !.shape = "vector"].parts = w.parts
      BY DEF TextWords
    <2> QED BY <1>2, <2>1
  <1>5. /\ NonEmpty(w.parts) \in Seq(Texts) /\ NonEmpty(Parts(w)) \in Seq(Texts)
        /\ <<FlattenSeq(Parts(w))>> \in Seq(Texts)
        /\ <<FlattenSeq(Parts([w EXCEPT !.shape = "vector"]))>> \in Seq(Texts)
    BY <1>1, <1>3, <1>4, NonEmptyTyped
  <1> QED BY <1>5 DEF Added

(* Validating a text leaves a text.                                        *)
LEMMA ValidateTyped ==
  ASSUME option \in Configurations, NEW text \in Texts, NEW index
  PROVE  Validate(text, index).t \in Texts
  <1> DEFINE n == Len(option.validators)
             X == [ok : BOOLEAN, t : Texts]
             See(r, v) ==
               IF ~r.ok \/ v.at \notin {-1, index} THEN r
               ELSE IF r.t \in v.refuses THEN [r EXCEPT !.ok = FALSE]
               ELSE [r EXCEPT !.t = IF @ \in DOMAIN v.maps THEN v.maps[@]
                                    ELSE @]
             unseen == [ok |-> TRUE, t |-> text]
             step == [k \in Nat |-> [r \in X |->
                        IF k + 1 <= n THEN See(r, option.validators[k + 1])
                        ELSE r]]
             Seen(f) == [k \in 0 .. n |->
                           IF k = 0 THEN unseen
                           ELSE See(f[k - 1], option.validators[k])]
             seen == CHOOSE f : f = Seen(f)
  <1>1. option.validators \in Seq(Validators)
    BY DEF Configurations
  <1>2. n \in Nat /\ \A k \in Nat : k + 1 <= n =>
                       option.validators[k + 1] \in Validators
    BY <1>1
  <1>3. unseen \in X
    OBVIOUS
  <1>4. \A r \in X, v \in Validators : See(r, v) \in X
    <2> SUFFICES ASSUME NEW r \in X, NEW v \in Validators PROVE See(r, v) \in X
      OBVIOUS
    <2> DEFINE u == IF r.t \in DOMAIN v.maps THEN v.maps[r.t] ELSE r.t
    <2>1. u \in Texts
      BY OptionAssumption
    <2>2. See(r, v) \in {r, [r EXCEPT !.ok = FALSE], [r EXCEPT !.t = u]}
      OBVIOUS
    <2> HIDE DEF u, See
    <2> QED BY <2>1, <2>2
  <1> HIDE DEF See, n, unseen
  <1>5. step \in [Nat -> [X -> X]]
    BY <1>2, <1>4
  <1>6. PICK g \in [Nat -> X] :
          g[0] = unseen /\ \A k \in Nat : g[k + 1] = step[k][g[k]]
    <2> HIDE DEF step, X
    <2>1. \E g \in [Nat -> X] : Follows(g, unseen, step)
      BY <1>3, <1>5, RecursionExists
    <2> QED BY <2>1 DEF Follows
  <1> DEFINE h == [k \in 0 .. n |-> g[k]]
  <1>7. \A k \in Nat, r \in X : k + 1 <= n =>
          step[k][r] = See(r, option.validators[k + 1])
    OBVIOUS
  <1>8. h = Seen(h)
    <2> HIDE DEF X
    <2>1. ASSUME NEW k \in 0 .. n, k # 0
          PROVE  h[k] = See(h[k - 1], option.validators[k])
      <3>1. /\ k - 1 \in Nat /\ (k - 1) + 1 = k /\ k <= n
            /\ k - 1 \in 0 .. n
        BY <1>2, <2>1
      <3>2. h[k] = g[k] /\ h[k - 1] = g[k - 1] /\ g[k - 1] \in X
        BY <1>6, <3>1
      <3> HIDE DEF h, step
      <3>3. g[(k - 1) + 1] = step[k - 1][g[k - 1]]
        BY <1>6, <3>1
      <3>4. step[k - 1][g[k - 1]]
              = See(g[k - 1], option.validators[(k - 1) + 1])
        BY <1>7, <3>1, <3>2
      <3> QED BY <3>1, <3>2, <3>3, <3>4
    <2>2. 0 \in 0 .. n
      BY <1>2
    <2>3. h[0] = unseen
      BY <1>6, <2>2
    <2> HIDE DEF h, step
    <2>4. \A k \in 0 .. n :
            h[k] = IF k = 0 THEN unseen ELSE See(h[k - 1], option.validators[k])
      BY <2>1, <2>3
    <2> QED BY <2>4 DEF h
  <1>9. seen = Seen(seen)
    <2> HIDE DEF Seen, h
    <2> QED BY <1>8
  <1>10. Validate(text, index) \in {unseen, seen[n]}
    BY DEF Validate, See, n, unseen
  <1> HIDE DEF seen, h, step, X
  <1>11. n \in {k \in Nat : k <= n => seen[k] \in X}
    <2> DEFINE T == {k \in Nat : k <= n => seen[k] \in X}
    <2>1. 0 \in T
      <3>1. 0 \in 0 .. n
        BY <1>2
      <3>2. seen[0] = unseen
        BY <1>9, <3>1
      <3>3. seen[0] \in X
        BY <1>3, <3>2
      <3> QED BY <3>3
    <2>2. ASSUME NEW k \in T PROVE k + 1 \in T
      <3>1. SUFFICES ASSUME k + 1 <= n PROVE seen[k + 1] \in X
        OBVIOUS
      <3>2. /\ k \in Nat /\ k + 1 \in 0 .. n /\ k + 1 # 0 /\ (k + 1) - 1 = k
            /\ k <= n
        BY <1>2, <3>1
      <3>3. seen[k] \in X /\ option.validators[k + 1] \in Validators
        BY <1>2, <3>1, <3>2
      <3>4. seen[k + 1] = See(seen[(k + 1) - 1], option.validators[k + 1])
        BY <1>9, <3>2
      <3> QED BY <1>4, <3>2, <3>3, <3>4
    <2> HIDE DEF T
    <2>3. T \in SUBSET Nat
      BY DEF T
    <2>4. T = Nat
      BY <2>1, <2>2, <2>3, Induction
    <2> QED BY <1>2, <2>4 DEF T
  <1>12. Validate(text, index) \in X
    BY <1>2, <1>3, <1>10, <1>11
  <1> QED BY <1>12 DEF X

(* Validating texts leaves as many texts.                                  *)
LEMMA ValidateResultsTyped ==
  ASSUME option \in Configurations, NEW texts \in Seq(Texts)
  PROVE  /\ ValidateResults(texts).texts \in Seq(Texts)
         /\ Len(ValidateResults(texts).texts) = Len(texts)
         /\ (option.validators = <<>> =>
               ValidateResults(texts) = Unchecked(texts))
  <1>1. CASE option.validators = <<>>
    BY <1>1 DEF ValidateResults, Unchecked
  <1>2. CASE option.validators # <<>>
    <2> DEFINE
          sized == option.typeMax > 1
          Place(n) == FirstIndex(texts) + n - 1
          restarts ==
            {n \in DOMAIN texts :
               /\ sized /\ option.typeMin # option.typeMax
               /\ texts[n] = Separator /\ Place(n) >= 0}
          Index(n) ==
            LET before == {m \in restarts : m < n}
                i == IF before = {} THEN Place(n) ELSE n - 1 - Max(before)
            IN IF sized /\ i >= 0 THEN i % option.typeMax ELSE i
          seen == [n \in DOMAIN texts |->
                     IF n \in restarts THEN [ok |-> TRUE, t |-> texts[n]]
                     ELSE Validate(texts[n], Index(n))]
          refused == {n \in DOMAIN texts : ~seen[n].ok}
    <2>1. /\ \A n \in DOMAIN texts :
               \/ seen[n].t = texts[n]
               \/ \E index : seen[n].t = Validate(texts[n], index).t
          /\ ValidateResults(texts).texts =
               [n \in DOMAIN texts |->
                  IF \E m \in refused : m < n THEN texts[n] ELSE seen[n].t]
      <3>1. ASSUME NEW n \in DOMAIN texts
            PROVE  \/ seen[n].t = texts[n]
                   \/ \E index : seen[n].t = Validate(texts[n], index).t
        <4> HIDE DEF restarts, Index
        <4>1. seen[n] = IF n \in restarts THEN [ok |-> TRUE, t |-> texts[n]]
                        ELSE Validate(texts[n], Index(n))
          OBVIOUS
        <4> HIDE DEF seen
        <4> QED BY <4>1
      <3>2. ValidateResults(texts) =
              [ok |-> refused = {},
               texts |-> [n \in DOMAIN texts |->
                            IF \E m \in refused : m < n THEN texts[n]
                            ELSE seen[n].t]]
        BY <1>2, Zenon DEF ValidateResults
      <3> HIDE DEF seen, refused
      <3> QED BY <3>1, <3>2
    <2> HIDE DEF seen, refused
    <2>2. Len(texts) \in Nat /\ DOMAIN texts = 1 .. Len(texts)
      OBVIOUS
    <2>3. \A n \in DOMAIN texts : texts[n] \in Texts
      OBVIOUS
    <2>4. \A n \in DOMAIN texts : seen[n].t \in Texts
      BY <2>1, <2>3, ValidateTyped
    <2> DEFINE out == ValidateResults(texts).texts
    <2>5. out \in [1 .. Len(texts) -> Texts]
      BY <2>1, <2>2, <2>3, <2>4
    <2> HIDE DEF out
    <2>6. out \in Seq(Texts) /\ Len(out) = Len(texts)
      BY <2>2, <2>5
    <2> QED BY <1>2, <2>6 DEF out
  <1> QED BY <1>1, <1>2

----------------------------------------------------------------------------
(* What the proofs keep of the calls that came before: in the state        *)
(* "called", proc_results_ are the reduction of what they were computed    *)
(* from, or the numbers of items were wrong and there are none; the last   *)
(* callback was told what its policy promises; and a read gave the value   *)
(* that a read would give.                                                 *)
OptionStages == {"parsing", "validated", "called"}
Sound(b, p) ==
  /\ b \in Bases
  /\ b.of # <<>> => \/ Miscounted(b) /\ p = <<>>
                    \/ p = Reduce(b, b.of)
Told(t) == t # NoValue /\ t.of = t.basis.of => Obeys(t.basis, t.values)

OptionTyped ==
  option \in Configurations /\ results \in Seq(Texts) /\ stage \in OptionStages
SoundWhenCalled == stage = "called" => Sound(basis, processed)
ReadIsShown == said.call = "read" => said.value = Shown
OptionInv == OptionTyped /\ SoundWhenCalled /\ Told(told) /\ ReadIsShown

(* What a reduction looks at is a basis.                                   *)
LEMMA BasisTyped ==
  ASSUME option \in Configurations, NEW texts \in Seq(Texts)
  PROVE  Basis(texts) \in Bases /\ Basis(texts).of = texts
  <1>1. ItemsMin \in Int /\ ItemsMax \in Int
    BY DEF Configurations, ItemsMin, ItemsMax
  <1>2. Larger(ItemsMax, 1) \in Nat \ {0}
    BY <1>1 DEF Larger
  <1>3. option.policy \in Policies
    BY DEF Configurations
  <1> QED BY <1>1, <1>2, <1>3 DEF Basis, Bases

(* What was reduced before is still what the policy promises.              *)
LEMMA SoundObeys ==
  ASSUME NEW b, NEW p, Sound(b, p), b.of # <<>>
  PROVE  Obeys(b, Either(p, b.of))
  <1>1. b \in Bases /\ ((Miscounted(b) /\ p = <<>>) \/ p = Reduce(b, b.of))
    BY DEF Sound
  <1>2. CASE p = Reduce(b, b.of)
    BY <1>1, <1>2, ReduceObeys
  <1>3. CASE Miscounted(b) /\ p = <<>>
    BY <1>3 DEF Miscounted, Either, Obeys, Promised
  <1> QED BY <1>1, <1>2, <1>3

(* What a run of the callback leaves.                                      *)
Left(run) ==
  /\ run.results \in Seq(Texts) /\ run.stage \in OptionStages /\ Told(run.told)
  /\ run.stage = "called" => Sound(run.basis, run.processed)
  /\ Sound(basis, processed) => Sound(run.basis, run.processed)

(* A callback that is called leaves what it should, if what it is given    *)
(* obeys the policy.                                                       *)
LEMMA HeardLeaves ==
  ASSUME option \in Configurations, Told(told), NEW texts \in Seq(Texts),
         NEW from, NEW out, NEW emptied \in BOOLEAN, Sound(from, out),
         texts = from.of => Obeys(from, Either(out, from.of))
  PROVE  Left(Heard(texts, from, out, emptied))
  <1> DEFINE run == Heard(texts, from, out, emptied)
  <1>1. /\ run.results = IF emptied THEN <<>> ELSE texts
        /\ run.processed = IF emptied THEN <<>> ELSE out
        /\ run.basis = IF emptied THEN Basis(<<>>) ELSE from
        /\ run.stage = "called"
        /\ run.told = IF option.callback
                      THEN [values |-> Either(out, texts), of |-> texts,
                            basis |-> from]
                      ELSE told
    BY DEF Heard
  <1> HIDE DEF run
  <1>2. <<>> \in Seq(Texts)
    OBVIOUS
  <1>3. Sound(run.basis, run.processed)
    <2>1. CASE emptied
      <3>1. Basis(<<>>) \in Bases /\ Basis(<<>>).of = <<>>
        BY <1>2, BasisTyped
      <3> QED BY <1>1, <2>1, <3>1 DEF Sound
    <2>2. CASE ~emptied
      BY <1>1, <2>2
    <2> QED BY <2>1, <2>2
  <1>4. Told(run.told)
    <2>1. CASE option.callback
      <3>1. /\ run.told.values = Either(out, texts) /\ run.told.of = texts
            /\ run.told.basis = from
        BY <1>1, <2>1
      <3> QED BY <3>1 DEF Told
    <2>2. CASE ~option.callback
      BY <1>1, <2>2
    <2> QED BY <2>1, <2>2
  <1>5. run.results \in Seq(Texts) /\ run.stage \in OptionStages
    BY <1>1, <1>2 DEF OptionStages
  <1> QED BY <1>3, <1>4, <1>5 DEF Left, run

(* And so does every run of the callback.                                  *)
LEMMA RunLeaves ==
  ASSUME OptionTyped, SoundWhenCalled, Told(told), NEW r \in Seq(Texts),
         NEW at,
         at = "called" => stage = "called" /\ (r # <<>> \/ option.forced)
  PROVE  Left(Run(r, at))
  <1> DEFINE forcing == option.forced /\ r = <<>>
             texts == IF forcing THEN Added(option.default) ELSE r
             checked == IF forcing \/ at = "parsing" THEN ValidateResults(texts)
                        ELSE Unchecked(texts)
             again == at = "called" /\ ~forcing
             emptied == forcing /\ option.callback
             from == Basis(checked.texts)
  <1>1. option \in Configurations
    BY DEF OptionTyped
  <1>2. /\ option.forced \in BOOLEAN /\ option.callback \in BOOLEAN
        /\ option.default \in TextWords
    BY <1>1 DEF Configurations
  <1>3. texts \in Seq(Texts) /\ emptied \in BOOLEAN
    BY <1>1, <1>2, AddedTyped
  <1>4. Run(r, at) = Checked(checked, from, again, emptied)
    BY DEF Run, Begin
  <1>5. again => texts = r /\ r # <<>> /\ checked = Unchecked(r)
    OBVIOUS
  <1> HIDE DEF texts, emptied
  <1>6. checked.texts \in Seq(Texts)
    <2>1. ValidateResults(texts).texts \in Seq(Texts)
      BY <1>1, <1>3, ValidateResultsTyped
    <2>2. Unchecked(texts).texts = texts
      BY DEF Unchecked
    <2> QED BY <1>3, <2>1, <2>2
  <1> HIDE DEF checked
  <1>7. from \in Bases /\ from.of = checked.texts
    BY <1>1, <1>6, BasisTyped
  <1> HIDE DEF from, again
  <1>8. CASE ~checked.ok
    <2>1. Run(r, at) = Unheard(checked.texts)
      BY <1>4, <1>8 DEF Checked
    <2>2. Left(Unheard(checked.texts))
      BY <1>6 DEF Left, Unheard, OptionStages
    <2> QED BY <2>1, <2>2
  <1>9. CASE checked.ok /\ again
    <2>1. Run(r, at) = Heard(checked.texts, basis, processed, emptied)
      BY <1>4, <1>9 DEF Checked
    <2>2. Sound(basis, processed)
      BY <1>9 DEF again, SoundWhenCalled
    <2>3. checked.texts = r /\ r # <<>>
      BY <1>5, <1>9 DEF Unchecked
    <2>4. checked.texts = basis.of => Obeys(basis, Either(processed, basis.of))
      BY <2>2, <2>3, SoundObeys
    <2> QED BY <1>1, <1>3, <1>6, <2>1, <2>2, <2>4, HeardLeaves
  <1>10. CASE checked.ok /\ ~again /\ Miscounted(from)
    <2>1. Run(r, at) = Uncounted(checked.texts, from)
      BY <1>4, <1>10 DEF Checked
    <2> DEFINE run == Uncounted(checked.texts, from)
    <2>2. /\ run.results = checked.texts /\ run.processed = <<>>
          /\ run.basis = from /\ run.stage = "validated" /\ run.told = told
      BY DEF Uncounted, Unheard
    <2> HIDE DEF run
    <2>3. Sound(run.basis, run.processed)
      BY <1>7, <1>10, <2>2 DEF Sound
    <2>4. Left(run)
      BY <1>6, <2>2, <2>3 DEF Left, OptionStages
    <2> QED BY <2>1, <2>4 DEF run
  <1>11. CASE checked.ok /\ ~again /\ ~Miscounted(from)
    <2>1. Run(r, at) = Heard(checked.texts, from, Reduce(from, checked.texts),
                             emptied)
      BY <1>4, <1>11 DEF Checked
    <2>2. Sound(from, Reduce(from, checked.texts))
      BY <1>7 DEF Sound
    <2>3. Obeys(from, Either(Reduce(from, checked.texts), from.of))
      BY <1>7, ReduceObeys
    <2> QED BY <1>1, <1>3, <1>6, <2>1, <2>2, <2>3, HeardLeaves
  <1> QED BY <1>8, <1>9, <1>10, <1>11

(* How many of its own results a reduction counts is all that it sees of   *)
(* them.                                                                   *)
LEMMA OwnAreCounted ==
  ASSUME NEW b, NEW own, NEW other, Len(own) = Len(other)
  PROVE  Reduce(b, own) = Reduce(b, other)
  BY DEF Reduce, ByPolicy

(* A read gives the value that a callback would be given now.              *)
LEMMA ReadGivesTheCallback ==
  ASSUME OptionTyped, SoundWhenCalled, results \notin {<<>>, <<Empty>>},
         Trusted, option.callback
  PROVE  CallbackNow.end = "ok" => Shown = Convert(CallbackNow.told.values)
  <1> DEFINE at == IF stage = "called" THEN "validated" ELSE stage
             run == Run(results, at)
             checked == IF at = "parsing" THEN ValidateResults(results)
                        ELSE Unchecked(results)
             from == Basis(checked.texts)
  <1>1. /\ option \in Configurations /\ results \in Seq(Texts)
        /\ stage \in OptionStages
    BY DEF OptionTyped
  <1>2. at \in {"parsing", "validated"}
    BY <1>1 DEF OptionStages
  <1>3. run = Checked(checked, from, FALSE, FALSE)
    BY <1>2 DEF Run, Begin
  <1>4. /\ checked.texts \in Seq(Texts) /\ Len(checked.texts) = Len(results)
        /\ (option.validators = <<>> => checked.texts = results)
        /\ (at = "validated" => checked.texts = results)
    <2>1. /\ ValidateResults(results).texts \in Seq(Texts)
          /\ Len(ValidateResults(results).texts) = Len(results)
          /\ (option.validators = <<>> =>
                ValidateResults(results) = Unchecked(results))
      BY <1>1, ValidateResultsTyped
    <2>2. Unchecked(results).texts = results
      BY DEF Unchecked
    <2> QED BY <1>1, <1>2, <2>1, <2>2
  <1>5. from \in Bases /\ from.of = checked.texts
    BY <1>1, <1>4, BasisTyped
  <1> SUFFICES ASSUME run.end = "ok" PROVE Shown = Convert(run.told.values)
    BY DEF CallbackNow
  <1> DEFINE out == Reduce(from, checked.texts)
  <1>6. /\ checked.ok /\ ~Miscounted(from)
        /\ run.told.values = Either(out, checked.texts)
    <2> HIDE DEF checked, from, at, out
    <2>1. Unheard(checked.texts).end = "invalid"
      BY DEF Unheard
    <2>2. Uncounted(checked.texts, from).end = "mismatch"
      BY DEF Uncounted, Unheard
    <2>3. Heard(checked.texts, from, out, FALSE).told.values
            = Either(out, checked.texts)
      BY DEF Heard
    <2>4. run = IF ~checked.ok THEN Unheard(checked.texts)
                ELSE IF Miscounted(from) THEN Uncounted(checked.texts, from)
                ELSE Heard(checked.texts, from, out, FALSE)
      BY <1>3 DEF Checked, out
    <2> HIDE DEF run
    <2> QED BY <2>1, <2>2, <2>3, <2>4
  <1> HIDE DEF run
  <1>7. CASE stage = "called"
    <2>1. basis = Basis(results)
      BY <1>7 DEF Trusted
    <2>2. checked = Unchecked(results) /\ checked.texts = results
      BY <1>7 DEF Unchecked
    <2>3. basis = from
      BY <2>1, <2>2
    <2> HIDE DEF checked, from
    <2>4. Sound(from, processed)
      BY <1>7, <2>3 DEF SoundWhenCalled
    <2>5. processed = Reduce(from, from.of)
      BY <1>5, <1>6, <2>2, <2>4 DEF Sound
    <2>6. Shown = Convert(Either(processed, results))
      BY <1>7 DEF Shown
    <2> QED BY <1>5, <1>6, <2>2, <2>5, <2>6
  <1>8. CASE stage # "called" /\ Len(results) = 1 /\ option.validators = <<>>
    <2>1. processed = <<>>
      BY <1>8 DEF Trusted
    <2>2. Shown = Convert(results)
      BY <1>8, <2>1 DEF Shown, Either
    <2>3. checked.texts = results
      BY <1>4, <1>8
    <2> HIDE DEF checked, from
    <2>4. Either(out, checked.texts) = checked.texts
      BY <1>5, <1>8, <2>3, OneIsKept
    <2> QED BY <1>6, <2>2, <2>3, <2>4
  <1>9. CASE stage # "called" /\ ~(Len(results) = 1 /\ option.validators = <<>>)
    <2>1. stage # "parsing" => processed = <<>>
      BY <1>9 DEF Trusted
    <2>2. at = stage
      BY <1>9
    <2>3. checked = IF stage = "parsing" \/ results = <<>>
                    THEN ValidateResults(results)
                    ELSE Unchecked(Either(processed, results))
      BY <1>2, <2>1, <2>2 DEF Either
    <2>4. Shown = IF ~checked.ok \/ Miscounted(from) THEN Refusal
                  ELSE Convert(Either(Reduce(from, results), checked.texts))
      <3> HIDE DEF checked, at
      <3> QED BY <1>9, <2>3 DEF Shown, from
    <2>5. Reduce(from, results) = out
      BY <1>4, OwnAreCounted
    <2> HIDE DEF checked, from, out
    <2> QED BY <1>6, <2>4, <2>5
  <1> QED BY <1>7, <1>8, <1>9

(* A read sees nothing but the option, its results and its stage.          *)
LEMMA SameShown ==
  ASSUME option' = option, results' = results, processed' = processed,
         stage' = stage
  PROVE  Shown' = Shown
  <1>1. \A t : ValidateResults(t)' = ValidateResults(t)
    BY SMTT(30)
       DEF ValidateResults, FirstIndex, ItemsMax, ItemsMin, Validate
  <1>2. \A w : Added(w)' = Added(w)
    BY DEF Added
  <1> QED
    BY <1>1, <1>2, SMTT(60) DEF Shown, ItemsMax, ItemsMin, Basis, Convert

----------------------------------------------------------------------------
(* The invariant holds from the start.                                     *)
LEMMA OptionInitSound ==
  ASSUME OptionInit
  PROVE  OptionInv
  <1>1. OptionTyped
    <2>1. OptionKinds \subseteq Configurations
      BY OptionAssumption
    <2>2. <<>> \in Seq(Texts)
      OBVIOUS
    <2> QED BY <2>1, <2>2 DEF OptionInit, OptionTyped, OptionStages
  <1>2. SoundWhenCalled /\ Told(told) /\ ReadIsShown
    BY DEF OptionInit, SoundWhenCalled, Told, ReadIsShown
  <1> QED BY <1>1, <1>2 DEF OptionInv

(* No call that is made to an option breaks the invariant.                 *)
LEMMA OptionNextSound ==
  ASSUME OptionInv, [OptionNext]_optionVars
  PROVE  OptionInv'
  <1>1. /\ OptionTyped /\ SoundWhenCalled /\ Told(told) /\ ReadIsShown
        /\ option \in Configurations /\ results \in Seq(Texts)
        /\ stage \in OptionStages
    BY DEF OptionInv, OptionTyped
  <1>2. OptionWords \subseteq TextWords
    BY OptionAssumption
  <1>3. ASSUME NEW call, NEW value, Call(call, value), call # "read"
        PROVE  ReadIsShown'
    BY <1>3 DEF Call, ReadIsShown
  <1>4. ASSUME UNCHANGED <<stage, processed, basis, told>>
        PROVE  SoundWhenCalled' /\ Told(told)'
    BY <1>1, <1>4 DEF SoundWhenCalled, Sound, Told, Bases, Miscounted, Marked,
                      Reduce, ByPolicy, Either, ReduceLast, Trimmed, Obeys,
                      Promised
  <1>5. ASSUME stage' = "parsing", UNCHANGED told
        PROVE  SoundWhenCalled' /\ Told(told)'
    BY <1>1, <1>5 DEF SoundWhenCalled, Told, Obeys, Promised
  <1>6. ASSUME NEW w \in OptionWords, AddResult(w)
        PROVE  OptionInv'
    <2>1. /\ results' = results \o Added(w) /\ stage' = "parsing"
          /\ option' = option /\ told' = told
          /\ Call("add_result", Len(Added(w)))
      BY <1>6 DEF AddResult
    <2>2. Added(w) \in Seq(Texts)
      BY <1>1, <1>2, AddedTyped
    <2>3. OptionTyped'
      <3>1. results' \in Seq(Texts)
        BY <1>1, <2>1, <2>2, ConcatProperties
      <3> QED BY <1>1, <2>1, <3>1 DEF OptionTyped, OptionStages
    <2> QED BY <1>3, <1>5, <2>1, <2>3 DEF OptionInv
  <1>7. ASSUME ClearOption
        PROVE  OptionInv'
    <2>1. /\ results' = <<>> /\ stage' = "parsing" /\ option' = option
          /\ told' = told /\ Call("clear", "ok")
      BY <1>7 DEF ClearOption
    <2>2. OptionTyped'
      BY <1>1, <2>1 DEF OptionTyped, OptionStages
    <2> QED BY <1>3, <1>5, <2>1, <2>2 DEF OptionInv
  <1>8. ASSUME NEW s \in Setters, SetOption(s)
        PROVE  OptionInv'
    <2>1. /\ option' = Set(option, s) /\ stage' \in {"parsing", stage}
          /\ UNCHANGED <<results, processed, basis, told>>
          /\ Call("set", s.name)
      BY <1>8 DEF SetOption
    <2>2. OptionTyped'
      <3>1. option' \in Configurations
        BY <1>1, <2>1, SetTyped
      <3> QED BY <1>1, <2>1, <3>1 DEF OptionTyped, OptionStages
    <2>3. SoundWhenCalled' /\ Told(told)'
      BY <1>4, <1>5, <2>1
    <2> QED BY <1>3, <2>1, <2>2, <2>3 DEF OptionInv
  <1>9. ASSUME NEW run, Left(run), told' = run.told, processed' = run.processed,
               basis' = run.basis, stage' \in {"parsing", stage, run.stage}
        PROVE  SoundWhenCalled' /\ Told(told)'
    <2>1. /\ Told(run.told)
          /\ run.stage = "called" => Sound(run.basis, run.processed)
          /\ Sound(basis, processed) => Sound(run.basis, run.processed)
      BY <1>9 DEF Left
    <2>2. stage' = "called" => Sound(run.basis, run.processed)
      BY <1>1, <1>9, <2>1 DEF SoundWhenCalled
    <2>3. Sound(run.basis, run.processed) => Sound(basis', processed')
      BY <1>9
    <2>4. Told(told')
      BY <1>9, <2>1
    <2> QED BY <2>2, <2>3, <2>4 DEF SoundWhenCalled
  <1>10. ASSUME RunOptionCallback
         PROVE  OptionInv'
    <2> DEFINE run == Run(results, stage)
    <2>1. /\ results # <<>> \/ option.forced
          /\ Call("run_callback", run.end)
          /\ results' = run.results /\ processed' = run.processed
          /\ stage' = run.stage /\ basis' = run.basis /\ told' = run.told
          /\ option' = option
      BY <1>10 DEF RunOptionCallback
    <2>2. Left(run)
      BY <1>1, <2>1, RunLeaves
    <2> HIDE DEF run
    <2>3. OptionTyped'
      BY <1>1, <2>1, <2>2 DEF OptionTyped, Left
    <2>4. SoundWhenCalled' /\ Told(told)'
      BY <1>9, <2>1, <2>2
    <2> QED BY <1>3, <2>1, <2>3, <2>4 DEF OptionInv
  <1>11. ASSUME NEW w \in OptionWords, DefaultVal(w)
         PROVE  OptionInv'
    <2> DEFINE run == Run(Added(w), "parsing")
    <2>1. /\ \E end : Call("default_val", end)
          /\ option' \in {option, [option EXCEPT !.default = w]}
          /\ results' = results
          /\ \/ /\ told' = run.told /\ processed' = run.processed
                /\ basis' = run.basis /\ stage' \in {"parsing", stage}
             \/ UNCHANGED <<stage, processed, basis, told>>
      BY <1>11 DEF DefaultVal
    <2>2. Left(run)
      <3>1. Added(w) \in Seq(Texts)
        BY <1>1, <1>2, AddedTyped
      <3> QED BY <1>1, <3>1, RunLeaves
    <2> HIDE DEF run
    <2>3. OptionTyped'
      <3>1. [option EXCEPT !.default = w] \in Configurations
        BY <1>1, <1>2 DEF Configurations
      <3>2. option' \in Configurations
        BY <1>1, <2>1, <3>1
      <3>3. stage' \in OptionStages
        BY <1>1, <2>1 DEF OptionStages
      <3> QED BY <1>1, <2>1, <3>2, <3>3 DEF OptionTyped
    <2>4. SoundWhenCalled' /\ Told(told)'
      BY <1>4, <1>9, <2>1, <2>2
    <2>5. ReadIsShown'
      BY <1>3, <2>1
    <2> QED BY <2>3, <2>4, <2>5 DEF OptionInv
  <1>12. ASSUME ReadOption
         PROVE  OptionInv'
    <2>1. /\ said' = [call |-> "read", value |-> Shown]
          /\ UNCHANGED <<option, results, processed, stage, basis, told>>
      BY <1>12 DEF ReadOption, Call, valueVars
    <2>2. Shown' = Shown
      BY <2>1, SameShown
    <2>3. ReadIsShown'
      BY <2>1, <2>2 DEF ReadIsShown
    <2>4. OptionTyped'
      BY <1>1, <2>1 DEF OptionTyped
    <2> QED BY <1>4, <2>1, <2>3, <2>4 DEF OptionInv
  <1>13. CASE UNCHANGED optionVars
    <2>1. UNCHANGED <<option, results, processed, stage, basis, told, said>>
      BY <1>13 DEF optionVars, valueVars
    <2>2. Shown' = Shown
      BY <2>1, SameShown
    <2>3. ReadIsShown'
      BY <1>1, <2>1, <2>2 DEF ReadIsShown
    <2>4. OptionTyped'
      BY <1>1, <2>1 DEF OptionTyped
    <2> QED BY <1>4, <2>1, <2>3, <2>4 DEF OptionInv
  <1> QED
    BY <1>6, <1>7, <1>8, <1>10, <1>11, <1>12, <1>13 DEF OptionNext

(* In a state that the calls lead to, a read is right where it is trusted. *)
LEMMA TrustedIsRight ==
  ASSUME OptionInv, Trusted
  PROVE  ReadIsRight
  <1> SUFFICES ASSUME said.call = "read", results \notin {<<>>, <<Empty>>},
                      option.callback, CallbackNow.end = "ok"
               PROVE  said.value = Convert(CallbackNow.told.values)
    BY DEF ReadIsRight
  <1>1. OptionTyped /\ SoundWhenCalled /\ ReadIsShown
    BY DEF OptionInv
  <1>2. Shown = Convert(CallbackNow.told.values)
    BY <1>1, ReadGivesTheCallback
  <1>3. said.value = Shown
    BY <1>1 DEF ReadIsShown
  <1> QED BY <1>2, <1>3

(* However an option is set, given words, run, cleared and given defaults: *)
(* its callback is told what the multi-option policy promises of the       *)
(* results, and a read that does not find the proc_results_ of something   *)
(* else gives the value that the callback is told.                         *)
THEOREM ValuesProved == OptionSpec => []ValuesAreTrue
  <1>1. OptionInit => OptionInv
    BY OptionInitSound
  <1>2. OptionInv /\ [OptionNext]_optionVars => OptionInv'
    BY OptionNextSound
  <1>3. OptionInv => ValuesAreTrue
    BY TrustedIsRight DEF OptionInv, Told, PolicyIsKept, ValuesAreTrue
  <1> QED BY <1>1, <1>2, <1>3, PTL DEF OptionSpec

----------------------------------------------------------------------------
(* An option in ordinary use: it is set before its callback runs, it is    *)
(* not cleared, every word adds a text, a default that is forced has a     *)
(* text, and a default that goes through the callback is given before the  *)
(* callback runs and is left whole by the policy.  Nothing is said of      *)
(* proc_results_ where a read finds them.                                  *)
OrdinaryNext ==
  \/ \E w \in OptionWords :
       \/ Added(w) # <<>> /\ AddResult(w)
       \/ /\ DefaultVal(w)
          /\ option.forDefault => stage # "called" /\ processed' = <<>>
  \/ /\ stage # "called" /\ processed = <<>>
     /\ \E s \in Setters : SetOption(s)
  \/ /\ results # <<>> \/ Added(option.default) # <<>>
     /\ RunOptionCallback
  \/ ReadOption

OrdinarySpec == OptionInit /\ [][OrdinaryNext]_optionVars

(* What ordinary use keeps of results r, proc_results_ p, stage s and what *)
(* p was computed from.                                                    *)
Ordinary(r, p, s, b) ==
  /\ s = "validated" => p = <<>>
  /\ p # <<>> => r # <<>>
  /\ s = "parsing" /\ p # <<>> => Len(r) # 1 \/ option.validators # <<>>
  /\ s = "called" => b = Basis(r)
OrdinaryInv == Ordinary(results, processed, stage, basis)

(* A run of the callback leaves an option as ordinary use keeps it.        *)
LEMMA RunIsOrdinary ==
  ASSUME OptionTyped, OrdinaryInv, results # <<>> \/ option.forced,
         results # <<>> \/ Added(option.default) # <<>>,
         NEW run, run = Run(results, stage)
  PROVE  Ordinary(run.results, run.processed, run.stage, run.basis)
  <1> DEFINE forcing == option.forced /\ results = <<>>
             texts == IF forcing THEN Added(option.default) ELSE results
             checked == IF forcing \/ stage = "parsing"
                        THEN ValidateResults(texts) ELSE Unchecked(texts)
             again == stage = "called" /\ ~forcing
             emptied == forcing /\ option.callback
             from == Basis(checked.texts)
             out == Reduce(from, checked.texts)
  <1>1. run = Checked(checked, from, again, emptied)
    BY DEF Run, Begin
  <1>2. /\ option \in Configurations /\ option.default \in TextWords
        /\ results \in Seq(Texts)
    BY DEF OptionTyped, Configurations
  <1>3. texts \in Seq(Texts) /\ texts # <<>>
    BY <1>2, AddedTyped
  <1>4. again => /\ emptied = FALSE /\ checked.ok /\ checked.texts = results
                 /\ stage = "called"
    BY DEF Unchecked
  <1>5. processed # <<>> => texts = results
    BY DEF OrdinaryInv, Ordinary
  <1> HIDE DEF texts, emptied
  <1>6. /\ checked.texts \in Seq(Texts) /\ Len(checked.texts) = Len(texts)
        /\ option.validators = <<>> => checked.ok
    <2>1. /\ ValidateResults(texts).texts \in Seq(Texts)
          /\ Len(ValidateResults(texts).texts) = Len(texts)
          /\ option.validators = <<>> => ValidateResults(texts)
                                           = Unchecked(texts)
      BY <1>2, <1>3, ValidateResultsTyped
    <2>2. Unchecked(texts).texts = texts /\ Unchecked(texts).ok
      BY DEF Unchecked
    <2> QED BY <1>3, <2>1, <2>2
  <1> HIDE DEF checked, again, from, out
  <1>7. checked.texts # <<>>
    BY <1>3, <1>6
  <1>8. CASE ~checked.ok
    <2>1. run = Unheard(checked.texts)
      BY <1>1, <1>8 DEF Checked
    <2> QED BY <1>6, <1>7, <1>8, <2>1 DEF Unheard, Ordinary
  <1>9. CASE checked.ok /\ again
    <2>1. run = Heard(results, basis, processed, FALSE)
      BY <1>1, <1>4, <1>9 DEF Checked
    <2>2. /\ run.results = results /\ run.processed = processed
          /\ run.basis = basis /\ run.stage = "called"
      BY <2>1 DEF Heard
    <2> QED BY <1>4, <1>9, <2>2 DEF OrdinaryInv, Ordinary
  <1>10. CASE checked.ok /\ ~again /\ Miscounted(from)
    <2>1. run = Uncounted(checked.texts, from)
      BY <1>1, <1>10 DEF Checked
    <2>2. run.processed = <<>> /\ run.stage = "validated"
      BY <2>1 DEF Uncounted, Unheard
    <2> QED BY <2>2 DEF Ordinary
  <1>11. CASE checked.ok /\ ~again /\ ~Miscounted(from)
    <2>1. run = Heard(checked.texts, from, out, emptied)
      BY <1>1, <1>11 DEF Checked, out
    <2>2. /\ run.results = IF emptied THEN <<>> ELSE checked.texts
          /\ run.processed = IF emptied THEN <<>> ELSE out
          /\ run.basis = IF emptied THEN Basis(<<>>) ELSE from
          /\ run.stage = "called"
      BY <2>1 DEF Heard
    <2> QED BY <1>7, <2>2 DEF Ordinary, from
  <1> QED BY <1>8, <1>9, <1>10, <1>11

(* Every ordinary call is one of the calls, and keeps an option ordinary.  *)
LEMMA OrdinaryNextKeeps ==
  ASSUME OptionInv, OrdinaryInv, [OrdinaryNext]_optionVars
  PROVE  [OptionNext]_optionVars /\ OrdinaryInv'
  <1>1. [OptionNext]_optionVars
    BY DEF OrdinaryNext, OptionNext
  <1>2. /\ option \in Configurations /\ results \in Seq(Texts)
        /\ stage \in OptionStages /\ OptionTyped
    BY DEF OptionInv, OptionTyped
  <1>3. ASSUME processed' = <<>>, stage' # "called" PROVE OrdinaryInv'
    BY <1>3 DEF OrdinaryInv, Ordinary
  <1>4. ASSUME UNCHANGED <<results, processed, stage, basis>>,
               \/ option' = option
               \/ \E w : option' = [option EXCEPT !.default = w]
        PROVE  OrdinaryInv'
    <2>1. /\ option'.validators = option.validators
          /\ Basis(results)' = Basis(results)
      BY <1>2, <1>4 DEF Configurations, Basis, ItemsMin, ItemsMax
    <2> QED BY <1>4, <2>1 DEF OrdinaryInv, Ordinary
  <1>5. ASSUME NEW w \in OptionWords, Added(w) # <<>>, AddResult(w)
        PROVE  OrdinaryInv'
    <2>1. Added(w) \in Seq(Texts)
      BY <1>2, OptionAssumption, AddedTyped
    <2>2. /\ results' = results \o Added(w) /\ stage' = "parsing"
          /\ processed' = processed /\ option' = option
      BY <1>5 DEF AddResult
    <2>3. Len(Added(w)) # 0 /\ (results # <<>> => Len(results) # 0)
      BY <1>2, <1>5, <2>1
    <2>4. results' # <<>> /\ (results # <<>> => Len(results') # 1)
      BY <1>2, <2>1, <2>2, <2>3
    <2> QED BY <2>2, <2>4 DEF OrdinaryInv, Ordinary
  <1>6. ASSUME NEW w \in OptionWords, DefaultVal(w),
               option.forDefault => stage # "called" /\ processed' = <<>>
        PROVE  OrdinaryInv'
    <2>1. option' = option \/ option' = [option EXCEPT !.default = w]
      BY <1>6 DEF DefaultVal
    <2>2. CASE option.forDefault
      <3>1. stage' \in {"parsing", stage}
        BY <1>6, <2>2 DEF DefaultVal
      <3> QED BY <1>3, <1>6, <2>2, <3>1
    <2>3. CASE ~option.forDefault
      <3>1. UNCHANGED <<results, processed, stage, basis>>
        BY <1>6, <2>3 DEF DefaultVal
      <3> QED BY <1>4, <2>1, <3>1
    <2> QED BY <2>2, <2>3
  <1>7. ASSUME NEW s \in Setters, SetOption(s), stage # "called",
               processed = <<>>
        PROVE  OrdinaryInv'
    BY <1>3, <1>7 DEF SetOption
  <1>8. ASSUME RunOptionCallback,
               results # <<>> \/ Added(option.default) # <<>>
        PROVE  OrdinaryInv'
    <2> DEFINE run == Run(results, stage)
    <2>1. /\ results # <<>> \/ option.forced
          /\ results' = run.results /\ processed' = run.processed
          /\ stage' = run.stage /\ basis' = run.basis /\ option' = option
      BY <1>8 DEF RunOptionCallback
    <2>2. Ordinary(run.results, run.processed, run.stage, run.basis)
      BY <1>2, <1>8, <2>1, RunIsOrdinary
    <2> HIDE DEF run
    <2>3. Basis(results)' = Basis(run.results)
      BY <2>1 DEF Basis, ItemsMin, ItemsMax
    <2> QED BY <2>1, <2>2, <2>3 DEF OrdinaryInv, Ordinary
  <1>9. ASSUME ReadOption \/ UNCHANGED optionVars
        PROVE  OrdinaryInv'
    BY <1>4, <1>9 DEF ReadOption, valueVars, optionVars
  <1>10. OrdinaryInv'
    BY <1>5, <1>6, <1>7, <1>8, <1>9 DEF OrdinaryNext
  <1> QED BY <1>1, <1>10

(* In ordinary use every read of an option gives the value that its        *)
(* callback is given: no proviso on proc_results_ is needed.               *)
THEOREM OrdinaryReads == OrdinarySpec => []ReadIsRight
  <1>1. OptionInit => OptionInv /\ OrdinaryInv
    BY OptionInitSound DEF OptionInit, OrdinaryInv, Ordinary
  <1>2. OptionInv /\ OrdinaryInv /\ [OrdinaryNext]_optionVars
          => (OptionInv /\ OrdinaryInv)'
    BY OrdinaryNextKeeps, OptionNextSound
  <1>3. OptionInv /\ OrdinaryInv => ReadIsRight
    <2> SUFFICES ASSUME OptionInv, OrdinaryInv PROVE ReadIsRight
      OBVIOUS
    <2>1. stage \in OptionStages
      BY DEF OptionInv, OptionTyped
    <2>2. Trusted
      BY <2>1 DEF OrdinaryInv, Ordinary, OptionStages, Trusted
    <2> QED BY <2>2, TrustedIsRight
  <1> QED BY <1>1, <1>2, <1>3, PTL DEF OrdinarySpec
=============================================================================
