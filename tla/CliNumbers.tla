---------------------------- MODULE CliNumbers ----------------------------
(***************************************************************************)
(* What CLI11 makes of the words of the user where a number, a flag or a   *)
(* checked value is expected: the conversion to integers, flag values,     *)
(* numbers with a unit, and the validators.  Each is asked one word at a   *)
(* time.                                                                   *)
(*                                                                         *)
(* A word that should be a number has a sign, a form (decimal, octal with  *)
(* a leading 0, hexadecimal, 0o, 0b or the word true), a value, and may    *)
(* have blanks before (lead) or after it (trail), separators in it (split) *)
(* or something else after it (junk).                                      *)
(***************************************************************************)
EXTENDS Integers, Sequences

CONSTANTS
  LongBits,      (* the width of std::int64_t and std::uint64_t            *)
  Widths,        (* the widths of the types converted to                   *)
  Magnitudes,    (* the values written                                     *)
  Kilo, Kibi,    (* 1000 and 1024: the factors of size units               *)
  Levels         (* 1..6, from k to e: the last factor fits into a number  *)

ASSUME FactorsFit == \A l \in Levels : Kilo <= Kibi /\ Kibi ^ l < 2 ^ LongBits

VARIABLE asked   (* the last question                                      *)

numberVars == <<asked>>

Prefixed == {"0o", "0b"}
Forms == {"dec", "oct", "hex", "true"} \cup Prefixed
NumberWords ==
  [sign : {"none", "-"}, form : Forms, value : Magnitudes, lead : BOOLEAN,
   trail : BOOLEAN, split : BOOLEAN, junk : BOOLEAN]

Plain(v) ==
  [sign |-> IF v < 0 THEN "-" ELSE "none", form |-> "dec",
   value |-> IF v < 0 THEN -v ELSE v, lead |-> FALSE, trail |-> FALSE,
   split |-> FALSE, junk |-> FALSE]

Fits(v, bits) == v \in -(2 ^ (bits - 1)) .. 2 ^ (bits - 1) - 1
FitsUnsigned(v, bits) == v \in 0 .. 2 ^ bits - 1
Written(t) == IF t.sign = "-" THEN -t.value ELSE t.value

Yields(v) == [ok |-> TRUE, value |-> v]
Fails == [ok |-> FALSE, value |-> 0]
YieldsIf(c, v) == IF c THEN Yields(v) ELSE Fails

----------------------------------------------------------------------------
(* strtoll and strtoull: the number at the beginning, whether it is in     *)
(* range and whether it is the whole word.                                 *)
Prefix(t) == t.split \/ t.form \in Prefixed \cup {"true"}
Whole(t) == ~Prefix(t) /\ ~t.trail /\ ~t.junk
InRange(t) == Prefix(t) \/ Fits(Written(t), LongBits)
InUnsignedRange(t) == Prefix(t) \/ FitsUnsigned(t.value, LongBits)
Wrapped(t) == Written(t) % 2 ^ LongBits

(* integral_conversion to a signed type.                                   *)
RECURSIVE SignedConversion(_, _)
SignedConversion(t, bits) ==
  IF ~InRange(t) THEN Fails
  ELSE IF Whole(t) /\ Fits(Written(t), bits) THEN Yields(Written(t))
  ELSE IF t = [Plain(t.value) EXCEPT !.form = "true"] THEN Yields(1)
  ELSE IF t.split THEN SignedConversion([t EXCEPT !.split = FALSE], bits)
  ELSE IF t.trail
       THEN SignedConversion([t EXCEPT !.trail = FALSE, !.lead = FALSE], bits)
  ELSE YieldsIf(/\ t.form \in Prefixed /\ t.sign = "none"
                /\ ~t.lead /\ ~t.junk
                /\ Fits(t.value, LongBits) /\ Fits(t.value, bits), t.value)

(* integral_conversion to an unsigned type: a minus sign is looked for in  *)
(* the first place only, and strtoull wraps the number around.             *)
RECURSIVE UnsignedConversion(_, _)
UnsignedConversion(t, bits) ==
  IF (t.sign = "-" /\ ~t.lead) \/ ~InUnsignedRange(t) THEN Fails
  ELSE IF Whole(t) /\ FitsUnsigned(Wrapped(t), bits) THEN Yields(Wrapped(t))
  ELSE IF Whole(t) THEN Fails
  ELSE IF t.split THEN UnsignedConversion([t EXCEPT !.split = FALSE], bits)
  ELSE IF t.trail
       THEN UnsignedConversion([t EXCEPT !.trail = FALSE, !.lead = FALSE], bits)
  ELSE YieldsIf(/\ t.form \in Prefixed /\ t.sign = "none"
                /\ ~t.lead /\ ~t.junk /\ FitsUnsigned(t.value, LongBits)
                /\ FitsUnsigned(t.value, bits), t.value)

(* checked_multiply: the product where no overflow is foreseen.            *)
Magnitude(x) == IF x < 0 THEN -x ELSE x
OverflowCheck(a, b, bits) ==
  IF (a > 0) = (b > 0)
  THEN (2 ^ (bits - 1) - 1) \div Magnitude(a) < Magnitude(b)
  ELSE -(2 ^ (bits - 1) \div Magnitude(a)) > -Magnitude(b)
CheckedMultiply(a, b, bits) ==
  LET low == -(2 ^ (bits - 1))
  IN YieldsIf(\/ a \in {0, 1} \/ b \in {0, 1}
              \/ low \notin {a, b} /\ ~OverflowCheck(a, b, bits), a * b)
CheckedMultiplyUnsigned(a, b, bits) ==
  YieldsIf(a \in {0, 1} \/ b \in {0, 1} \/ (2 ^ bits - 1) \div a >= b, a * b)

----------------------------------------------------------------------------
(* to_flag_value.  A flag's word is one of these or a number, perhaps of   *)
(* one digit.                                                              *)
YesWords == {"true", "t", "y", "+", "on", "yes", "enable"}
NoWords == {"false", "f", "n", "-", "off", "no", "disable"}
StrangeLetter == "?"
FlagNumber(v, one) == [word |-> "number", v |-> v, one |-> one]
FlagWord(w) == [word |-> w, v |-> 0, one |-> FALSE]
FlagWords ==
  {FlagWord(w) : w \in YesWords \cup NoWords \cup {"?", "other"}}
  \cup {FlagNumber(v, FALSE) : v \in -(2 ^ LongBits) .. 2 ^ LongBits}
  \cup {FlagNumber(v, TRUE) : v \in 0 .. 9}

Longest == 2 ^ (LongBits - 1) - 1
Clamp(v) == IF Fits(v, LongBits) THEN v
            ELSE IF v < 0 THEN -Longest - 1 ELSE Longest
ToFlagValue(x) ==
  LET says(v, good) == [value |-> v, good |-> good]
  IN IF x.word \in YesWords THEN says(1, TRUE)
     ELSE IF x.word \in NoWords THEN says(-1, TRUE)
     ELSE IF x.word = StrangeLetter THEN says(-1, FALSE)
     ELSE IF x.word # "number" THEN says(0, FALSE)
     ELSE IF x.one THEN says(IF x.v = 0 THEN -1 ELSE x.v, TRUE)
     ELSE says(Clamp(x.v), Fits(x.v, LongBits))

(* get_flag_value for a name: the option may refuse overrides, and may     *)
(* have a value for the name (given), or none (Nothing).  -val wraps for   *)
(* the least number.                                                       *)
Nothing == FlagWord("nothing")
RefusedWord == FlagWord("refused")
Negated(x) ==
  LET val == ToFlagValue(x).value
  IN IF ~ToFlagValue(x).good THEN x
     ELSE IF val = 1 THEN FlagWord("false")
     ELSE IF val = -1 THEN FlagWord("true")
     ELSE IF Fits(-val, LongBits) THEN FlagNumber(-val, -val \in 0..9)
     ELSE FlagNumber(val, FALSE)

FlagValue(o, x) ==
  LET named == o.given # Nothing
      silent == IF named THEN o.given
                ELSE IF o.flagLike THEN FlagWord("true") ELSE o.default
  IN IF x = Nothing THEN silent
     ELSE IF /\ o.fixed /\ x # IF named THEN o.given ELSE FlagWord("true")
             /\ ~(named /\ o.forced /\ x = o.default)
     THEN RefusedWord
     ELSE IF o.fixed /\ named /\ x # o.given THEN x
     ELSE IF o.given = FlagWord("false") THEN Negated(x) ELSE x

FlagKinds ==
  [fixed : BOOLEAN, flagLike : BOOLEAN, forced : BOOLEAN,
   given : {Nothing, FlagWord("false"), FlagNumber(3, TRUE)},
   default : {FlagWord("off"), FlagNumber(2, TRUE)}]

----------------------------------------------------------------------------
(* AsNumberWithUnit, and the units of AsSizeValue: a level, and whether it *)
(* ends in b, i or ib.                                                     *)
SizeUnits == {<<0, "b">>} \cup (Levels \X {"", "b", "i", "ib"})
SizeFactor(u, kbIs1000) ==
  IF u[1] = 0 THEN 1
  ELSE IF u[2] \in {"i", "ib"} \/ ~kbIs1000 THEN Kibi ^ u[1] ELSE Kilo ^ u[1]

NoUnit == <<0, "">>
NoNumber == [Plain(0) EXCEPT !.junk = TRUE]
(* Variant: a product that does not fit wraps around.                      *)
WithUnitUnchecked(t, u, required, kbIs1000) ==
  LET n == UnsignedConversion(t, LongBits)
      factor == SizeFactor(u, kbIs1000)
  IN IF u = NoUnit
     THEN IF required THEN Fails ELSE n
     ELSE IF u \notin SizeUnits THEN Fails
     ELSE IF t = NoNumber THEN Yields(factor)
     ELSE IF ~n.ok THEN Fails ELSE Yields(n.value * factor % 2 ^ LongBits)
WithUnit(t, u, required, kbIs1000) ==
  LET n == UnsignedConversion(t, LongBits)
      factor == SizeFactor(u, kbIs1000)
  IN IF u = NoUnit
     THEN IF required THEN Fails ELSE n
     ELSE IF u \notin SizeUnits THEN Fails
     ELSE IF t = NoNumber THEN Yields(factor)
     ELSE IF ~n.ok THEN Fails
     ELSE CheckedMultiplyUnsigned(n.value, factor, LongBits)

----------------------------------------------------------------------------
(* Validators: a word that they see is accepted or not, and may become     *)
(* another one.  Names have a spelling; filter is ignore_case.             *)
Seen(ok, t) == [ok |-> ok, t |-> t]
Filtered(v, t) == IF v.filter THEN [t EXCEPT !.upper = FALSE] ELSE t

(* detail::search: as it is, or else by the filtered elements.             *)
Found(v, t) ==
  LET Where(Same(_)) == {i \in DOMAIN v.keys : Same(v.keys[i])}
      exact == Where(LAMBDA k : k = Filtered(v, t))
      loose == IF v.filter
               THEN Where(LAMBDA k : Filtered(v, k) = Filtered(v, t)) ELSE {}
      hits == IF exact # {} THEN exact ELSE loose
  IN IF hits = {} THEN 0 ELSE CHOOSE i \in hits : \A j \in hits : i <= j

RangeOf(v, t) ==
  LET n == SignedConversion(t, LongBits)
  IN Seen(n.ok /\ n.value \in v.low .. v.high, t)
BoundOf(v, t) ==
  LET n == SignedConversion(t, LongBits)
  IN IF ~n.ok THEN Seen(FALSE, t)
     ELSE Seen(TRUE, IF n.value < v.low THEN Plain(v.low)
                     ELSE IF n.value > v.high THEN Plain(v.high) ELSE t)
IsMemberOf(v, t) ==
  LET i == Found(v, t)
  IN Seen(i # 0, IF i # 0 /\ v.filter THEN v.keys[i] ELSE t)
TransformerOf(v, t) ==
  LET i == Found(v, t) IN Seen(TRUE, IF i = 0 THEN t ELSE v.values[i])
CheckedTransformerOf(v, t) ==
  LET i == Found(v, t)
  IN IF i # 0 THEN Seen(TRUE, v.values[i])
     ELSE Seen(\E j \in DOMAIN v.values : v.values[j] = t, t)

(* &, | and !: both see the word, the second one what the first one has    *)
(* made of it.  They call the functions of the two, so that whether one of *)
(* those is switched off or may not change the word no longer counts.      *)
RECURSIVE Func(_, _)
Func(v, t) ==
  LET first == Func(v.one, t)
      second == Func(v.two, first.t)
  IN CASE v.kind = "range" -> RangeOf(v, t)
       [] v.kind = "bound" -> BoundOf(v, t)
       [] v.kind = "member" -> IsMemberOf(v, t)
       [] v.kind = "transformer" -> TransformerOf(v, t)
       [] v.kind = "checked" -> CheckedTransformerOf(v, t)
       [] v.kind = "and" -> Seen(first.ok /\ second.ok, second.t)
       [] v.kind = "or" -> Seen(first.ok \/ second.ok, second.t)
       [] v.kind = "not" -> Seen(~first.ok, first.t)

Judge(v, t) ==
  IF ~v.active THEN Seen(TRUE, t)
  ELSE IF v.pure THEN [Func(v, t) EXCEPT !.t = t] ELSE Func(v, t)

Between(kind, low, high) ==
  [kind |-> kind, active |-> TRUE, pure |-> FALSE, low |-> low, high |-> high]
Both(kind, v, w) ==
  [kind |-> kind, active |-> v.active /\ w.active, pure |-> FALSE,
   one |-> v, two |-> w]
Name(w, upper) == [word |-> w, upper |-> upper]
Mapping(kind, filter) ==
  [kind |-> kind, active |-> TRUE, pure |-> FALSE, filter |-> filter,
   keys |-> <<Name("a", FALSE), Name("b", TRUE)>>,
   values |-> <<Name("b", TRUE), Name("c", FALSE)>>]

Judgements ==
  LET bound == Between("bound", -2, 3)
      range == Between("range", -2, 3)
      not == [kind |-> "not", active |-> TRUE, pure |-> FALSE, one |-> range]
  IN [v : {bound, range, not, Both("and", bound, range), Both("or", range, bound),
           Both("and", [bound EXCEPT !.pure = TRUE], range)},
      t : {Plain(n) : n \in -5..5}]
     \cup [v : {Mapping(kind, filter) : kind \in {"member", "checked", "transformer"},
                                       filter \in BOOLEAN},
           t : {Name(w, upper) : w \in {"a", "b", "c", "d"}, upper \in BOOLEAN}]

----------------------------------------------------------------------------
Ask(kind, q) == asked' = [kind |-> kind, q |-> q]
AskNumber ==
  \E t \in NumberWords, bits \in Widths : Ask("number", [t |-> t, bits |-> bits])
AskProduct ==
  \E a, b \in -(2 ^ (LongBits - 1)) .. 2 ^ LongBits - 1 :
    Ask("product", [a |-> a, b |-> b])
AskFlag ==
  \E o \in FlagKinds, x \in FlagWords \cup {Nothing} :
    Ask("flag", [o |-> o, x |-> x])
AskSize ==
  \E n \in Magnitudes, empty \in BOOLEAN,
     u \in SizeUnits \cup {NoUnit, <<0, "ib">>}, required, kbIs1000 \in BOOLEAN :
    Ask("size", [t |-> IF empty THEN NoNumber ELSE Plain(n), u |-> u,
                 required |-> required, kbIs1000 |-> kbIs1000])
AskValidator == \E j \in Judgements : Ask("validator", j)

NumbersInit == asked = [kind |-> "nothing", q |-> 0]
NumbersNext ==
  asked.kind = "nothing"
  /\ (AskNumber \/ AskProduct \/ AskFlag \/ AskSize \/ AskValidator)

----------------------------------------------------------------------------
(* An integer is the number that is written, or the conversion fails; and  *)
(* a plain one that the type holds is converted.  A negative number after  *)
(* a blank wraps around when it becomes unsigned.                          *)
NumberIsExact(t, bits) ==
  LET s == SignedConversion(t, bits)
      u == UnsignedConversion(t, bits)
      blind == t.sign = "-" /\ t.lead /\ ~t.trail
      clean == t.form # "true" /\ ~t.junk
      plain == clean /\ ~t.lead /\ (t.sign = "none" \/ t.form \notin Prefixed)
  IN /\ s.ok /\ clean => s.value = Written(t) /\ Fits(s.value, bits)
     /\ u.ok /\ ~blind => u.value = Written(t) /\ FitsUnsigned(u.value, bits)
     /\ plain /\ Fits(Written(t), bits) => s.ok
     /\ plain /\ t.sign = "none" /\ FitsUnsigned(t.value, bits) => u.ok
     /\ t.junk => ~s.ok /\ ~u.ok

(* A product is computed exactly when the type holds it.                   *)
ProductIsExact(a, b) ==
  /\ Fits(a, LongBits) /\ Fits(b, LongBits) =>
       CheckedMultiply(a, b, LongBits) = YieldsIf(Fits(a * b, LongBits), a * b)
       \/ (-(2 ^ (LongBits - 1)) \in {a, b} /\ ~CheckedMultiply(a, b, LongBits).ok)
  /\ a >= 0 /\ b >= 0 =>
       CheckedMultiplyUnsigned(a, b, LongBits)
         = YieldsIf(FitsUnsigned(a * b, LongBits), a * b)

(* Given to a name that stands for false, a value means its opposite, but  *)
(* for a zero of several digits and the least number; a name that allows   *)
(* no other value gives its own, the opposite of its own, or the default.  *)
FlagIsRight(o, x) ==
  LET got == FlagValue(o, x)
      val == ToFlagValue(x)
  IN /\ /\ ~o.fixed /\ o.given = FlagWord("false") /\ x # Nothing
        /\ val.good /\ val.value # 0 /\ Fits(-val.value, LongBits)
        => ToFlagValue(got).value = -val.value
     /\ o.fixed /\ o.given # Nothing =>
          got \in {o.given, Negated(o.given), o.default, RefusedWord}

(* A size is number times factor, or it is refused.                        *)
SizeIsExact(q) ==
  LET got == WithUnit(q.t, q.u, q.required, q.kbIs1000)
      number == IF q.t = NoNumber THEN 1 ELSE q.t.value
      factor == IF q.u = NoUnit THEN 1 ELSE SizeFactor(q.u, q.kbIs1000)
  IN got.ok => got.value = number * factor

(* What a validator has accepted it accepts again; but for a mapping, it   *)
(* leaves it as it is; and what is bounded is in range afterwards, so that *)
(* whoever sees it next accepts it.                                        *)
Settles(v, t, once) ==
  LET twice == Judge(v, once.t)
  IN /\ once.ok => twice.ok
     /\ once.ok /\ v.kind \notin {"checked", "transformer"} => twice.t = once.t
     /\ v.kind = "bound" => Judge(Between("range", v.low, v.high), once.t).ok
     /\ v.kind = "and" => once.ok   (* each bounds first *)
ValidatorSettles(v, t) == Settles(v, t, Judge(v, t))

(* A number that is read is the number that was written and fits its type, *)
(* a product is exact or refused, a flag given through a name for false    *)
(* means the opposite, a size is number times factor, and what a validator *)
(* has accepted or bounded it accepts again.                               *)
NumbersAreTrue ==
  /\ asked.kind = "number" => NumberIsExact(asked.q.t, asked.q.bits)
  /\ asked.kind = "product" => ProductIsExact(asked.q.a, asked.q.b)
  /\ asked.kind = "flag" => FlagIsRight(asked.q.o, asked.q.x)
  /\ asked.kind = "size" => SizeIsExact(asked.q)
  /\ asked.kind = "validator" => ValidatorSettles(asked.q.v, asked.q.t)
=============================================================================
