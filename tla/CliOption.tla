----------------------------- MODULE CliOption -----------------------------
(***************************************************************************)
(* The values of one CLI::Option: how its setters shape it, how words      *)
(* become results, how results are validated, reduced by the multi-option  *)
(* policy and given to the callback, and what a read of the option gives   *)
(* in each state of this life cycle.                                       *)
(*                                                                         *)
(* A text is the sequence of the pieces it was made of (Join and Sum put   *)
(* texts together): <<>> is the empty text, <<"{}">> the mark of an empty  *)
(* container and <<"%%">> the separator.  A word of the user has a shape:  *)
(* one part, a list with the delimiter in it, a vector in brackets, or an  *)
(* escaped vector.                                                         *)
(***************************************************************************)
EXTENDS Integers, SequencesExt

CONSTANTS
  OptionKinds,  (* the options, as records like Fresh                      *)
  Setters,      (* the calls of setters: [name, args]                      *)
  OptionWords,  (* the words given to the option                           *)
  Unreadable,   (* the texts that cannot be converted                      *)
  MaxCalls,     (* bound: the calls made to the option                     *)
  NoValue

VARIABLES
  option,       (* the configuration of the option                         *)
  results, processed, stage,  (* results_, proc_results_,                  *)
                              (* current_option_state_                     *)
  basis,        (* what processed was computed from: results, policy and   *)
                (* numbers of items                                        *)
  told,         (* what the last callback was given, and its basis         *)
  said,         (* what the last call returned or threw                    *)
  optionCalls

valueVars == <<results, processed, stage, basis, told>>
optionVars == <<option, valueVars, said, optionCalls>>

Policies == {"Throw", "TakeLast", "TakeFirst", "Join", "TakeAll", "Sum",
             "Reverse"}
Vector == 100    (* expected_max_vector_size                               *)
Empty == <<"{}">>
Separator == <<"%%">>

Fresh ==
  [policy |-> "Throw", typeMin |-> 1, typeMax |-> 1, min |-> 1, max |-> 1,
   extra |-> FALSE, delimiter |-> FALSE, validators |-> <<>>,
   default |-> [shape |-> "plain", parts |-> <<<<>>>>], forced |-> FALSE,
   container |-> FALSE,
   required |-> FALSE, inject |-> FALSE, flagLike |-> FALSE,
   forDefault |-> TRUE, callback |-> TRUE]

Larger(a, b) == IF a >= b THEN a ELSE b
Smaller(a, b) == IF a <= b THEN a ELSE b
ItemsMin == option.typeMin * option.min
ItemsMax == option.typeMax * option.max

----------------------------------------------------------------------------
(* The setters.                                                            *)
Expected(c, n) ==
  IF n < 0
  THEN [c EXCEPT !.min = -n, !.max = Larger(@, -n), !.extra = TRUE,
                 !.flagLike = FALSE]
  ELSE IF n = Vector
  THEN [c EXCEPT !.min = 1, !.max = Vector, !.extra = TRUE, !.flagLike = FALSE]
  ELSE [c EXCEPT !.min = n, !.max = n, !.flagLike = (n = 0)]

ExpectedBetween(c, a, b) ==
  LET low == IF a < 0 THEN -a ELSE a
      high == IF b < 0 THEN Vector ELSE b
  IN [c EXCEPT !.min = Smaller(low, high), !.max = Larger(low, high)]

TypeSize(c, n) ==
  IF n < 0 THEN [c EXCEPT !.typeMax = -n, !.typeMin = -n, !.max = Vector]
  ELSE [c EXCEPT !.typeMax = n,
                 !.typeMin = IF n < Vector THEN n ELSE @,
                 !.inject = @ \/ n >= Vector,
                 !.required = @ /\ n # 0]

TypeSizeBetween(c, a, b) ==
  LET low == IF a < 0 THEN -a ELSE a
      high == IF b < 0 THEN -b ELSE b
      most == Larger(low, high)
  IN [c EXCEPT !.max = IF a < 0 \/ b < 0 THEN Vector ELSE @,
               !.typeMin = Smaller(low, high), !.typeMax = most,
               !.required = @ /\ most # 0, !.inject = @ \/ most >= Vector]

WithPolicy(c, p) ==
  IF p = c.policy THEN c
  ELSE [c EXCEPT !.policy = p,
                 !.max = IF c.policy = "Throw" /\ @ = Vector /\ c.min > 1
                         THEN c.min ELSE @]

(* check() adds a validator at the end, transform() one at the front.      *)
Check(c, validator) == [c EXCEPT !.validators = Append(@, validator)]
Transform(c, validator) == [c EXCEPT !.validators = <<validator>> \o @]

Set(c, s) ==
  CASE s.name = "expected" -> Expected(c, s.n)
    [] s.name = "expectedBetween" -> ExpectedBetween(c, s.n, s.m)
    [] s.name = "typeSize" -> TypeSize(c, s.n)
    [] s.name = "typeSizeBetween" -> TypeSizeBetween(c, s.n, s.m)
    [] s.name = "policy" -> WithPolicy(c, s.p)
    [] s.name = "check" -> Check(c, s.v)
    [] s.name = "transform" -> Transform(c, s.v)

----------------------------------------------------------------------------
(* _add_result: the texts that a word adds.                                *)
Parts(w) ==
  LET last == Len(w.parts)
  IN IF w.shape # "vector" THEN w.parts
     ELSE [i \in 1..last |-> (IF i = 1 THEN <<"[">> ELSE <<>>) \o w.parts[i]
                             \o IF i = last THEN <<"]">> ELSE <<>>]
NonEmpty(texts) ==
  LET kept[n \in 0 .. Len(texts)] ==
        IF n = 0 THEN <<>>
        ELSE IF texts[n] = <<>> THEN kept[n - 1]
        ELSE Append(kept[n - 1], texts[n])
  IN kept[Len(texts)]

Added(w) ==
  IF w.shape = "escaped"
  THEN <<FlattenSeq(Parts([w EXCEPT !.shape = "vector"]))>>
  ELSE IF w.shape = "vector" /\ (option.extra \/ option.max > 1)
  THEN NonEmpty(w.parts)
  ELSE IF option.delimiter /\ Len(w.parts) > 1 THEN NonEmpty(Parts(w))
  ELSE <<FlattenSeq(Parts(w))>>

(* _validate: a validator with an index sees that item only; the first     *)
(* refusal ends it.  A text is changed in place.                           *)
Validate(text, index) ==
  LET See(r, v) ==
        IF ~r.ok \/ v.at \notin {-1, index} THEN r
        ELSE IF r.t \in v.refuses THEN [r EXCEPT !.ok = FALSE]
        ELSE [r EXCEPT !.t = IF @ \in DOMAIN v.maps THEN v.maps[@] ELSE @]
      unseen == [ok |-> TRUE, t |-> text]
      seen[n \in 0 .. Len(option.validators)] ==
        IF n = 0 THEN unseen ELSE See(seen[n - 1], option.validators[n])
  IN IF text = <<>> /\ option.min = 0 THEN unseen
     ELSE seen[Len(option.validators)]

(* _validate_results: the index of the first text is negative where the    *)
(* policy drops the earliest ones; inside a type of several items it       *)
(* counts the items of the type.                                           *)
FirstIndex(texts) ==
  LET most == IF option.typeMax > 1 THEN ItemsMax ELSE option.max
  IN IF most < Len(texts) /\ option.policy \in {"TakeLast", "Reverse"}
     THEN most - Len(texts) ELSE 0

Unchecked(texts) == [ok |-> TRUE, texts |-> texts]
ValidateResults(texts) ==
  LET sized == option.typeMax > 1
      Place(n) == FirstIndex(texts) + n - 1
      restarts ==
        {n \in DOMAIN texts : /\ sized /\ option.typeMin # option.typeMax
                              /\ texts[n] = Separator /\ Place(n) >= 0}
      Index(n) ==
        LET before == {m \in restarts : m < n}
            i == IF before = {} THEN Place(n) ELSE n - 1 - Max(before)
        IN IF sized /\ i >= 0 THEN i % option.typeMax ELSE i
      seen == [n \in DOMAIN texts |->
                 IF n \in restarts THEN [ok |-> TRUE, t |-> texts[n]]
                 ELSE Validate(texts[n], Index(n))]
      refused == {n \in DOMAIN texts : ~seen[n].ok}
  IN IF option.validators = <<>> THEN Unchecked(texts)
     ELSE [ok |-> refused = {},
           texts |-> [n \in DOMAIN texts |->
                        IF \E m \in refused : m < n THEN texts[n]
                        ELSE seen[n].t]]

(* _reduce_results: what the policy makes of the texts, <<>> where it      *)
(* leaves them as they are; or there are too few or too many.  A basis is  *)
(* what the reduction looks at.  Join also looks at results_, whatever it  *)
(* is asked to reduce.                                                     *)
Basis(texts) ==
  [of |-> texts, policy |-> option.policy, least |-> ItemsMin,
   items |-> Larger(ItemsMax, 1)]
Trimmed(b) == Smaller(b.items, Len(b.of))
LastOf(texts, n) == SubSeq(texts, Len(texts) - n + 1, Len(texts))
(* Variant: the first ones are taken instead of the last ones.             *)
ReduceFirst(b) ==
  IF Len(b.of) = Trimmed(b) THEN <<>> ELSE SubSeq(b.of, 1, Trimmed(b))
ReduceLast(b) ==
  IF Len(b.of) = Trimmed(b) THEN <<>> ELSE LastOf(b.of, Trimmed(b))

Marked(b) == b.of = <<Empty, Separator>> /\ b.items = 1
Miscounted(b) ==
  /\ b.policy = "Throw"
  /\ \/ Len(b.of) < Larger(b.least, 1)
     \/ Len(b.of) > b.items /\ ~Marked(b)

ByPolicy(b, own) ==
  LET n == Trimmed(b)
  IN CASE b.policy = "TakeAll" -> <<>>
       [] b.policy = "TakeLast" -> ReduceLast(b)
       [] b.policy = "TakeFirst" ->
            IF Len(b.of) = n THEN <<>> ELSE SubSeq(b.of, 1, n)
       [] b.policy = "Reverse" ->
            IF Len(b.of) = n /\ n <= 1 THEN <<>> ELSE Reverse(LastOf(b.of, n))
       [] b.policy = "Join" ->
            IF Len(own) > 1 THEN <<FlattenSeq(b.of)>> ELSE <<>>
       [] b.policy = "Sum" -> <<FlattenSeq(b.of)>>
       [] b.policy = "Throw" -> IF Marked(b) THEN b.of ELSE <<>>

(* What is sent on: what was made of the texts, or they themselves.        *)
Either(out, texts) == IF out = <<>> THEN texts ELSE out

Reduce(b, own) ==
  LET out == ByPolicy(b, own)
  IN IF b.least > 0 /\ Either(out, b.of) = <<Empty>>
     THEN <<Empty, Separator>> ELSE out

(* lexical_conversion into a container, or into one value.                 *)
Refusal == <<"refused">>
Convert(texts) ==
  LET taken == IF texts = <<Empty, Separator>> THEN <<Empty>> ELSE texts
  IN IF option.container
     THEN IF texts = <<Empty>> THEN <<>>
          ELSE IF ToSet(taken) \cap Unreadable # {} THEN Refusal ELSE taken
     ELSE IF texts = <<>> THEN NoValue   (* strings[0] of an empty vector  *)
     ELSE IF texts[1] \in Unreadable THEN Refusal ELSE <<texts[1]>>

----------------------------------------------------------------------------
(* run_callback() on the texts r in the stage at: what it leaves, and how  *)
(* it ends.  A second run takes what the first one has reduced.            *)
Unheard(texts) ==
  [results |-> texts, processed |-> processed, basis |-> basis,
   stage |-> "parsing", end |-> "invalid", told |-> told]
Uncounted(texts, from) ==
  [Unheard(texts) EXCEPT !.processed = <<>>, !.basis = from,
                         !.stage = "validated", !.end = "mismatch"]
Heard(texts, from, out, emptied) ==
  LET sent == Either(out, texts)
  IN [results |-> IF emptied THEN <<>> ELSE texts,
      processed |-> IF emptied THEN <<>> ELSE out,
      basis |-> IF emptied THEN Basis(<<>>) ELSE from,
      stage |-> "called",
      end |-> IF option.callback /\ Convert(sent) = Refusal
              THEN "unreadable" ELSE "ok",
      told |-> IF option.callback
               THEN [values |-> sent, of |-> texts, basis |-> from] ELSE told]

Checked(checked, from, again, emptied) ==
  IF ~checked.ok THEN Unheard(checked.texts)
  ELSE IF again THEN Heard(checked.texts, basis, processed, emptied)
  ELSE IF Miscounted(from) THEN Uncounted(checked.texts, from)
  ELSE Heard(checked.texts, from, Reduce(from, checked.texts), emptied)

Begin(checked, again, emptied) ==
  Checked(checked, Basis(checked.texts), again, emptied)

Run(r, at) ==
  LET forcing == option.forced /\ r = <<>>
      texts == IF forcing THEN Added(option.default) ELSE r
  IN Begin(IF forcing \/ at = "parsing" THEN ValidateResults(texts)
           ELSE Unchecked(texts),
           at = "called" /\ ~forcing, forcing /\ option.callback)

Call(call, value) ==
  /\ optionCalls < MaxCalls /\ optionCalls' = optionCalls + 1
  /\ said' = [call |-> call, value |-> value]

(* The app runs the callback of an option that has results or is forced.   *)
RunOptionCallback ==
  LET run == Run(results, stage)
  IN /\ results # <<>> \/ option.forced
     /\ Call("run_callback", run.end)
     /\ results' = run.results /\ processed' = run.processed
     /\ stage' = run.stage /\ basis' = run.basis /\ told' = run.told
     /\ UNCHANGED option

AddResult(w) ==
  /\ Call("add_result", Len(Added(w)))
  /\ results' = results \o Added(w) /\ stage' = "parsing"
  /\ UNCHANGED <<option, processed, basis, told>>

ClearOption ==
  /\ Call("clear", "ok")
  /\ results' = <<>> /\ stage' = "parsing"
  /\ UNCHANGED <<option, processed, basis, told>>

SetOption(s) ==
  /\ Call("set", s.name)
  /\ option' = Set(option, s)
  /\ stage' = IF option'.policy # option.policy THEN "parsing" ELSE stage
  /\ UNCHANGED <<results, processed, basis, told>>

(* default_val: the results are put aside, the default runs through the    *)
(* validators and, where that is asked for, the callback; what it leaves   *)
(* in proc_results_ stays there.                                           *)
DefaultVal(w) ==
  LET checked == ValidateResults(Added(w))
      run == Run(Added(w), "parsing")
      end == IF option.forDefault THEN run.end
             ELSE IF checked.ok THEN "ok" ELSE "invalid"
  IN /\ Call("default_val", end)
     /\ option' = IF end = "ok" THEN [option EXCEPT !.default = w] ELSE option
     /\ IF option.forDefault
        THEN /\ stage' = IF end = "ok" THEN "parsing" ELSE stage
             /\ processed' = run.processed /\ basis' = run.basis
             /\ told' = run.told
        ELSE UNCHANGED <<stage, processed, basis, told>>
     /\ UNCHANGED results

(* results<T>() and reduced_results().                                     *)
Shown ==
  LET kept == Either(processed, results)
      texts == IF results = <<>> THEN Added(option.default) ELSE results
      checked == IF stage = "parsing" \/ results = <<>>
                 THEN ValidateResults(texts) ELSE Unchecked(kept)
      from == Basis(checked.texts)
      direct == Len(results) = 1 /\ option.validators = <<>>
  IN IF stage = "called" \/ direct THEN Convert(kept)
     ELSE IF results = <<>> /\ option.default.parts = <<<<>>>>
     THEN Convert(<<<<>>>>)
     ELSE IF ~checked.ok \/ Miscounted(from) THEN Refusal
     ELSE Convert(Either(Reduce(from, results), checked.texts))

ReadOption == Call("read", Shown) /\ UNCHANGED <<option, valueVars>>

----------------------------------------------------------------------------
OptionInit ==
  /\ option \in OptionKinds
  /\ results = <<>> /\ processed = <<>> /\ stage = "parsing"
  /\ basis = NoValue /\ told = NoValue /\ optionCalls = 0
  /\ said = [call |-> "none", value |-> "ok"]

OptionNext ==
  \/ \E w \in OptionWords : AddResult(w) \/ DefaultVal(w)
  \/ \E s \in Setters : SetOption(s)
  \/ RunOptionCallback \/ ClearOption \/ ReadOption

OptionSpec == OptionInit /\ [][OptionNext]_optionVars

----------------------------------------------------------------------------
(* What an option, a word and a call of a setter are.                      *)
Texts == Seq(STRING)
TextWords ==
  [shape : {"plain", "list", "vector", "escaped"}, parts : Seq(Texts)]
Validators ==
  {s.v : s \in {t \in Setters : t.name \in {"check", "transform"}}}
  \cup UNION {ToSet(k.validators) : k \in OptionKinds}
Configurations ==
  [policy : Policies, typeMin : Int, typeMax : Int, min : Int, max : Int,
   extra : BOOLEAN, delimiter : BOOLEAN, validators : Seq(Validators),
   default : TextWords, forced : BOOLEAN, container : BOOLEAN,
   required : BOOLEAN, inject : BOOLEAN, flagLike : BOOLEAN,
   forDefault : BOOLEAN, callback : BOOLEAN]
SetterCalls ==
  [name : {"expected", "typeSize"}, n : Int]
  \cup [name : {"expectedBetween", "typeSizeBetween"}, n : Int, m : Int]
  \cup [name : {"policy"}, p : Policies]
  \cup [name : {"check", "transform"}, v : Validators]

(* The brackets are strings; the provers do not know what a string is.     *)
ASSUME OptionAssumption ==
  /\ {"[", "]"} \subseteq STRING
  /\ OptionKinds \subseteq Configurations /\ OptionWords \subseteq TextWords
  /\ Setters \subseteq SetterCalls
  /\ \A v \in Validators : \A t \in DOMAIN v.maps : v.maps[t] \in Texts

----------------------------------------------------------------------------
(* What a policy promises of n items, by itself; the mark of an empty      *)
(* container may be followed by a separator.                               *)
Promised(b, values) ==
  LET n == Smaller(b.items, Len(b.of))
  IN CASE b.policy \in {"TakeAll", "Throw"} -> values = b.of
       [] b.policy = "TakeLast" -> IsSuffix(values, b.of) /\ Len(values) = n
       [] b.policy = "TakeFirst" -> IsPrefix(values, b.of) /\ Len(values) = n
       [] b.policy = "Reverse" ->
            IsSuffix(Reverse(values), b.of) /\ Len(values) = n
       [] b.policy \in {"Join", "Sum"} ->
            /\ Len(values) = 1 \/ b.of = <<>>
            /\ FlattenSeq(values) = FlattenSeq(b.of)
Obeys(b, values) ==
  \/ Promised(b, values)
  \/ values = <<Empty, Separator>> /\ Promised(b, <<Empty>>)

(* proc_results_ are those of the results, or they are not looked at.  The *)
(* code leaves others there where default_val() reduces its default or     *)
(* throws after a callback, where a setter changes what a callback was     *)
(* computed from, and where clear() leaves the old ones, which a read of a *)
(* single new result without validators then finds.                        *)
Trusted ==
  \/ processed = <<>> /\ stage # "called"
  \/ stage = "parsing" /\ (Len(results) # 1 \/ option.validators # <<>>)
  \/ stage = "called" /\ basis = Basis(results)

(* What a run of the callback would leave now, if the results were reduced *)
(* for it anew.                                                            *)
CallbackNow == Run(results, IF stage = "called" THEN "validated" ELSE stage)

(* The callback is given what the multi-option policy promises of the      *)
(* results that it was computed from.                                      *)
PolicyIsKept ==
  told # NoValue /\ told.of = told.basis.of => Obeys(told.basis, told.values)

(* A read of the option gives, before the callback as after it, the value  *)
(* that a callback would be given now.                                     *)
ReadIsRight ==
  said.call = "read" /\ results \notin {<<>>, <<Empty>>} /\ option.callback
    /\ CallbackNow.end = "ok"
    => said.value = Convert(CallbackNow.told.values)

(* The policy is kept after all calls, and a read is right unless it finds *)
(* the proc_results_ of something else.                                    *)
ValuesAreTrue == PolicyIsKept /\ (Trusted => ReadIsRight)
=============================================================================
