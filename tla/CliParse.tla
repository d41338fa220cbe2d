------------------------------ MODULE CliParse ------------------------------
(***************************************************************************)
(* App::_parse: how the tokens of a command line become results of         *)
(* options, parsed subcommands and remaining arguments.  One action per    *)
(* outcome of _parse_single.  The recursion of _parse into a subcommand    *)
(* and out of it is the stack of frames; what must be processed when a     *)
(* subcommand with a parse_complete_callback is left is queued in todo.    *)
(***************************************************************************)
EXTENDS CliTree

VARIABLES
  frames,   (* the active calls of _parse, innermost first                 *)
  todo,     (* processing steps that come before the parse goes on         *)
  outcome   (* "parsing", "ok" or the error that was thrown                *)

vars == <<tree, args, counters, found, missing, frames, todo, outcome, later>>

----------------------------------------------------------------------------
(* Decisions: who takes the token t?  An outcome names the app and the     *)
(* option or subcommand, the groups the token went through, the token as   *)
(* the option sees it, what is left behind it on args, and the pairs       *)
(* <<app, subcommand>> of the dots that were followed, innermost first.    *)
Target(to, at, on, t) ==
  [to |-> to, at |-> at, on |-> on, groups |-> {},
   token |-> t, behind |-> <<>>, dots |-> <<>>]

(* The way of a token from each app through its groups to the first app    *)
(* that takes it, <<>> if there is none: those in first before their       *)
(* groups are asked, those in second after them.                           *)
Ways(first, second) ==
  LET way[a \in Apps] ==
        LET group == FirstIn(A(a).subs,
                             {g \in ActiveGroups(a) : way[g] # <<>>})
        IN IF a \in first THEN <<a>>
           ELSE IF group # None THEN <<a>> \o way[group]
           ELSE IF a \in second THEN <<a>> ELSE <<>>
  IN way

(* The apps that are asked, as long as they fall through; and the first    *)
(* that answers, or the last.                                              *)
Asked(a) ==
  LET all == <<a>> \o Ancestors[a]
      Reached(i) == \A j \in 1..(i - 1) : A(all[j]).fallthrough
  IN SubSeq(all, 1, Max({i \in DOMAIN all : Reached(i)}))
FirstOrLast(answers, asked) == Min(answers \cup {Len(asked)})

(* Where a token comes to, the groups it passes, and whether it comes from *)
(* a subcommand with a parse_complete_callback (haltOnSubcommand).         *)
Route(asked, ways) ==
  LET n == FirstOrLast({i \in DOMAIN asked : ways[asked[i]] # <<>>}, asked)
      way == ways[asked[n]]
  IN [at |-> IF way = <<>> THEN asked[n] ELSE Last(way),
      groups |-> ToSet(way) \ {asked[n]},
      halt |-> way = <<>> /\ n > 1 /\ A(asked[n - 1]).complete]

PositionalOption(a, t) ==
  LET Fits(o) == O(o).positional /\ (A(a).validate => Accepts(o, t))
      Early(o) == Fits(o) /\ O(o).required /\ Count(o) < ItemsMin(o)
      Late(o) == Fits(o) /\ (Count(o) < ItemsMax(o) \/ O(o).extra)
      first == IF A(a).atEnd /\ Len(args) <= RequiredPositionals(a)
               THEN FirstIn(A(a).opts, {o \in Options : Early(o)}) ELSE None
  IN IF first # None THEN first
     ELSE FirstIn(A(a).opts, {o \in Options : Late(o)})

(* A repeated subcommand of the app; one that the parent is to deal with.  *)
Repeats(a, t) == FindToken(a, t, FALSE) # None /\ Room(a)
Elsewhere(a, t) ==
  LET root == IF Parent(a) = None THEN a ELSE FallthroughParent(a)
      s == FindToken(root, t, FALSE)
  IN A(a).subfall /\ s # None /\ Room(Parent(s))

(* Groups do not fall through, nor keep what is left.                      *)
PositionalRoute(a, t) ==
  LET takers == {x \in Apps : PositionalOption(x, t) # None}
      others == {x \in Apps : /\ IsGroup(x) /\ Parent(x) # None
                              /\ \/ Repeats(x, t)
                                 \/ ~Elsewhere(x, t) /\ A(x).atEnd}
  IN Route(Asked(a), Ways(takers, others))
PositionalAnswer(route, t) ==
  LET at == route.at
      Is(to, on) == [Target(to, at, on, t) EXCEPT !.groups = route.groups]
  IN IF PositionalOption(at, t) # None
       THEN Is("option", PositionalOption(at, t))
     ELSE IF Repeats(at, t)
       THEN IF route.halt THEN Is("refused", None)
            ELSE Is("repeat", FindToken(at, t, FALSE))
     ELSE IF Elsewhere(at, t) THEN Is("refused", None)
     ELSE IF A(at).atEnd THEN Is("extras", None)
     ELSE Is("missing", None)
PositionalTarget(a, t) == PositionalAnswer(PositionalRoute(a, t), t)

(* --sub.opt seen by sub: one letter becomes a short option, and its value *)
(* a token of its own.                                                     *)
OneLetter(t) ==
  Len(t.n) > 1 /\ Last(t.n) \in UNION {O(o).short : o \in Options}
Undotted(t) ==
  IF OneLetter(t) THEN [t EXCEPT !.k = "short", !.n = <<Last(@)>>, !.v = FALSE]
                  ELSE [t EXCEPT !.n = <<Last(@)>>]
Detached(t) == [t EXCEPT !.k = "word", !.n = <<None>>]

Named(a, t) ==
  FirstIn(A(a).opts, {o \in Options : t.n[1] \in IF t.k = "long" THEN O(o).long
                                                ELSE O(o).short})

(* What an app answers: path leads along the dots, way from their end to   *)
(* the option.                                                             *)
ArgAnswer(app, path, way, t, behind) ==
  LET dots == Len(t.n) - 1
  IN IF way = <<>>
     THEN [Target("missing", app, None, t) EXCEPT !.behind = behind]
     ELSE [to |-> "option", at |-> Last(way),
           on |-> Named(Last(way), Undotted(t)),
           groups |-> ToSet(way) \ {path[dots]},
           token |-> Undotted(t), behind |-> behind,
           dots |-> [i \in 1..dots |-> <<path[dots - i], path[dots - i + 1]>>]]

(* Each app that is asked follows the dots and leaves a detached value     *)
(* behind, found or not.                                                   *)
ArgTarget(a, t) ==
  LET ways == Ways({x \in Apps : Named(x, Undotted(t)) # None}, {})
      asked == Asked(a)
      Path(x) == Follow(x, Front(t.n), disabled, FALSE)
      Goal(x) == Path(x)[Len(t.n) - 1]
      Way(x) == IF Goal(x) = None THEN <<>> ELSE ways[Goal(x)]
      n == FirstOrLast({i \in DOMAIN asked : Way(asked[i]) # <<>>}, asked)
      tries == Cardinality({i \in 1..n : Goal(asked[i]) # None})
      behind == IF OneLetter(t) /\ t.v THEN [i \in 1..tries |-> Detached(t)]
                ELSE <<>>
  IN ArgAnswer(asked[n], Path(asked[n]), Way(asked[n]), t, behind)

MissingAt(a) ==
  LET group == FirstIn(A(a).subs, {s \in Apps : IsGroup(s) /\ A(s).extras})
  IN IF A(a).extras \/ group = None THEN a ELSE group

----------------------------------------------------------------------------
(* Effects.                                                                *)
MoveToMissing(a, tokens) ==
  missing' = [missing EXCEPT ![MissingAt(a)] = @ \o tokens]

(* The results an option gets, after the separator of a new occurrence and *)
(* the clearing of one whose callback has run.                             *)
Before(o) ==
  IF O(o).trigger /\ o \in ran THEN <<>>
  ELSE IF O(o).sep /\ results[o] # <<>> /\ Last(results[o]) # 0
       THEN Append(results[o], 0) ELSE results[o]

(* Variant: the new values come first.                                     *)
PrependResults(o, ids) ==
  /\ results' = [results EXCEPT ![o] = ids \o Before(o)]
  /\ ran' = IF O(o).trigger THEN ran \cup {o} ELSE ran \ {o}
AddResults(o, ids) ==
  /\ results' = [results EXCEPT ![o] = Before(o) \o ids]
  /\ ran' = IF O(o).trigger THEN ran \cup {o} ELSE ran \ {o}

(* The pre_parse_callbacks of the apps in S: TriggerOn and TriggerOff make *)
(* them enable and disable other apps.                                     *)
Switched(S) == (disabled \ UNION {A(a).enables : a \in S})
               \cup UNION {A(a).disables : a \in S}

TriggerPreParse(S) ==
  /\ preparsed' = preparsed \cup S
  /\ disabled' = Switched(S \ preparsed)

(* An immediate_callback app that is parsed again forgets its first parse. *)
Wiped(a) == IF a \in preparsed /\ A(a).immediate /\ ~IsGroup(a)
            THEN Subtree[a] ELSE {}

(* increment_parsed() and _trigger_pre_parse() of a; picked: chosen, with  *)
(* what the caller added to it before.                                     *)
BeginApp(a, picked) ==
  LET wiped == Wiped(a)
      gone == UNION {ToSet(A(x).opts) : x \in wiped}
  IN /\ parsed' = [x \in Apps |->
                     IF x \in wiped \ {a} THEN 0
                     ELSE parsed[x] + IF x \in GroupsIn(a) THEN 1 ELSE 0]
     /\ chosen' = [x \in Apps |-> IF x \in wiped THEN <<>> ELSE picked[x]]
     /\ missing' = [x \in Apps |-> IF x \in wiped \ {a} THEN <<>>
                                   ELSE missing[x]]
     /\ results' = [o \in Options |-> IF o \in gone THEN <<>> ELSE results[o]]
     /\ ran' = ran \ gone
     /\ preparsed' = (preparsed \ wiped) \cup {a}
     /\ disabled' = Switched({a} \ preparsed)

(* Variant: nothing is listed.                                             *)
PickNobody(a, sub) == chosen
Pick(a, sub) ==
  IF A(sub).silent THEN chosen ELSE [chosen EXCEPT ![a] = Append(@, sub)]

(* The groups between the subcommand and the app that chose it.            *)
Between(p, a) == {x \in Apps \ {a} : x \in Subtree[a] /\ p \in Subtree[x]}

Do(what, a) == [do |-> what, on |-> a, com |-> None, groups |-> {}]

(* What _parse does for a subcommand that is complete.                     *)
Completion(a) ==
  IF A(a).complete
  THEN <<Do("env", a), Do("callbacks", a), Do("help", a),
         Do("requirements", a), Do("complete", a)>>
  ELSE <<>>

Top == Head(frames)
Here == Top.app
Class == IF Top.posOnly THEN "none" ELSE Recognize(Here, Head(args), TRUE)

Reading ==
  /\ outcome = "parsing" /\ todo = <<>> /\ frames # <<>>
  /\ args # <<>> /\ ~Top.done

Throw(error) ==
  /\ outcome' = error
  /\ UNCHANGED <<tree, later, args, counters, found, missing, frames, todo>>

----------------------------------------------------------------------------
(* _parse_single, by class.                                                *)
ParseMark ==
  /\ Reading /\ Class = "mark"
  /\ args' = Tail(args)
  /\ LET stop == ~HasRemainingPositionals(Here) /\ Parent(Here) # None
     IN /\ frames' = <<[Top EXCEPT !.posOnly = TRUE, !.done = stop]>>
                     \o Tail(frames)
        /\ IF stop THEN UNCHANGED missing
           ELSE MoveToMissing(Here, <<Head(args)>>)
  /\ UNCHANGED <<tree, later, counters, found, todo, outcome>>

ParseTerminator ==
  /\ Reading /\ Class = "terminator"
  /\ args' = Tail(args)
  /\ frames' = <<[Top EXCEPT !.done = TRUE]>> \o Tail(frames)
  /\ UNCHANGED <<tree, later, counters, found, missing, todo, outcome>>

(* A word is a positional when it is classified so, and also where a       *)
(* subcommand's name must first fill a required positional.                *)
AsPositional ==
  \/ Class = "none"
  \/ Class = "subcommand" /\ RequiredPositionals(Here) > 0
Positional == PositionalTarget(Here, Head(args))

(* positionals_at_end_: after a positional everything is one.              *)
Settled ==
  [Top EXCEPT !.posOnly = @ \/ (Class = "none" /\ A(Here).atEnd)]

ParsePositional ==
  /\ Reading /\ AsPositional /\ Positional.to = "option"
  /\ AddResults(Positional.on, <<Head(args).id>>)
  /\ args' = Tail(args)
  /\ TriggerPreParse(Positional.groups)
  /\ frames' = <<Settled>> \o Tail(frames)
  /\ UNCHANGED <<tree, later, chosen, parsed, missing, todo, outcome>>

Frame(a, return) == [app |-> a, posOnly |-> FALSE, done |-> FALSE,
                     return |-> return]
CallParse(a, picked, return) ==
  /\ BeginApp(a, picked)
  /\ frames' = <<Frame(a, return), Settled>> \o Tail(frames)

(* A subcommand that was parsed before is parsed again, not listed again.  *)
RepeatSubcommand ==
  /\ Reading /\ AsPositional /\ Positional.to = "repeat"
  /\ args' = Tail(args)
  /\ CallParse(Positional.on, chosen,
               [Do("return", Positional.on)
                EXCEPT !.groups = Positional.groups])
  /\ UNCHANGED <<tree, later, todo, outcome>>

(* Nobody takes it: a remaining argument; a prefix command keeps all.      *)
KeepAsMissing ==
  /\ Reading /\ AsPositional /\ Positional.to = "missing"
  /\ LET whole == A(Positional.at).prefix
     IN /\ MoveToMissing(Positional.at, IF whole THEN args ELSE <<Head(args)>>)
        /\ args' = IF whole THEN <<>> ELSE Tail(args)
  /\ frames' = <<Settled>> \o Tail(frames)
  /\ UNCHANGED <<tree, later, counters, found, todo, outcome>>

RejectPositional ==
  /\ Reading /\ AsPositional /\ Positional.to = "extras"
  /\ Throw("extras")

(* false: the frame ends and its parent looks at the token again; the      *)
(* program itself goes on; and _parse_subcommand drops the answer.         *)
(* Variant: nobody looks at it.                                            *)
AnswerIgnored == FALSE
AnswerUsed == Parent(Here) # None /\ Class # "subcommand"

RefusePositional ==
  /\ Reading /\ AsPositional /\ Positional.to = "refused"
  /\ frames' = IF AnswerUsed
               THEN <<[Top EXCEPT !.done = TRUE]>> \o Tail(frames)
               ELSE frames
  /\ UNCHANGED <<tree, later, args, counters, found, missing, todo, outcome>>

(* sub.next names next below sub; the caller's frame waits for its end.    *)
ParseSubcommand ==
  /\ Reading /\ Class = "subcommand" /\ RequiredPositionals(Here) = 0
  /\ LET t == Head(args)
         whole == FindToken(Here, t, TRUE)
         com == IF whole # None THEN whole
                ELSE IF Len(t.n) > 1 THEN Find(Here, t.n[1], TRUE) ELSE None
         inner == IF whole # None THEN <<>> ELSE <<[t EXCEPT !.n = Tail(@)]>>
         return == [Do("return", com) EXCEPT
                      !.com = com, !.groups = Between(Parent(com), Here)]
     IN IF com # None
        THEN /\ args' = inner \o Tail(args)
             /\ CallParse(com, Pick(Here, com), return)
             /\ UNCHANGED <<tree, later, todo, outcome>>
        ELSE IF Parent(Here) = None THEN Throw("missing")
        ELSE /\ frames' = <<[Top EXCEPT !.done = TRUE]>> \o Tail(frames)
             /\ UNCHANGED <<tree, later, args, counters, found, missing, todo,
                            outcome>>

----------------------------------------------------------------------------
(* What an option takes: the value in its own token, then as many tokens   *)
(* as it must have, then the ones that are neither names nor needed by a   *)
(* required positional.                                                    *)
Unlimited == 2 ^ 29
Most(o) ==
  IF ItemsMax(o) >= Unlimited \div 16 /\ ~O(o).extra
  THEN O(o).tmax * O(o).emin ELSE ItemsMax(o)

(* a: the app that has the option; left: the tokens that follow t.         *)
Eaten(a, o, t, left) ==
  LET least == Min({O(o).tmin, ItemsMin(o)})
      inline == IF Most(o) > 0 /\ (t.v \/ t.rest # <<>>) THEN 1 ELSE 0
      forced == Min({Len(left), IF least > inline THEN least - inline ELSE 0})
      wants == Most(o) > inline + forced \/ O(o).extra
      had == Len(Before(o)) + forced + IF Most(o) = 0 THEN 1 ELSE inline
      Free(i) == /\ inline + i - 1 < Most(o) \/ O(o).extra
                 /\ Recognize(a, left[i], FALSE) = "none"
                 /\ RequiredWhen(a, o, had) < Len(left) - i + 1
                 /\ A(a).validateOptional => Accepts(o, left[i])
      taken == IF ~wants THEN forced
               ELSE Max({n \in forced..Len(left) :
                           \A i \in (forced + 1)..n : Free(i)})
      marked == wants /\ taken < Len(left) /\ left[taken + 1].k = "mark"
      bare == Most(o) = 0 \/ inline = 1 \/ (least = 0 /\ taken = 0)
      partial == least > 0 /\ (inline + taken) % O(o).tmax # 0
      again == IF Most(o) = 0 /\ t.rest # <<>>
               THEN <<[t EXCEPT !.n = <<Head(t.rest)>>, !.rest = Tail(@)]>>
               ELSE <<>>
  IN [ids |-> (IF bare THEN <<t.id>> ELSE <<>>)
              \o [i \in 1..taken |-> left[i].id]
              \o IF partial THEN <<0>> ELSE <<>>,
      left |-> again \o SubSeq(left, taken + 1 + IF marked THEN 1 ELSE 0,
                               Len(left)),
      ok |-> inline + taken >= least
             /\ (partial => O(o).tmin # O(o).tmax)]

(* Each dot that was followed: its app is parsed and its sub complete.     *)
FollowDots(dots) ==
  FlattenSeq([i \in DOMAIN dots |->
                <<[Do("dot", dots[i][1]) EXCEPT !.com = dots[i][2]]>>
                \o Completion(dots[i][2])])

TakeOption(target) ==
  LET left == target.behind \o Tail(args)
      eaten == Eaten(target.at, target.on, target.token, left)
  IN IF target.to = "missing"
     THEN /\ MoveToMissing(target.at, <<Head(args)>>)
          /\ args' = left
          /\ UNCHANGED <<tree, later, counters, found, frames, todo, outcome>>
     ELSE IF ~eaten.ok THEN Throw("mismatch")
     ELSE /\ AddResults(target.on, eaten.ids)
          /\ args' = eaten.left
          /\ TriggerPreParse(target.groups)
          /\ todo' = FollowDots(target.dots)
          /\ UNCHANGED <<tree, later, chosen, parsed, missing, frames, outcome>>

ParseOption ==
  /\ Reading /\ Class \in {"long", "short"}
  /\ TakeOption(ArgTarget(Here, Head(args)))

----------------------------------------------------------------------------
(* The end of a call of _parse on a subcommand, and what its caller does   *)
(* after it.                                                               *)
LeaveFrame ==
  /\ outcome = "parsing" /\ todo = <<>> /\ Len(frames) > 1
  /\ args = <<>> \/ Top.done
  /\ frames' = Tail(frames)
  /\ todo' = Append(Completion(Here), Top.return)
  /\ UNCHANGED <<tree, later, args, counters, found, missing, outcome>>

Doing(what) == outcome = "parsing" /\ todo # <<>> /\ Head(todo).do = what

ReturnFromSubcommand ==
  /\ Doing("return")
  /\ LET step == Head(todo)
     IN /\ chosen' = [a \in Apps |->
                        IF a \in step.groups /\ step.com # None
                           /\ ~A(step.on).silent
                        THEN Append(chosen[a], step.com) ELSE chosen[a]]
        /\ TriggerPreParse(step.groups)
  /\ todo' = Tail(todo)
  /\ UNCHANGED <<tree, later, args, parsed, found, missing, frames, outcome>>

FollowDot ==
  /\ Doing("dot")
  /\ BeginApp(Head(todo).on, Pick(Head(todo).on, Head(todo).com))
  /\ todo' = Tail(todo)
  /\ UNCHANGED <<tree, later, args, frames, outcome>>

ParseStep ==
  \/ ParseMark \/ ParseTerminator \/ ParsePositional \/ RepeatSubcommand
  \/ KeepAsMissing \/ RejectPositional \/ RefusePositional
  \/ ParseSubcommand \/ ParseOption
  \/ LeaveFrame \/ ReturnFromSubcommand \/ FollowDot
=============================================================================
