----------------------------- MODULE CliProcess -----------------------------
(***************************************************************************)
(* A whole App::parse: the command line (CliParse), then _process():       *)
(* help, configuration file, environment, callbacks, requirements; then    *)
(* the check for extras and the callbacks of the apps.  Each of these      *)
(* stages is a step of todo; the ones of a complete subcommand run as soon *)
(* as it is left.  Callbacks, validators and files belong to the client:   *)
(* they are recorded, and do not throw.                                    *)
(*                                                                         *)
(* cli.config is the configuration file: option (config_ptr_ or None),     *)
(* given by default (default), readable (file), and its items in order:    *)
(* [parents, name, n]; n: the number of inputs; "++" and "--" open and     *)
(* close a section.                                                        *)
(***************************************************************************)
EXTENDS CliParse

Init ==
  /\ FreshParse
  /\ parsed[Main] = 0
  /\ frames = <<>> /\ todo = <<Do("start", Main)>>
  /\ outcome = "parsing" /\ calls = <<>> /\ items = <<>>

----------------------------------------------------------------------------
(* What the stages compute.                                                *)
Roles(a, role) == {o \in ToSet(A(a).opts) : O(o).role = role /\ Count(o) > 0}

(* The help that is called for: by the last subcommands chosen, and all    *)
(* help wins over help.                                                    *)
HelpCalled[a \in Apps, help \in BOOLEAN, all \in BOOLEAN] ==
  LET h == help \/ Roles(a, "help") # {}
      f == all \/ Roles(a, "helpall") # {}
      below == SelectSeq([i \in DOMAIN chosen[a] |->
                            HelpCalled[chosen[a][i], h, f]],
                         LAMBDA x : x # "none")
  IN IF chosen[a] # <<>> THEN IF below = <<>> THEN "none" ELSE Head(below)
     ELSE IF f THEN "allhelp" ELSE IF h THEN "help" ELSE "none"

(* The options that take their value from the environment, if it is valid. *)
EnvApps[a \in Apps] ==
  {a} \cup UNION {EnvApps[s] : s \in {x \in ToSet(A(a).subs) :
                 IsGroup(x) \/ (CountAll[x] > 0 /\ ~A(x).complete)}}
FromEnv(a) ==
  {o \in UNION {ToSet(A(x).opts) : x \in EnvApps[a]} :
     Count(o) = 0 /\ O(o).env = "valid"}

(* run_callback of an app: final_mode, suppress_final_callback.            *)
RunCallbacks[a \in Apps, final \in BOOLEAN, suppress \in BOOLEAN] ==
  LET own == SelectSeq(chosen[a], LAMBDA s : Parent(s) = a)
      used == SelectSeq(A(a).subs, LAMBDA s : IsGroup(s) /\ CountAll[s] > 0)
      below == own \o used
  IN (IF ~final /\ A(a).complete THEN <<<<"complete", a>>>> ELSE <<>>)
     \o FlattenSeq([i \in DOMAIN below |->
                      RunCallbacks[below[i], TRUE, suppress]])
     \o IF /\ A(a).final /\ parsed[a] > 0 /\ ~suppress
           /\ ~IsGroup(a) \/ CountAll[a] > 0
        THEN <<<<"final", a>>>> ELSE <<>>

(* The callback of the option is still to be run.  Variant: off by one.    *)
DueIfRepeated(o) == (Count(o) > 1 \/ O(o).force) /\ o \notin ran
Due(o) == (Count(o) > 0 \/ O(o).force) /\ o \notin ran

(* _process_callbacks: option groups with a parse_complete_callback first. *)
OptionCallbacks[a \in Apps] ==
  LET Priority(s) == IsGroup(s) /\ A(s).complete /\ CountAll[s] > 0
      early == SelectSeq(A(a).subs, Priority)
      due == SelectSeq(A(a).opts, Due)
      late == SelectSeq(A(a).subs, LAMBDA s : ~A(s).complete)
  IN FlattenSeq([i \in DOMAIN early |-> OptionCallbacks[early[i]]
                                        \o RunCallbacks[early[i], FALSE, FALSE]])
     \o [i \in DOMAIN due |-> <<"option", due[i]>>]
     \o FlattenSeq([i \in DOMAIN late |-> OptionCallbacks[late[i]]])

Used(n) == IF n \in Apps THEN CountAll[n] > 0 ELSE Count(n) > 0

(* What each option of the app asks for.  Variant: needs are forgotten.    *)
RequiredGiven(a) ==
  \A o \in ToSet(A(a).opts) :
    /\ O(o).required => Used(o)
    /\ Used(o) => \A n \in O(o).excludes : ~Used(n)
OptionsMet(a) ==
  \A o \in ToSet(A(a).opts) :
    /\ O(o).required => Used(o)
    /\ Used(o) => /\ \A n \in O(o).needs : Used(n)
                  /\ \A n \in O(o).excludes : ~Used(n)

(* _process_requirements returns.                                          *)
RequirementsMet[a \in Apps] ==
  LET subs == ToSet(A(a).subs) \ disabled
      used == Cardinality({o \in ToSet(A(a).opts) : Used(o)}
                          \cup {s \in subs : IsGroup(s) /\ Used(s)})
      Idle(s) == /\ IsGroup(s) /\ ~A(s).required /\ ~Used(s)
                 /\ \/ A(a).minOpts > 0 /\ A(a).minOpts <= used
                    \/ A(a).maxOpts > 0 /\ used >= A(a).minOpts
  IN IF (\E n \in A(a).excludes : Used(n)) \/ (\E n \in A(a).needs : ~Used(n))
     THEN CountAll[a] = 0
     ELSE /\ OptionsMet(a)
          /\ A(a).minSubs <= Len(chosen[a])
          /\ A(a).minOpts <= used /\ (A(a).maxOpts = 0 \/ used <= A(a).maxOpts)
          /\ \A s \in subs : Idle(s) \/
               /\ (parsed[s] > 0 \/ IsGroup(s)) => RequirementsMet[s]
               /\ A(s).required => Used(s)

ExtrasAllowed[a \in Apps] ==
  /\ A(a).extras \/ A(a).prefix \/ RemainingSize(a) = 0
  /\ \A s \in ToSet(A(a).subs) : parsed[s] > 0 => ExtrasAllowed[s]

----------------------------------------------------------------------------
(* The stages.                                                             *)
Stage(what) == Doing(what)
On == Head(todo).on
Next1 == todo' = Tail(todo)
Fail(error) == outcome' = error /\ UNCHANGED todo
untouched == <<tree, args, frames>>

(* Variant: help is looked at after the requirements.                      *)
HelpLater ==
  <<Do("config", Main), Do("env", Main), Do("callbacks", Main),
    Do("requirements", Main), Do("help", Main), Do("extras", Main),
    Do("final", Main)>>
Processing ==
  <<Do("help", Main), Do("config", Main), Do("env", Main),
    Do("callbacks", Main), Do("requirements", Main), Do("extras", Main),
    Do("final", Main)>>

Start ==
  /\ Stage("start")
  /\ BeginApp(Main, chosen)
  /\ frames' = <<Frame(Main, Do("end", Main))>>
  /\ Next1
  /\ UNCHANGED <<tree, args, outcome, calls, items>>

(* The last token is consumed: the frame of the program is the only one.   *)
EndOfLine ==
  /\ outcome = "parsing" /\ todo = <<>> /\ Len(frames) = 1 /\ args = <<>>
  /\ frames' = <<>>
  /\ todo' = Processing
  /\ UNCHANGED <<tree, args, counters, found, missing, outcome, calls, items>>

Help ==
  /\ Stage("help")
  /\ LET called == HelpCalled[On, FALSE, FALSE]
     IN IF called = "none" THEN Next1 /\ UNCHANGED outcome ELSE Fail(called)
  /\ UNCHANGED <<untouched, counters, found, missing, calls, items>>

(* Config: which file, if any, and the errors of its absence; the error is *)
(* thrown after the callbacks.                                             *)
Config ==
  /\ Stage("config")
  /\ LET c == cli.config.option
         given == c # None /\ Count(c) > 0
         wanted == c # None /\ (given \/ cli.config.default)
         fails == c # None /\ \/ ~wanted /\ O(c).required
                              \/ wanted /\ ~cli.config.file
                                 /\ (O(c).required \/ given)
         read == wanted /\ cli.config.file
     IN /\ items' = IF read THEN cli.config.items ELSE <<>>
        /\ results' = IF read /\ ~given
                      THEN [results EXCEPT ![c] = <<0>>] ELSE results
        /\ ran' = IF c = None THEN ran ELSE ran \cup {c}
        /\ todo' = IF fails THEN <<Do("callbacks", Main), Do("fail", Main)>>
                   ELSE <<Do("items", Main)>> \o Tail(todo)
  /\ UNCHANGED <<untouched, counters, missing, outcome, calls>>

FailConfig ==
  /\ Stage("fail") /\ Fail("file")
  /\ UNCHANGED <<untouched, counters, found, missing, calls, items>>

Env ==
  /\ Stage("env")
  /\ LET taken == FromEnv(On)
     IN /\ results' = [o \in Options |-> IF o \in taken THEN <<0>>
                                         ELSE results[o]]
        /\ ran' = ran \ taken
  /\ Next1
  /\ UNCHANGED <<untouched, counters, missing, outcome, calls, items>>

Callbacks ==
  /\ Stage("callbacks")
  /\ LET due == OptionCallbacks[On]
     IN /\ calls' = calls \o due
        /\ ran' = ran \cup {o \in Options : <<"option", o>> \in ToSet(due)}
  /\ Next1
  /\ UNCHANGED <<untouched, counters, results, missing, outcome, items>>

Requirements ==
  /\ Stage("requirements")
  /\ IF RequirementsMet[On] THEN Next1 /\ UNCHANGED outcome
     ELSE Fail("requirement")
  /\ UNCHANGED <<untouched, counters, found, missing, calls, items>>

(* run_callback(false, true) of a complete subcommand; run_callback() at   *)
(* the end of a section of the configuration file.                         *)
(* Variant: the final callback is never suppressed.                        *)
NotSuppressed(step) == FALSE
Suppressed(step) == step.do = "complete"
Complete ==
  /\ Stage("complete") \/ Stage("section")
  /\ calls' = calls \o RunCallbacks[On, FALSE, Suppressed(Head(todo))]
  /\ Next1
  /\ UNCHANGED <<untouched, counters, found, missing, outcome, items>>

Extras ==
  /\ Stage("extras")
  /\ IF ExtrasAllowed[Main] THEN Next1 /\ UNCHANGED outcome ELSE Fail("extras")
  /\ UNCHANGED <<untouched, counters, found, missing, calls, items>>

Finish ==
  /\ Stage("final")
  /\ calls' = calls \o RunCallbacks[Main, FALSE, FALSE]
  /\ outcome' = "ok"
  /\ Next1
  /\ UNCHANGED <<untouched, counters, found, missing, items>>

----------------------------------------------------------------------------
(* _parse_single_config, one item after another.                           *)
(* get_subcommand_no_throw finds the disabled ones too.                    *)
Owner(parents) == Follow(Main, parents, {}, FALSE)[Len(parents)]

OptionNamed(name) ==
  LET named[a \in Apps] ==
        LET own == FirstIn(A(a).opts,
                     {o \in Options : name \in O(o).long \cup O(o).short})
            group == FirstIn(A(a).subs,
                       {s \in ToSet(A(a).subs) : IsGroup(s) /\ named[s] # None})
        IN IF own # None THEN own
           ELSE IF group # None THEN named[group] ELSE None
  IN named

Item == Head(items)
ItemOwner == Owner(Item.parents)
ItemOption ==
  IF ItemOwner = None THEN None ELSE OptionNamed(Item.name)[ItemOwner]
ReadingItem == Stage("items") /\ items # <<>>
InSection == ItemOwner # None /\ Item.name \in {"++", "--"}

OpenSection ==
  /\ ReadingItem /\ InSection /\ Item.name = "++"
  /\ items' = Tail(items)
  /\ IF ~A(ItemOwner).configurable
     THEN UNCHANGED <<counters, found, missing>>
     ELSE BeginApp(ItemOwner,
                   IF Parent(ItemOwner) = None THEN chosen
                   ELSE [chosen EXCEPT ![Parent(ItemOwner)] =
                           Append(@, ItemOwner)])
  /\ UNCHANGED <<untouched, todo, outcome, calls>>

CloseSection ==
  /\ ReadingItem /\ InSection /\ Item.name = "--"
  /\ items' = Tail(items)
  /\ todo' = IF A(ItemOwner).configurable /\ A(ItemOwner).complete
             THEN <<Do("callbacks", ItemOwner), Do("requirements", ItemOwner),
                    Do("section", ItemOwner)>> \o todo
             ELSE todo
  /\ UNCHANGED <<untouched, counters, found, missing, outcome, calls>>

TakesItem(o) == Count(o) = 0

(* A flag given one value or none is stored, one given too many is         *)
(* refused; the callback of any other option runs at once.  The flags that *)
(* take all of their values, and those that refuse overrides, are not      *)
(* among the options.                                                      *)
StoredFlag(o) == O(o).emin = 0 /\ Item.n <= 1
TooManyForFlag(o) == O(o).emin = 0 /\ Item.n > 1 /\ Item.n > ItemsMax(o)
SetOption ==
  /\ ReadingItem /\ ~InSection /\ ItemOption # None
  /\ O(ItemOption).configurable
  /\ LET o == ItemOption
         values == IF StoredFlag(o) THEN 1 ELSE Item.n
     IN IF TakesItem(o) /\ TooManyForFlag(o)
        THEN UNCHANGED <<items, found, calls>> /\ Fail("config")
        ELSE /\ items' = Tail(items)
             /\ UNCHANGED <<todo, outcome>>
             /\ IF ~TakesItem(o) THEN UNCHANGED <<found, calls>>
                ELSE /\ results' = [results EXCEPT ![o] =
                                      @ \o [i \in 1..values |-> 0]]
                     /\ ran' = IF StoredFlag(o) THEN ran \ {o}
                               ELSE ran \cup {o}
                     /\ calls' = IF StoredFlag(o) THEN calls
                                 ELSE Append(calls, <<"option", o>>)
  /\ UNCHANGED <<untouched, counters, missing>>

RejectItem ==
  /\ ReadingItem /\ ~InSection /\ ItemOption # None
  /\ ~O(ItemOption).configurable
  /\ IF /\ A(ItemOwner).configExtras = "ignore_all"
        /\ A(Main).configExtras # "error"
     THEN items' = Tail(items) /\ UNCHANGED <<todo, outcome>>
     ELSE UNCHANGED items /\ Fail("config")
  /\ UNCHANGED <<untouched, counters, found, missing, calls>>

UnknownItem ==
  /\ ReadingItem /\ ~InSection /\ ItemOption = None
  /\ LET capture == ItemOwner # None /\ A(ItemOwner).configExtras = "capture"
         extra == [k |-> "word", n |-> <<Item.name>>, v |-> FALSE,
                   rest |-> <<>>, id |-> 0]
     IN missing' = IF capture
                   THEN [missing EXCEPT ![ItemOwner] =
                           @ \o [i \in 1..(Item.n + 1) |-> extra]]
                   ELSE missing
  /\ IF A(Main).configExtras = "error" THEN UNCHANGED items /\ Fail("config")
     ELSE items' = Tail(items) /\ UNCHANGED <<todo, outcome>>
  /\ UNCHANGED <<untouched, counters, found, calls>>

EndItems ==
  /\ Stage("items") /\ items = <<>>
  /\ Next1
  /\ UNCHANGED <<untouched, counters, found, missing, outcome, calls, items>>

----------------------------------------------------------------------------
Stages ==
  \/ Start \/ EndOfLine \/ Help \/ Config \/ FailConfig \/ Env \/ Callbacks
  \/ Requirements \/ Complete \/ Extras \/ Finish
  \/ OpenSection \/ CloseSection \/ SetOption \/ RejectItem \/ UnknownItem
  \/ EndItems

Next == ParseStep \/ Stages

(* One thread parses: it keeps running.                                    *)
Spec == Init /\ [][Next]_vars /\ WF_vars(Next)

----------------------------------------------------------------------------
(* Properties.                                                             *)
Forgetful == \/ \E a \in Apps : A(a).immediate
             \/ \E o \in Options : O(o).trigger
Ids(tokens) == [i \in DOMAIN tokens |-> tokens[i].id]
Words == {i \in DOMAIN line : line[i].k = "word"}

(* Who may hold a token: the line, while it is still to be read, an option *)
(* and the remaining arguments of an app.                                  *)
Holders ==
  {<<"line", Main>>} \cup ({"option"} \X Options) \cup ({"app"} \X Apps)
Held(h) == IF h[1] = "line" THEN Ids(args)
           ELSE IF h[1] = "option" THEN results[h[2]] ELSE Ids(missing[h[2]])
Places(id) ==
  UNION {{h} \X {i \in DOMAIN Held(h) : Held(h)[i] = id} : h \in Holders}

(* No argument is dropped or used twice: each word is at one place, unless *)
(* it names a subcommand that was parsed.  Apps that forget a first parse  *)
(* and options that forget a first value may drop some.                    *)
UsedOnce == \A id \in Words : \A p, q \in Places(id) : p = q
NamedSome(id) == \E a \in Apps : parsed[a] > 0 /\ Last(line[id].n) \in A(a).names
NoneLost ==
  outcome \in {"parsing", "ok"} /\ ~Forgetful =>
    \A id \in Words : Places(id) # {} \/ NamedSome(id)

(* Nor overtaken: values and remaining arguments keep the order of the     *)
(* command line.  A token of several letters can give several values, and  *)
(* a flag that takes arguments takes them before the letters behind it.    *)
Flagged == \E o \in Options : Most(o) = 0 /\ O(o).extra
Ordered(id) == IF Flagged THEN id \in Words ELSE id \in DOMAIN line
InOrder(s) ==
  \A i, j \in DOMAIN s :
    i < j /\ Ordered(s[i]) /\ Ordered(s[j]) =>
      s[i] < s[j] \/ (s[i] = s[j] /\ s[i] \notin Words)
OrderKept == \A h \in Holders : InOrder(Held(h))

WordsKept == UsedOnce /\ NoneLost /\ OrderKept

(* Each round of _parse takes an argument, leaves the subcommand or throws *)
(* ("return true if the subcommand was processed false otherwise"): there  *)
(* is no argument that nobody takes and that is looked at for ever.        *)
NeverStuck ==
  ~(/\ Reading /\ AsPositional /\ Positional.to = "refused"
    /\ ~AnswerUsed)

(* Every command line comes to an end: it is accepted or an error is       *)
(* thrown.                                                                 *)
ParseTerminates == <>(outcome # "parsing")

(* An app never chooses more subcommands than require_subcommand allows    *)
(* ("Max error cannot occur", says a comment), which is so only where      *)
(* subcommands fall through: without subcommand_fallthrough the maximum is *)
(* not looked at.  And get_subcommands() and got_subcommand() agree: the   *)
(* apps that were parsed are the ones their parent lists, unless silent.   *)
(* Left out are dots, which list a subcommand that does not count as       *)
(* parsed, and marks and positionals at the end, after which a name enters *)
(* a subcommand that is not listed.                                        *)
MaximumRespected ==
  \A a \in Apps :
    A(a).maxSubs # 0 /\ A(a).subfall => Len(chosen[a]) <= A(a).maxSubs
WordsMayName == /\ \A i \in DOMAIN line : line[i].k # "mark" /\ Len(line[i].n) = 1
                /\ \A a \in Apps : ~A(a).atEnd
ListedIffParsed ==
  outcome = "ok" /\ WordsMayName =>
    \A a \in Apps \ {Main} : ~IsGroup(a) /\ ~A(a).silent =>
      (parsed[a] > 0 <=> a \in ToSet(chosen[Parent(a)]))
SubcommandsCounted == MaximumRespected /\ ListedIffParsed

(* "using dot notation is equivalent to single argument subcommand"        *)
(* (comment): a subcommand that was chosen counts as parsed.               *)
ChosenWereParsed ==
  \A a \in Apps : \A s \in ToSet(chosen[a]) : parsed[s] > 0

(* An accepted command line meets the requirements of every app it gave    *)
(* anything to.                                                            *)
RequirementsHold ==
  outcome = "ok" =>
    \A a \in Apps : CountAll[a] > 0 /\ a \notin disabled =>
      \A o \in ToSet(A(a).opts) :
        IF Used(o)
        THEN \A n \in O(o).needs \cup O(o).excludes :
               Used(n) <=> n \in O(o).needs
        ELSE ~O(o).required

(* A call for help of the program is answered: no other error of the       *)
(* processing hides it ("help takes precedence over other potential        *)
(* errors").  Here no complete subcommand has requirements of its own.     *)
HelpFirst ==
  outcome \in {"ok", "requirement", "file", "config"} =>
    Roles(Main, "help") \cup Roles(Main, "helpall") = {}

(* The final callbacks come last, when nothing can fail any more, and each *)
(* runs once ("a function that runs when all processing has completed").   *)
(* A section of the configuration file can choose a subcommand again, that *)
(* then runs twice.                                                        *)
Finals == SelectSeq(calls, LAMBDA c : c[1] = "final")
FinalsComeLast ==
  /\ outcome # "ok" => Finals = <<>>
  /\ cli.config.items = <<>> => IsInjective(Finals)

(* The order of the processing can be seen: help, then what may fail, then *)
(* the final callbacks.                                                    *)
ProcessedInOrder == HelpFirst /\ FinalsComeLast

(* In an accepted parse every option that has values has had its callback  *)
(* run on them, so that the variable bound to it holds them; and the       *)
(* values come from one source: the command line wins over the file, and   *)
(* the file over the environment.                                          *)
ValuesDelivered ==
  /\ outcome = "ok" => \A o \in Options : Used(o) => o \in ran
  /\ \A o \in Options : O(o).tmin = O(o).tmax /\ ~O(o).sep =>
       SelectSeq(results[o], LAMBDA i : i # 0) \in {<<>>, results[o]}
=============================================================================
