------------------------------ MODULE CliTree ------------------------------
(***************************************************************************)
(* The command tree of CLI::App (CLI11): apps (the program, its            *)
(* subcommands, its option groups) that own options, and what a parse      *)
(* keeps about them.  Everything here is read by the parser (CliParse) and *)
(* by the processing that follows it (CliProcess).                         *)
(*                                                                         *)
(* A name is a string; an app without a name is an option group.  A token  *)
(* of the command line is a record:                                        *)
(*    k     "word", "long" (--n), "short" (-n), "mark" (--), "plus" (++)   *)
(*    n     its name, split at the dots: <<"sub", "opt">> is sub.opt       *)
(*    v     has a value: --n=v                                             *)
(*    rest  the letters that follow the first one of -abc                  *)
(*    id    its place in the command line; 0: a result not taken from it   *)
(* Windows style and non-standard option names are left out; a token gives *)
(* one result (no delimiters).                                             *)
(***************************************************************************)
EXTENDS Naturals, Sequences, SequencesExt, FiniteSetsExt

CONSTANTS
  Inputs,      (* what is looked at: records of a program (a tree: app,    *)
               (* opt and config) and the command lines it is given        *)
  None

VARIABLES
  cli,         (* the tree: cli.app[a] and cli.opt[o] are the attributes   *)
  line,        (* the command line                                         *)
  args,        (* the tokens not consumed yet: args.back() is the head     *)
  results,     (* results_ of each option, as ids of tokens                *)
  ran,         (* the options in the state callback_run                    *)
  missing,     (* missing_ of each app                                     *)
  chosen,      (* parsed_subcommands_ of each app                          *)
  parsed,      (* parsed_ of each app                                      *)
  preparsed,   (* the apps with pre_parse_called_                          *)
  disabled,    (* the apps with disabled_                                  *)
  calls,       (* the callbacks that ran: <<kind, app or option>>          *)
  items        (* the items of the configuration file still to be read     *)

tree == <<cli, line>>
counters == <<chosen, parsed, preparsed, disabled>>
found == <<results, ran>>
later == <<calls, items>>

Main == "main"

(* The attributes of an app and of an option, as constructed.              *)
PlainApp ==
  [names |-> {}, parent |-> None, subs |-> <<>>, opts |-> <<>>,
   extras |-> FALSE, prefix |-> FALSE, required |-> FALSE, disabled |-> FALSE,
   immediate |-> FALSE, enables |-> {}, disables |-> {}, complete |-> FALSE,
   final |-> FALSE, needs |-> {}, excludes |-> {}]
PlainParser ==
  [fallthrough |-> FALSE, subfall |-> TRUE, atEnd |-> FALSE,
   validate |-> FALSE, validateOptional |-> FALSE, silent |-> FALSE,
   configurable |-> FALSE, configExtras |-> "ignore",
   minSubs |-> 0, maxSubs |-> 0, minOpts |-> 0, maxOpts |-> 0]
PlainOption ==
  [long |-> {}, short |-> {}, positional |-> FALSE, accepts |-> {},
   tmin |-> 1, tmax |-> 1, emin |-> 1, emax |-> 1, extra |-> FALSE,
   sep |-> FALSE, trigger |-> FALSE, force |-> FALSE, required |-> FALSE,
   needs |-> {}, excludes |-> {}, env |-> "unset", role |-> "plain",
   configurable |-> TRUE]

Apps == DOMAIN cli.app
Options == DOMAIN cli.opt
A(a) == cli.app[a]
O(o) == cli.opt[o]
Parent(a) == A(a).parent
IsGroup(a) == A(a).names = {}

(* The first element that is in T, or None.                                *)
FirstIn(s, T) ==
  IF \E i \in DOMAIN s : s[i] \in T
  THEN s[CHOOSE i \in DOMAIN s : /\ s[i] \in T
                                /\ \A j \in 1..(i - 1) : s[j] \notin T]
  ELSE None

Subtree[a \in Apps] == {a} \cup UNION {Subtree[s] : s \in ToSet(A(a).subs)}

(* What _find_subcommand goes through, in its order: groups are entered,   *)
(* the apps in skipped are not seen.                                       *)
Reach(skipped) ==
  LET reach[a \in Apps] ==
        LET Visit(s) == IF s \in skipped THEN <<>>
                        ELSE IF IsGroup(s) THEN Append(reach[s], s) ELSE <<s>>
        IN FlattenSeq([i \in DOMAIN A(a).subs |-> Visit(A(a).subs[i])])
  IN reach

Called(name, fresh) ==
  {s \in Apps : name \in A(s).names /\ (fresh => parsed[s] = 0)}
Search(a, name, skipped, fresh) ==
  FirstIn(Reach(skipped)[a], Called(name, fresh))
Find(a, name, fresh) == Search(a, name, disabled, fresh)

FindToken(a, t, fresh) ==
  IF t.k = "word" /\ Len(t.n) = 1 THEN Find(a, t.n[1], fresh) ELSE None

(* The app that the names lead to, one below another, or None: after each  *)
(* of them.                                                                *)
Follow(a, names, skipped, fresh) ==
  LET at[i \in 0..Len(names)] ==
        IF i = 0 THEN a
        ELSE IF at[i - 1] = None THEN None
        ELSE Search(at[i - 1], names[i], skipped, fresh)
  IN at

(* The app and the groups it counts as parsed together with itself.        *)
GroupsBelow[a \in Apps] ==
  LET groups == {s \in ToSet(A(a).subs) : IsGroup(s)}
  IN groups \cup UNION {GroupsBelow[g] : g \in groups}
GroupsIn(a) == {a} \cup GroupsBelow[a]

(* Whom an app asks, one after another, when a parse falls through: its    *)
(* ancestors, but for the groups.                                          *)
Ancestors[a \in Apps] ==
  LET p == Parent(a)
  IN IF p = None THEN <<>>
     ELSE (IF IsGroup(p) /\ Parent(p) # None THEN <<>> ELSE <<p>>)
          \o Ancestors[p]
FallthroughParent(a) == Head(Ancestors[a])

(* require_subcommand_max_ is not reached.                                 *)
Room(a) == A(a).maxSubs = 0 \/ Len(chosen[a]) < A(a).maxSubs

ValidSubcommand(t, fresh) ==
  LET valid[a \in Apps] ==
        \/ (Room(a) \/ ~A(a).subfall) /\ FindToken(a, t, fresh) # None
        \/ A(a).subfall /\ Parent(a) # None /\ valid[Parent(a)]
  IN valid

(* The last name of a dotted one is looked for where the others lead.      *)
NamesSubcommand(a, t, fresh) ==
  /\ t.k = "word"
  /\ LET last == Len(t.n) - 1
         s == Follow(a, Front(t.n), disabled, fresh)[last]
     IN s # None /\ ValidSubcommand([t EXCEPT !.n = <<Last(@)>>], fresh)[s]

Recognize(a, t, fresh) ==
  IF t.k \in {"mark", "long", "short"} THEN t.k
  ELSE IF NamesSubcommand(a, t, fresh) THEN "subcommand"
  ELSE IF t.k = "plus" /\ ~IsGroup(a) /\ Parent(a) # None THEN "terminator"
  ELSE "none"

Count(o) == Len(results[o])
ItemsMin(o) == O(o).tmin * O(o).emin
ItemsMax(o) == O(o).tmax * O(o).emax
Accepts(o, t) == t.k = "word" /\ t.n[1] \in O(o).accepts

Positionals(a) == {o \in ToSet(A(a).opts) : O(o).positional}
(* The arguments that the required positionals need, if p has n values.    *)
RequiredWhen(a, p, n) ==
  LET Has(o) == IF o = p THEN n ELSE Count(o)
      Lack(o) == IF Has(o) < ItemsMin(o) THEN ItemsMin(o) - Has(o) ELSE 0
  IN MapThenSumSet(Lack, {o \in Positionals(a) : O(o).required})
RequiredPositionals(a) == RequiredWhen(a, None, 0)
HasRemainingPositionals(a) == \E o \in Positionals(a) : Count(o) < ItemsMin(o)

CountAll[a \in Apps] ==
  MapThenSumSet(Count, ToSet(A(a).opts))
  + MapThenSumSet(LAMBDA s : CountAll[s], ToSet(A(a).subs))
  + IF IsGroup(a) THEN 0 ELSE parsed[a]

(* remaining_size() of the whole subtree: a mark is not an argument.       *)
RemainingSize(a) ==
  LET Left(x) == Len(SelectSeq(missing[x], LAMBDA t : t.k # "mark"))
  IN MapThenSumSet(Left, Subtree[a])

ActiveGroups(a) ==
  {s \in ToSet(A(a).subs) : IsGroup(s) /\ s \notin disabled}

(* _configure(): what is disabled when the parse begins.                   *)
Configured == {a \in Apps : A(a).disabled}

----------------------------------------------------------------------------
(* What a program and a command line may be: the apps are a finite tree,   *)
(* in which subcommands have a parent, all but the main app; the bounds of *)
(* an option are in their order (its setters see to it); tokens are        *)
(* numbered by their place; None is a value that names nothing.            *)
Names == STRING \cup {None}
Tokens ==
  [k : {"word", "long", "short", "mark", "plus"}, n : Seq(Names) \ {<<>>},
   v : BOOLEAN, rest : Seq(Names), id : Nat]
Items == [parents : Seq(STRING), name : STRING, n : Nat]

IsLine(l) == l \in Seq(Tokens) /\ \A i \in DOMAIN l : l[i].id = i
IsTree(app, opts) ==
  /\ IsFiniteSet(DOMAIN app) /\ Main \in DOMAIN app /\ None \notin DOMAIN app
  /\ \A a \in DOMAIN app :
       /\ app[a].subs \in Seq(DOMAIN app) /\ app[a].opts \in Seq(opts)
       /\ app[a].parent \in DOMAIN app \cup {None}
       /\ \A i \in DOMAIN app[a].subs : app[app[a].subs[i]].parent = a
  /\ \E depth \in [DOMAIN app -> 0..Cardinality(DOMAIN app)] :
       \A a \in DOMAIN app :
         app[a].parent # None => depth[app[a].parent] < depth[a]
IsOption(o) ==
  /\ o.tmin \in Nat /\ o.tmax \in Nat /\ o.tmin <= o.tmax
  /\ o.emin \in Nat /\ o.emax \in Nat /\ o.emin <= o.emax
IsProgram(p) ==
  /\ None \notin DOMAIN p.opt /\ IsTree(p.app, DOMAIN p.opt)
  /\ \A o \in DOMAIN p.opt : IsOption(p.opt[o])
  /\ p.config.option \in DOMAIN p.opt \cup {None}
  /\ p.config.items \in Seq(Items)

ASSUME InputsAssumption ==
  \A input \in Inputs :
    IsProgram(input.program) /\ \A l \in input.lines : IsLine(l)

(* The state parse() begins from, whatever an earlier parse left.          *)
FreshParse ==
  /\ \E input \in Inputs : cli = input.program /\ line \in input.lines
  /\ args = line
  /\ results = [o \in Options |-> <<>>] /\ ran = {}
  /\ missing = [a \in Apps |-> <<>>]
  /\ chosen = [a \in Apps |-> <<>>]
  /\ parsed = [a \in Apps |-> 0]
  /\ preparsed = {}
  /\ disabled = Configured
=============================================================================
