---------------------------- MODULE CliRegistry ----------------------------
(***************************************************************************)
(* Building a tree of CLI::App objects: which options and subcommands the  *)
(* calls add, remove, rename, move and link, and which calls they refuse.  *)
(* Apps and options are numbers, never reused, that stand for pointers; 0  *)
(* is the null pointer and 1 the main app.  A name is a word that may be   *)
(* written with an upper-case letter or with an underscore.                *)
(* Options keep allow_non_standard_option_names() off.                     *)
(***************************************************************************)
EXTENDS Integers, SequencesExt

CONSTANTS
  Words, Letters,     (* the words of names; those of one letter           *)
  OptionShapes,       (* the names options are added with: [short, long,   *)
                      (* pos]                                              *)
  AppNames,           (* the names of subcommands                          *)
  Drafts,             (* the registries to start from, with the operations *)
                      (* that are called: [registry, calls]                *)
  MaxRegistryCalls,   (* bound: the calls made                             *)
  NoName

VARIABLES
  registry,           (* [apps, options, next, graves, made, threw]        *)
  calls,              (* the operations called in this behaviour           *)
  registryCalls

registryVars == <<registry, calls, registryCalls>>

Names == [word : Words, upper : BOOLEAN, under : BOOLEAN]

PlainEntry ==
  [name |-> NoName, aliases |-> {}, parent |-> 0, options |-> <<>>,
   subs |-> <<>>, case |-> FALSE, under |-> FALSE, disabled |-> FALSE,
   hidden |-> FALSE, help |-> 0, helpAll |-> 0, version |-> 0, config |-> 0,
   needs |-> {}, excludes |-> {}, needApps |-> {}, excludeApps |-> {},
   defaults |-> [case |-> FALSE, under |-> FALSE]]

(* The state of an option as its constructor leaves it.                    *)
Unnamed == [short |-> {}, long |-> {}, pos |-> NoName]
Built(shape, a) ==
  [short |-> shape.short, long |-> shape.long, pos |-> shape.pos,
   case |-> FALSE, under |-> FALSE, configurable |-> TRUE, parent |-> a,
   needs |-> {}, excludes |-> {}]

Throws(r) == [r EXCEPT !.threw = TRUE]
AppOf(r, a) == r.apps[a]
OptionOf(r, o) == r.options[o]
Without(s, x) == RemoveFirst(s, x)
Drop(f, ids) == [i \in DOMAIN f \ ids |-> f[i]]

----------------------------------------------------------------------------
(* How names are compared.                                                 *)
Norm(case, under, n) ==
  [n EXCEPT !.upper = @ /\ ~case, !.under = @ /\ ~under]
Alike(case, under, n, names) ==
  \E m \in names : Norm(case, under, m) = Norm(case, under, n)

TakesShort(o, n) == Alike(o.case, FALSE, n, o.short)
TakesLong(o, n) == Alike(o.case, o.under, n, o.long)
TakesBare(o, n) == o.pos # NoName /\ Alike(o.case, o.under, n, {o.pos})

(* matching_name: some name of o is a name of p; the inverse is asked only *)
(* where o ignores something.  The second positional test asks for names   *)
(* of flags with values, which options have not.                           *)
Matches(o, p) ==
  LET both == o.configurable /\ p.configurable
      Positional(x, y) ==
        /\ both /\ x.pos # NoName
        /\ TakesShort(y, x.pos) \/ TakesLong(y, x.pos) \/ x.pos = y.pos
  IN \/ \E s \in o.short : TakesShort(p, s) \/ (both /\ TakesLong(p, s))
     \/ \E l \in o.long :
          TakesLong(p, l) \/ (l.word \in Letters /\ both /\ TakesShort(p, l))
     \/ o.short = {} /\ o.long = {} /\ Positional(o, p)
     \/ p.short = {} /\ Positional(p, o)
     \/ /\ o.case \/ o.under
        /\ \/ \E s \in p.short : TakesShort(o, s)
           \/ \E l \in p.long : TakesLong(o, l)

(* check_name of an app: where both are ignored, the second conversion     *)
(* starts again from the name, and the underscore stays in it.             *)
TakesName(x, n) ==
  LET asked == Norm(x.case, x.under, n)
  IN \/ x.name # NoName /\ asked = Norm(x.case, x.under /\ ~x.case, x.name)
     \/ Alike(x.case, x.under, n, x.aliases)

(* The options of an app and of its groups, of theirs, and so on: down to  *)
(* n levels of groups.  A tree has no more levels than apps.               *)
OptionsIn(r, a) ==
  LET Group(within, n, s) ==
        IF n = 0 \/ AppOf(r, s).name # NoName THEN <<>> ELSE within[n - 1][s]
      within[n \in Nat] ==
        [x \in DOMAIN r.apps |->
           AppOf(r, x).options
           \o FlattenSeq([i \in DOMAIN AppOf(r, x).subs |->
                            Group(within, n, AppOf(r, x).subs[i])])]
  IN within[Cardinality(DOMAIN r.apps)][a]

(* get_option_no_throw: the first option that has the name, 0 for none.    *)
FindOption(r, a, Has(_)) ==
  LET options == OptionsIn(r, a)
      found == {i \in DOMAIN options : Has(OptionOf(r, options[i]))}
  IN IF found = {} THEN 0 ELSE options[Min(found)]

FallthroughOf(r, a) ==
  LET above[x \in DOMAIN r.apps] ==
        LET p == AppOf(r, x).parent
        IN IF AppOf(r, p).parent # 0 /\ AppOf(r, p).name = NoName
           THEN above[p] ELSE p
  IN above[a]

(* _compare_subcommand_names: the app id against what the app base holds.  *)
NameClash(r, id, base) ==
  LET clash[x, b \in DOMAIN r.apps] ==
        LET new == AppOf(r, x)
        IN /\ ~new.disabled
           /\ \E s \in ToSet(AppOf(r, b).subs) \ {x} :
                LET y == AppOf(r, s)
                IN /\ ~y.disabled
                   /\ \/ new.name # NoName /\ TakesName(y, new.name)
                      \/ y.name # NoName /\ TakesName(new, y.name)
                      \/ \E n \in new.aliases : TakesName(y, n)
                      \/ \E n \in y.aliases : TakesName(new, n)
                      \/ y.name = NoName /\ clash[x, s]
                      \/ new.name = NoName /\ clash[s, x]
  IN clash[id, base]

----------------------------------------------------------------------------
(* Options.                                                                *)

(* remove_option: the links of the options of this app are cut, those of   *)
(* other apps are not.  graves keeps who was there to be told.             *)
(* Variant: the exclusions are forgotten.                                  *)
UnlinkNeeds(o, gone) == [o EXCEPT !.needs = @ \ {gone}]
Unlink(o, gone) == [o EXCEPT !.needs = @ \ {gone}, !.excludes = @ \ {gone}]

RemoveOption(r, a, gone) ==
  LET here == ToSet(AppOf(r, a).options)
      cut == [o \in DOMAIN r.options |->
                IF o \in here THEN Unlink(OptionOf(r, o), gone)
                ELSE OptionOf(r, o)]
      apps == [r.apps EXCEPT ![a].help = IF @ = gone THEN 0 ELSE @,
                             ![a].helpAll = IF @ = gone THEN 0 ELSE @,
                             ![a].options = Without(@, gone)]
  IN IF gone \in here
     THEN [r EXCEPT !.apps = apps, !.options = Drop(cut, {gone}),
                    !.graves = [g \in DOMAIN @ \cup {gone} |->
                                  IF g = gone THEN here ELSE @[g]]]
     ELSE [r EXCEPT !.apps = apps, !.options = cut]

(* ignore_case(), ignore_underscore(): checked when it is switched on,     *)
(* against the options of the app the option was made for.                 *)
Ignore(r, o, field, value) ==
  LET with == [OptionOf(r, o) EXCEPT ![field] = value]
      others == ToSet(AppOf(r, with.parent).options) \ {o}
  IN IF value /\ ~OptionOf(r, o)[field]
        /\ \E p \in others : Matches(OptionOf(r, p), with)
     THEN Throws(r)
     ELSE [r EXCEPT !.options[o] = with]

(* add_option: a refusal of copy_to comes when the option is in the list   *)
(* and leaves it there.                                                    *)
CopyDefaults(r, a, o) ==
  LET d == AppOf(r, a).defaults
      cased == Ignore(r, o, "case", d.case)
  IN IF cased.threw THEN cased ELSE Ignore(cased, o, "under", d.under)

AddOption(r, a, shape) ==
  LET app == AppOf(r, a)
      new == Built(shape, a)
      id == r.next
      Guarded(found) == found # 0 /\ OptionOf(r, found).configurable
      bare == new.short = {} /\ new.long = {}
      one == bare /\ new.pos.word \in Letters
      clash ==
        \/ \E v \in ToSet(app.options) : Matches(OptionOf(r, v), new)
        \/ bare /\ ~one /\ Guarded(FindOption(r, a, LAMBDA o : TakesLong(o, new.pos)))
        \/ one /\ Guarded(FindOption(r, a, LAMBDA o : TakesShort(o, new.pos)))
        \/ /\ ~bare /\ app.parent # 0
           /\ \E n \in new.long \cup new.short :
                Guarded(FindOption(r, app.parent, LAMBDA o : TakesBare(o, n)))
  IN IF clash THEN Throws(r)
     ELSE CopyDefaults(
            [r EXCEPT !.apps[a].options = Append(@, id), !.next = id + 1,
                      !.options = [o \in DOMAIN @ \cup {id} |->
                                     IF o = id THEN new ELSE @[o]],
                      !.made = id],
            a, id)

(* A flag must not be positional: where it is, it is taken back.           *)
NotPositional(added, a, shape) ==
  IF ~added.threw /\ shape.pos # NoName
  THEN Throws(RemoveOption(added, a, added.made)) ELSE added
AddFlag(r, a, shape) == NotPositional(AddOption(r, a, shape), a, shape)

(* set_help_flag, set_help_all_flag, set_version_flag and set_config: the  *)
(* old one goes first, whether the new one can be added or not.            *)
Cleared(r, a, field) ==
  LET old == AppOf(r, a)[field]
  IN IF old = 0 THEN r
     ELSE [RemoveOption(r, a, old) EXCEPT !.apps[a][field] = 0]
PointAt(added, a, field) ==
  IF added.threw THEN added
  ELSE [added EXCEPT !.apps[a][field] = added.made,
                     !.options[added.made].configurable = FALSE]
Point(r, a, field, shape) ==
  IF shape = Unnamed THEN Cleared(r, a, field)
  ELSE PointAt(IF field = "config" THEN AddOption(Cleared(r, a, field), a, shape)
               ELSE AddFlag(Cleared(r, a, field), a, shape), a, field)

(* get_name(false, true), which leaves out a positional name that is not   *)
(* the only one.                                                           *)
AllNames(o) ==
  [short |-> o.short, long |-> o.long,
   pos |-> IF o.short = {} /\ o.long = {} THEN o.pos ELSE NoName]

RetireOption(r, a, o) ==
  AddOption(RemoveOption(r, a, o), a, AllNames(OptionOf(r, o)))

(* By a name with dashes: the option may be found in a group, where        *)
(* remove_option does not find it.                                         *)
RetireByName(r, a, n) ==
  LET o == FindOption(r, a, LAMBDA p : TakesLong(p, n))
  IN IF o # 0 THEN RetireOption(r, a, o)
     ELSE AddOption(r, a, [Unnamed EXCEPT !.long = {n}])

(* _move_option, to a group: the option keeps its parent_.                 *)
MoveOption(r, a, o, g) ==
  LET app == AppOf(r, a)
      taken == \E p \in ToSet(AppOf(r, g).options) :
                 Matches(OptionOf(r, p), OptionOf(r, o))
  IN IF o \in {app.help, app.helpAll, app.config}
        \/ o \notin ToSet(app.options) \/ taken
     THEN Throws(r)
     ELSE [r EXCEPT !.apps[a].options = Without(@, o),
                    !.apps[g].options = Append(@, o)]

----------------------------------------------------------------------------
(* Subcommands.                                                            *)

(* The constructor with a parent: its help flags, before what else it      *)
(* inherits; a group whose name is empty or begins with + drops them.      *)
Born(r, name, parent) ==
  [r EXCEPT !.apps = [a \in DOMAIN @ \cup {r.next} |->
                        IF a = r.next
                        THEN [PlainEntry EXCEPT !.name = name, !.parent = parent]
                        ELSE @[a]],
            !.next = @ + 1]
InheritFlag(r, id, mother, field) ==
  IF r.threw \/ mother[field] = 0 THEN r
  ELSE Point(r, id, field, AllNames(OptionOf(r, mother[field])))
Inherit(r, id, mother) ==
  [r EXCEPT !.apps[id].defaults = mother.defaults,
            !.apps[id].case = mother.case, !.apps[id].under = mother.under,
            !.apps[id].hidden = mother.case /\ mother.under]
Bared(r, id, bareGroup) ==
  IF bareGroup THEN Cleared(Cleared(r, id, "help"), id, "helpAll") ELSE r
NewApp(r, name, parent, bareGroup) ==
  LET id == r.next
      mother == AppOf(r, parent)
  IN Bared(Inherit(InheritFlag(InheritFlag(Born(r, name, parent),
                                           id, mother, "help"),
                               id, mother, "helpAll"),
                   id, mother),
           id, bareGroup)

(* An app that nobody owns any more takes what it holds with it.           *)
Holds(r, S) == \A s \in S : ToSet(AppOf(r, s).subs) \subseteq S
Family(r, a) ==
  {b \in DOMAIN r.apps :
     \A S \in SUBSET DOMAIN r.apps : a \in S /\ Holds(r, S) => b \in S}
Destroyed(r, a) ==
  LET dead == Family(r, a)
      held == UNION {ToSet(AppOf(r, d).options) : d \in dead}
  IN [r EXCEPT !.apps = Drop(@, dead), !.options = Drop(@, held),
               !.graves = [g \in DOMAIN @ \cup dead \cup held |->
                             IF g \in DOMAIN @ /\ (g = a \/ g \notin dead)
                             THEN @[g] ELSE {}]]

(* add_subcommand(App_p), from r where the app id exists and nobody holds  *)
(* it; where the call throws the app is destroyed.                         *)
Adopt(r, a, id) ==
  LET app == AppOf(r, a)
      base == IF app.name = NoName /\ app.parent # 0
              THEN FallthroughOf(r, a) ELSE a
  IN IF r.threw \/ NameClash(r, id, base)
     THEN Throws(Destroyed(r, id))
     ELSE [r EXCEPT !.apps[id].parent = a, !.apps[a].subs = Append(@, id),
                    !.made = id]

AddSubcommand(r, a, name) == Adopt(NewApp(r, name, a, FALSE), a, r.next)
AddGroup(r, a, bareGroup) == Adopt(NewApp(r, NoName, a, bareGroup), a, r.next)

(* remove_subcommand: the links of the sisters are cut, the exclusions     *)
(* from both sides.                                                        *)
Released(r, a, s) ==
  LET sisters == ToSet(AppOf(r, a).subs)
      Excluded(t) ==
        IF t = s
        THEN {b \in sisters : s \in AppOf(r, b).excludeApps} \cup {s}
        ELSE {s}
      told == [t \in DOMAIN r.apps |->
                 IF t \notin sisters THEN AppOf(r, t)
                 ELSE [AppOf(r, t) EXCEPT !.needApps = @ \ {s},
                                          !.excludeApps = @ \ Excluded(t)]]
  IN [r EXCEPT !.apps = [told EXCEPT ![a].subs = Without(@, s)],
               !.graves = [g \in DOMAIN @ \cup {s} |->
                             IF g = s THEN sisters ELSE @[g]]]

RemoveSubcommand(r, a, s) == Destroyed(Released(r, a, s), s)

(* Option_group::add_subcommand takes an app from its parent.              *)
TakeSubcommand(r, g, s) == Adopt(Released(r, AppOf(r, s).parent, s), g, s)

(* name(), alias(), ignore_case() and ignore_underscore(): tried, and      *)
(* taken back where it clashes.                                            *)
(* Variant: not taken back.                                                *)
TryAndKeep(r, a, x) ==
  LET base == IF AppOf(r, a).parent # 0 THEN FallthroughOf(r, a) ELSE a
      tried == [r EXCEPT !.apps[a] = x]
  IN IF NameClash(tried, a, base) THEN Throws(tried) ELSE tried
Try(r, a, x) ==
  LET base == IF AppOf(r, a).parent # 0 THEN FallthroughOf(r, a) ELSE a
      tried == [r EXCEPT !.apps[a] = x]
  IN IF NameClash(tried, a, base) THEN Throws(r) ELSE tried

Rename(r, a, name) ==
  LET x == [AppOf(r, a) EXCEPT !.name = name]
  IN IF x.parent = 0 THEN [r EXCEPT !.apps[a] = x] ELSE Try(r, a, x)

Alias(r, a, name) ==
  LET x == [AppOf(r, a) EXCEPT !.aliases = @ \cup {name}]
  IN IF x.parent = 0 THEN [r EXCEPT !.apps[a] = x] ELSE Try(r, a, x)

IgnoreInApp(r, a, field, value) ==
  LET set == [AppOf(r, a) EXCEPT ![field] = value]
      x == [set EXCEPT !.hidden = @ \/ (set.case /\ set.under)]
  IN IF value /\ ~AppOf(r, a)[field] THEN Try(r, a, x)
     ELSE [r EXCEPT !.apps[a] = x]

Disable(r, a, value) ==
  [r EXCEPT !.apps[a].disabled = value, !.apps[a].hidden = TRUE]

SetDefault(r, a, field) == [r EXCEPT !.apps[a].defaults[field] = TRUE]

----------------------------------------------------------------------------
(* Links.                                                                  *)
OptionNeeds(r, o, p) ==
  IF o = p THEN r ELSE [r EXCEPT !.options[o].needs = @ \cup {p}]
OptionExcludes(r, o, p) ==
  IF o = p THEN Throws(r)
  ELSE [r EXCEPT !.options[o].excludes = @ \cup {p},
                 !.options[p].excludes = @ \cup {o}]
DropNeeds(r, o, p) == [r EXCEPT !.options[o].needs = @ \ {p}]
DropExcludes(r, o, p) == [r EXCEPT !.options[o].excludes = @ \ {p}]

AppNeeds(r, a, b) ==
  IF a = b THEN Throws(r) ELSE [r EXCEPT !.apps[a].needApps = @ \cup {b}]
(* The other direction is entered with the first one only.                 *)
AppExcludes(r, a, b) ==
  IF a = b THEN Throws(r)
  ELSE IF b \in AppOf(r, a).excludeApps THEN r
  ELSE [r EXCEPT !.apps[a].excludeApps = @ \cup {b},
                 !.apps[b].excludeApps = @ \cup {a}]
DropAppNeeds(r, a, b) == [r EXCEPT !.apps[a].needApps = @ \ {b}]
DropAppExcludes(r, a, b) ==
  IF b \in AppOf(r, a).excludeApps
  THEN [r EXCEPT !.apps[a].excludeApps = @ \ {b},
                 !.apps[b].excludeApps = @ \ {a}]
  ELSE r
AppNeedsOption(r, a, o) == [r EXCEPT !.apps[a].needs = @ \cup {o}]
AppExcludesOption(r, a, o) == [r EXCEPT !.apps[a].excludes = @ \cup {o}]
DropAppNeedsOption(r, a, o) == [r EXCEPT !.apps[a].needs = @ \ {o}]
DropAppExcludesOption(r, a, o) == [r EXCEPT !.apps[a].excludes = @ \ {o}]

----------------------------------------------------------------------------
(* One call, of an operation that this behaviour calls.                    *)
Becomes(op, r) ==
  /\ op \in calls
  /\ registryCalls' = registryCalls + 1
  /\ registry' = r
  /\ UNCHANGED calls

Now == [registry EXCEPT !.threw = FALSE, !.made = 0]
Apps == DOMAIN registry.apps
Options == DOMAIN registry.options
SubsOf(a) == ToSet(registry.apps[a].subs)
OptionsOf(a) == ToSet(registry.apps[a].options)

CallAdd ==
  \E a \in Apps, s \in OptionShapes :
    \/ Becomes("add", AddOption(Now, a, s))
    \/ Becomes("flag", AddFlag(Now, a, s))
    \/ \E f \in {"help", "helpAll", "version", "config"} :
         Becomes(f, Point(Now, a, f, s))
CallUnpoint ==
  \E a \in Apps, f \in {"help", "helpAll", "version", "config"} :
    Becomes(f, Point(Now, a, f, Unnamed))
CallRemove ==
  \E a \in Apps : \E o \in OptionsOf(a) :
    \/ Becomes("remove", RemoveOption(Now, a, o))
    \/ Becomes("retire", RetireOption(Now, a, o))
CallRetireByName ==
  \E a \in Apps, n \in Names : Becomes("retire", RetireByName(Now, a, n))
CallIgnore ==
  \E o \in Options, f \in {"case", "under"}, value \in BOOLEAN :
    /\ OptionOf(Now, o).parent \in Apps
    /\ Becomes("ignore", Ignore(Now, o, f, value))
CallDefault ==
  \E a \in Apps, f \in {"case", "under"} :
    Becomes("default", SetDefault(Now, a, f))
CallMove ==
  \E a \in Apps : \E o \in Options, g \in SubsOf(a) :
    /\ registry.apps[g].name = NoName
    /\ Becomes("move", MoveOption(Now, a, o, g))
CallAddSubcommand ==
  \E a \in Apps, n \in AppNames : Becomes("sub", AddSubcommand(Now, a, n))
CallAddGroup ==
  \E a \in Apps, bare \in BOOLEAN : Becomes("group", AddGroup(Now, a, bare))
CallRemoveSubcommand ==
  \E a \in Apps : \E s \in SubsOf(a) :
    Becomes("removeSub", RemoveSubcommand(Now, a, s))
CallTake ==
  \E s \in Apps \ {1} : \E g \in Apps \ Family(Now, s) :
    /\ registry.apps[g].name = NoName
    /\ Becomes("take", TakeSubcommand(Now, g, s))
CallName ==
  \E a \in Apps, n \in AppNames :
    \/ Becomes("name", Rename(Now, a, n))
    \/ n # NoName /\ Becomes("alias", Alias(Now, a, n))
CallIgnoreInApp ==
  \E a \in Apps, f \in {"case", "under"}, value \in BOOLEAN :
    Becomes("ignoreApp", IgnoreInApp(Now, a, f, value))
CallDisable ==
  \E a \in Apps, value \in BOOLEAN : Becomes("disable", Disable(Now, a, value))
CallOptionLink ==
  \E o, p \in Options :
    \/ Becomes("link", OptionNeeds(Now, o, p))
    \/ Becomes("link", OptionExcludes(Now, o, p))
    \/ Becomes("link", DropNeeds(Now, o, p))
    \/ Becomes("link", DropExcludes(Now, o, p))
CallAppLink ==
  \E a, b \in Apps :
    \/ Becomes("linkApp", AppNeeds(Now, a, b))
    \/ Becomes("linkApp", AppExcludes(Now, a, b))
    \/ Becomes("linkApp", DropAppNeeds(Now, a, b))
    \/ Becomes("linkApp", DropAppExcludes(Now, a, b))
CallAppOptionLink ==
  \E a \in Apps, o \in Options :
    \/ Becomes("linkApp", AppNeedsOption(Now, a, o))
    \/ Becomes("linkApp", AppExcludesOption(Now, a, o))
    \/ Becomes("linkApp", DropAppNeedsOption(Now, a, o))
    \/ Becomes("linkApp", DropAppExcludesOption(Now, a, o))

Blank ==
  [apps |-> [a \in {1} |-> PlainEntry], options |-> <<>>, next |-> 2,
   graves |-> <<>>, made |-> 0, threw |-> FALSE]

RegistryInit ==
  \E d \in Drafts :
    registry = d.registry /\ calls = d.calls /\ registryCalls = 0

RegistryNext ==
  /\ registryCalls < MaxRegistryCalls
  /\ \/ CallAdd \/ CallUnpoint \/ CallRemove \/ CallRetireByName \/ CallIgnore
     \/ CallDefault \/ CallMove \/ CallAddSubcommand \/ CallAddGroup
     \/ CallRemoveSubcommand \/ CallTake \/ CallName \/ CallIgnoreInApp
     \/ CallDisable \/ CallOptionLink \/ CallAppLink \/ CallAppOptionLink

----------------------------------------------------------------------------
(* Of two that ignore different things neither sees the other.             *)
Comparable(x, y) ==
  \/ (x.case => y.case) /\ (x.under => y.under)
  \/ (y.case => x.case) /\ (y.under => x.under)

(* What a registry is: typed, its numbers never used twice, each option    *)
(* in the list of one app, each app but the roots in the list of its       *)
(* parent, and links only to what is or was there.                         *)
AppRecords ==
  [name : Names \cup {NoName}, aliases : SUBSET Names, parent : Nat,
   options : Seq(Nat), subs : Seq(Nat), case : BOOLEAN, under : BOOLEAN,
   disabled : BOOLEAN, hidden : BOOLEAN, help : Nat, helpAll : Nat,
   version : Nat, config : Nat, needs : SUBSET Nat, excludes : SUBSET Nat,
   needApps : SUBSET Nat, excludeApps : SUBSET Nat,
   defaults : [case : BOOLEAN, under : BOOLEAN]]
Shapes == [short : SUBSET Names, long : SUBSET Names, pos : Names \cup {NoName}]
OptionRecords ==
  [short : SUBSET Names, long : SUBSET Names, pos : Names \cup {NoName},
   case : BOOLEAN, under : BOOLEAN, configurable : BOOLEAN, parent : Nat,
   needs : SUBSET Nat, excludes : SUBSET Nat]

IsRegistry(r) ==
  /\ r \in [apps : {r.apps}, options : {r.options}, next : Nat,
            graves : {r.graves}, made : Nat, threw : BOOLEAN]
  /\ r.apps \in [DOMAIN r.apps -> AppRecords]
  /\ r.options \in [DOMAIN r.options -> OptionRecords]
  /\ r.graves \in [DOMAIN r.graves -> SUBSET Nat]

NumbersUsedOnce(r) ==
  /\ (DOMAIN r.apps \cup DOMAIN r.graves) \cap DOMAIN r.options = {}
  /\ DOMAIN r.apps \cup DOMAIN r.options \cup DOMAIN r.graves
       \subseteq 1 .. (r.next - 1)

OptionsHeldOnce(r) ==
  \A a \in DOMAIN r.apps :
    /\ ToSet(AppOf(r, a).options) \subseteq DOMAIN r.options
    /\ IsInjective(AppOf(r, a).options)
    /\ \A b \in DOMAIN r.apps \ {a} :
         ToSet(AppOf(r, a).options) \cap ToSet(AppOf(r, b).options) = {}

AppsHeldOnce(r, roots) ==
  /\ 1 \in roots /\ roots \subseteq DOMAIN r.apps
  /\ \A a \in DOMAIN r.apps :
       /\ IsInjective(AppOf(r, a).subs)
       /\ \A s \in ToSet(AppOf(r, a).subs) :
            s \in DOMAIN r.apps \ (roots \cup {a}) /\ AppOf(r, s).parent = a
  /\ \A s \in DOMAIN r.apps \ roots :
       LET p == AppOf(r, s).parent
       IN p \in DOMAIN r.apps /\ s \in ToSet(AppOf(r, p).subs)

LinksKnown(r) ==
  /\ \A o \in DOMAIN r.options :
       OptionOf(r, o).needs \cup OptionOf(r, o).excludes
         \subseteq DOMAIN r.options \cup DOMAIN r.graves
  /\ \A a \in DOMAIN r.apps :
       AppOf(r, a).needApps \cup AppOf(r, a).excludeApps
         \subseteq DOMAIN r.apps \cup DOMAIN r.graves

(* No option of an app, made for it, answers to a name of another one.     *)
OptionsApart(r) ==
  \A a \in DOMAIN r.apps : \A o, p \in ToSet(AppOf(r, a).options) :
    LET x == OptionOf(r, o)  y == OptionOf(r, p)
    IN o # p /\ x.parent = a /\ y.parent = a =>
         /\ \A n \in x.short : ~TakesShort(y, n)
         /\ \A n \in x.long : ~TakesLong(y, n)

(* No name that a user may type is that of two options of an app, made for *)
(* it and comparable.                                                      *)
OptionNamesAreUnique ==
  \A a \in Apps : \A o, p \in OptionsOf(a) :
    LET x == registry.options[o]  y == registry.options[p]
    IN o # p /\ x.parent = a /\ y.parent = a /\ Comparable(x, y) =>
         \A n \in Names : /\ ~(TakesShort(x, n) /\ TakesShort(y, n))
                          /\ ~(TakesLong(x, n) /\ TakesLong(y, n))

(* What _find_subcommand chooses from.                                     *)
Offered(a) ==
  LET of[x \in Apps] ==
        LET groups == {s \in SubsOf(x) : registry.apps[s].name = NoName}
            open == {g \in groups : ~registry.apps[g].hidden}
        IN (SubsOf(x) \ groups) \cup UNION {of[g] : g \in open}
  IN of[a]

(* No name is that of two subcommands offered by a named app or the main   *)
(* one, if neither they nor their owners were ever hidden: disabled apps   *)
(* are not compared, and those that ignore both case and underscores not   *)
(* by the names they answer to once one of the two is switched off.        *)
SubcommandNamesAreUnique ==
  \A a \in {1} \cup {b \in Apps : registry.apps[b].name # NoName
                            /\ ~registry.apps[b].hidden} :
    \A s, t \in Offered(a) :
    LET x == registry.apps[s]  y == registry.apps[t]
    IN s # t /\ ~x.hidden /\ ~y.hidden /\ Comparable(x, y) =>
         \A n \in Names : ~(TakesName(x, n) /\ TakesName(y, n))

(* A link to an option or a subcommand that is gone is held only by one    *)
(* that was elsewhere when it went; exclusion of subcommands is mutual;    *)
(* the help pointers point to flags of the app.                            *)
OptionLinksLive(r) ==
  \A o \in DOMAIN r.options :
    LET x == OptionOf(r, o)
    IN \A p \in (x.needs \cup x.excludes) \ DOMAIN r.options :
         o \notin r.graves[p]
AppLinksLive(r) ==
  \A a \in DOMAIN r.apps :
    LET x == AppOf(r, a)
    IN /\ \A b \in (x.needApps \cup x.excludeApps) \ DOMAIN r.apps :
            a \notin r.graves[b]
       /\ \A b \in x.excludeApps \cap DOMAIN r.apps :
            a \in AppOf(r, b).excludeApps
PointersLive(r) ==
  \A a \in DOMAIN r.apps :
    LET x == AppOf(r, a)
    IN {x.help, x.helpAll} \subseteq ToSet(x.options) \cup {0}

RegistrySound(r, roots) ==
  /\ IsRegistry(r) /\ NumbersUsedOnce(r)
  /\ OptionsHeldOnce(r) /\ AppsHeldOnce(r, roots) /\ LinksKnown(r)
  /\ OptionsApart(r)
  /\ OptionLinksLive(r) /\ AppLinksLive(r) /\ PointersLive(r)

(* Names are names, and a draft is a registry that calls have built.       *)
ASSUME RegistryAssumption ==
  /\ AppNames \subseteq Names \cup {NoName} /\ OptionShapes \subseteq Shapes
  /\ \A d \in Drafts : RegistrySound(d.registry, {1})

RegistrySpec == RegistryInit /\ [][RegistryNext]_registryVars

(* However the tree was built, each object has one owner, no link leads to *)
(* an object that its holder was told of when it went, and the name of an  *)
(* option means one thing.                                                 *)
RegistryIsSound == RegistrySound(registry, {1}) /\ OptionNamesAreUnique
=============================================================================
