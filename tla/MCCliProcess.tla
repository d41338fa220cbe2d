---------------------------- MODULE MCCliProcess ----------------------------
(* Command trees and command lines for CliProcess.                         *)
EXTENDS CliProcess, TLC

CONSTANT MaxArgs

App(names, parent) == [PlainApp EXCEPT !.names = names, !.parent = parent]
                      @@ PlainParser
Program(apps, opts, config) == [app |-> apps, opt |-> opts, config |-> config]
NoConfig == [option |-> None, default |-> FALSE, file |-> FALSE, items |-> <<>>]

Token(k, n) == [k |-> k, n |-> n, v |-> FALSE, rest |-> <<>>]
Word(w) == Token("word", <<w>>)
Valued(t) == [t EXCEPT !.v = TRUE]
LinesOf(tokens) ==
  {[i \in DOMAIN l |-> [id |-> i] @@ l[i]] : l \in BoundedSeq(tokens, MaxArgs)}

Value == [PlainOption EXCEPT !.long = {"val"}, !.short = {"o"},
                             !.accepts = {"1"}]
Flag == [PlainOption EXCEPT !.long = {"flag"}, !.short = {"f"}, !.emin = 0,
                            !.tmin = 0, !.tmax = 0]
Place == [PlainOption EXCEPT !.positional = TRUE, !.accepts = {"1"}]

(* The program with a value, a flag and a positional; the subcommands sub, *)
(* with options of its own, and other; below is a subcommand of sub.       *)
BaseApps ==
  "main" :> [App({"prog"}, None) EXCEPT !.subs = <<"sub", "other">>,
               !.opts = <<"val", "flag", "place">>, !.final = TRUE]
  @@ "sub" :> [App({"sub"}, "main") EXCEPT !.subs = <<"below">>,
                 !.opts = <<"subval", "subplace">>, !.final = TRUE]
  @@ "other" :> [App({"other"}, "main") EXCEPT !.final = TRUE]
  @@ "below" :> App({"below"}, "sub")
BaseOpts ==
  "val" :> [Value EXCEPT !.emax = 2] @@ "flag" :> Flag @@ "place" :> Place
  @@ "subval" :> [Value EXCEPT !.long = {"sv"}, !.short = {"s"}]
  @@ "subplace" :> Place
Base == Program(BaseApps, BaseOpts, NoConfig)

MCPrograms == {
  Base,
  [Base EXCEPT !.app["main"].maxSubs = 1, !.app["sub"].fallthrough = TRUE],
  [Base EXCEPT !.app["main"].atEnd = TRUE, !.opt["place"].required = TRUE],
  [Base EXCEPT !.app["main"].extras = TRUE, !.app["sub"].prefix = TRUE,
               !.opt["subval"].required = TRUE],
  [Base EXCEPT !.app["main"].validate = TRUE, !.app["sub"].complete = TRUE,
               !.app["sub"].fallthrough = TRUE,
               !.opt["val"].required = TRUE],
  [Base EXCEPT !.app["main"].maxSubs = 1, !.app["main"].subfall = FALSE,
               !.opt["val"].positional = TRUE, !.opt["val"].required = TRUE]}

MCLines == LinesOf({Word("sub"), Word("other"), Word("below"), Word("1"),
                    Token("long", <<"val">>), Token("short", <<"s">>),
                    [Token("short", <<"f">>) EXCEPT !.rest = <<"o">>],
                    Token("mark", <<"--">>), Token("plus", <<"++">>)})

(* A program with two option groups, help, an option that must be given,   *)
(* a configuration file, and a subcommand with a group of its own that     *)
(* enables the subcommand extra.                                           *)
Long(n) == [PlainOption EXCEPT !.long = {n}]
GroupApps ==
  "main" :> [App({"prog"}, None) EXCEPT !.subs = <<"first", "second", "sub",
                                                   "extra">>,
               !.opts = <<"help", "cfg", "must">>, !.final = TRUE]
  @@ "first" :> [App({}, "main") EXCEPT !.opts = <<"aa", "flag">>]
  @@ "second" :> [App({}, "main") EXCEPT !.opts = <<"bb">>]
  @@ "sub" :> [App({"sub"}, "main") EXCEPT !.opts = <<"xx">>, !.final = TRUE,
                 !.enables = {"extra"},
                 !.configurable = TRUE]
  @@ "extra" :> [App({"extra"}, "main") EXCEPT !.disabled = TRUE,
                   !.final = TRUE]
GroupOpts ==
  "help" :> [Flag EXCEPT !.long = {"help"}, !.short = {}, !.role = "help"]
  @@ "cfg" :> [Long("cfg") EXCEPT !.configurable = FALSE]
  @@ "must" :> [Long("must") EXCEPT !.env = "valid"]
  @@ "aa" :> [Long("aa") EXCEPT !.needs = {"must"}]
  @@ "flag" :> [Flag EXCEPT !.long = {"flag"}, !.short = {}]
  @@ "bb" :> [Long("bb") EXCEPT !.excludes = {"aa"}]
  @@ "xx" :> Long("xx")
Section(parents, n, inputs) == [parents |-> parents, name |-> n, n |-> inputs]
File(list) == [option |-> "cfg", default |-> TRUE, file |-> TRUE,
                items |-> list]
Groups == Program(GroupApps, GroupOpts,
                  File(<<Section(<<>>, "aa", 1), Section(<<"sub">>, "++", 0),
                         Section(<<"sub">>, "xx", 2),
                         Section(<<"sub">>, "--", 0)>>))

MCGroups == {
  Groups,
  [Groups EXCEPT !.config.file = FALSE, !.opt["must"].env = "unset",
                 !.app["main"].minOpts = 1, !.app["main"].maxOpts = 2],
  [Groups EXCEPT !.app["main"].needs = {"aa"}, !.app["sub"].excludes = {"bb"},
                 !.app["second"].required = TRUE,
                 !.config.items = <<Section(<<>>, "flag", 1),
                                    Section(<<>>, "zz", 1),
                                    Section(<<"none">>, "++", 0)>>],
  [Groups EXCEPT !.app["main"].configExtras = "error",
                 !.config.items = <<Section(<<>>, "zz", 1)>>],
  [Groups EXCEPT !.app["main"].configExtras = "capture",
                 !.opt["must"].required = TRUE, !.opt["must"].env = "unset",
                 !.config.items = <<Section(<<>>, "zz", 1),
                                    Section(<<>>, "cfg", 1)>>],
  [Groups EXCEPT !.opt["bb"].emin = 0, !.opt["bb"].emax = 2,
                 !.config.items = <<Section(<<>>, "bb", 2),
                                    Section(<<>>, "flag", 2)>>]}

MCGroupLines == LinesOf({Word("sub"), Word("extra"), Word("1"),
                         Token("long", <<"help">>), Token("long", <<"cfg">>),
                         Token("long", <<"flag">>), Valued(Token("long", <<"aa">>)),
                         Valued(Token("long", <<"bb">>)),
                         Valued(Token("long", <<"must">>))})

(* Subcommands that are complete when they are left, dots, options whose   *)
(* callback runs at once, and separators between occurrences.              *)
Eager ==
  [Groups EXCEPT !.app["sub"].complete = TRUE, !.app["sub"].opts = <<"xx", "yy">>,
                 !.app["sub"].configurable = FALSE,
                 !.opt = ("yy" :> [Long("yy") EXCEPT !.sep = TRUE, !.emax = 4,
                                   !.short = {"y"}]) @@ @]
MCEager == {
  Eager,
  [Eager EXCEPT !.opt["xx"].trigger = TRUE, !.opt["xx"].required = TRUE],
  [Eager EXCEPT !.app["sub"].immediate = TRUE, !.app["sub"].maxSubs = 1,
                !.app["main"].subfall = FALSE, !.app["main"].extras = TRUE]}
MCEagerLines == LinesOf({Word("sub"), Word("1"), Token("plus", <<"++">>),
                         Token("short", <<"y">>),
                         Valued(Token("long", <<"xx">>)),
                         Valued(Token("long", <<"must">>)),
                         Valued(Token("long", <<"sub", "xx">>)),
                         Token("long", <<"sub", "yy">>),
                         Valued(Token("long", <<"sub", "zz">>))})

(* A subcommand that checks its required positional before it takes it.    *)
Strict == [Base EXCEPT !.app["sub"].validate = TRUE,
                       !.opt["subplace"].required = TRUE]

Given(programs, lines) == {[program |-> p, lines |-> lines] : p \in programs}
MCInputs == Given(MCPrograms, MCLines) \cup Given(MCGroups, MCGroupLines)
            \cup Given(MCEager, MCEagerLines)
MCStrict == Given({Strict}, LinesOf({Word("sub"), Word("other"), Word("1")}))
MCDots == Given({Base}, LinesOf({Word("sub"), Valued(Token("long", <<"sub", "sv">>))}))
=============================================================================
