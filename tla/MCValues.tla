------------------------------ MODULE MCValues ------------------------------
(* The parts that one thread calls, on small instances.                    *)
EXTENDS Values

----------------------------------------------------------------------------
(* Options: a plain one, a vector, a forced default, a type of two items,  *)
(* a delimiter, a flag, and the other policies.                            *)
PlainWord(t) == [shape |-> "plain", parts |-> <<t>>]
MCOptionKinds ==
  { Fresh,
    [Fresh EXCEPT !.min = 1, !.max = Vector, !.extra = TRUE, !.container = TRUE],
    [Fresh EXCEPT !.forced = TRUE, !.default = PlainWord(<<"c">>),
                  !.policy = "TakeLast"],
    [Fresh EXCEPT !.typeMin = 2, !.typeMax = 2, !.container = TRUE, !.max = 2],
    [Fresh EXCEPT !.delimiter = TRUE, !.policy = "Join"],
    [Fresh EXCEPT !.min = 0, !.policy = "TakeLast", !.flagLike = TRUE],
    [Fresh EXCEPT !.policy = "Sum"],
    [Fresh EXCEPT !.policy = "Reverse", !.container = TRUE, !.max = 2],
    [Fresh EXCEPT !.policy = "TakeFirst", !.container = TRUE, !.max = 2,
                  !.callback = FALSE] }

MCOptionWords ==
  { PlainWord(<<"a">>), PlainWord(<<"x">>), PlainWord(<<>>), PlainWord(Empty),
    [shape |-> "list", parts |-> <<<<"a">>, <<>>, <<"b">>>>],
    [shape |-> "vector", parts |-> <<<<"a">>, <<"b">>>>] }

Validator(at, refuses, maps) ==
  [at |-> at, refuses |-> refuses, maps |-> maps]
MCSetters ==
  { [name |-> "check", v |-> Validator(-1, {<<"x">>}, <<>>)],
    [name |-> "transform",
     v |-> Validator(1, {}, [t \in {<<"a">>} |-> <<"b">>])],
    [name |-> "expected", n |-> -2],
    [name |-> "typeSizeBetween", n |-> 1, m |-> 2],
    [name |-> "policy", p |-> "TakeLast"] }
MCUnreadable == {<<"x">>}

----------------------------------------------------------------------------
(* Trees of apps: one to add options to, one to set flags for help, files  *)
(* and the version in, one to link options in, one to add subcommands to.  *)
Spelled(w, upper, under) == [word |-> w, upper |-> upper, under |-> under]
NameA == Spelled("a", FALSE, FALSE)
UpperA == Spelled("a", TRUE, FALSE)
UnderA == Spelled("a", FALSE, TRUE)
HelpShape == [Unnamed EXCEPT !.long = {Spelled("h", FALSE, FALSE)}]
MCWords == {"a", "h"}
MCShapes ==
  { [Unnamed EXCEPT !.short = {NameA}], [Unnamed EXCEPT !.long = {UpperA}],
    [Unnamed EXCEPT !.long = {UnderA}], [Unnamed EXCEPT !.pos = NameA],
    HelpShape }
MCAppNames == {NoName, NameA, UpperA, UnderA}

Helped == Point(Blank, 1, "help", HelpShape)
Grouped == AddGroup(Helped, 1, FALSE)
Linked ==
  AddGroup(AddOption(AddOption(Helped, 1, [Unnamed EXCEPT !.short = {NameA}]),
                     1, [Unnamed EXCEPT !.long = {UpperA}]), 1, TRUE)
MCDrafts ==
  { [registry |-> Grouped,
     calls |-> {"add", "flag", "remove", "retire", "ignore", "default",
                "move"}],
    [registry |-> Grouped,
     calls |-> {"add", "help", "helpAll", "config", "version", "remove"}],
    [registry |-> Linked,
     calls |-> {"link", "remove", "move", "removeSub", "linkApp"}],
    [registry |-> AddSubcommand(Grouped, 1, NameA),
     calls |-> {"sub", "group", "removeSub", "take", "name", "alias",
                "ignoreApp", "disable"}] }

----------------------------------------------------------------------------
MCMagnitudes == 0 .. 70

----------------------------------------------------------------------------
(* Files: of sections, of values, of what goes on over several lines; and  *)
(* the files that are written for trees of four apps, one in the other's   *)
(* sister.                                                                 *)
KeyLine(path, value) ==
  [Line("key", path, value) EXCEPT !.text = <<"k">>,
     !.ends = IF value # <<>> /\ Last(value) = "]" THEN "]" ELSE "no"]
SectionLine(path) ==
  [Line("section", path, <<>>) EXCEPT !.ends = "]", !.text = <<"s", "]">>]
StringLine(value, ends) ==
  [Line("string", <<"y">>, value) EXCEPT !.text = <<"u">>, !.ends = ends]
Short == Line("short", <<>>, <<>>)
Sectioned ==
  {SectionLine(p) :
     p \in {<<>>, <<"a">>, <<"c">>, <<"a", "b">>, <<"a", "c">>, <<"c", "b">>,
            <<"a", "b", "c">>, <<"a", "c", "b">>}}
  \cup {KeyLine(<<"x">>, <<"v">>)}
Valued ==
  {SectionLine(<<"a">>), SectionLine(<<>>), Line("flag", <<"x">>, <<>>), Short}
  \cup {KeyLine(<<"x">>, v) :
          v \in {<<"v">>, <<"[", "v", ",", "w", "]">>, <<"v", ",", "q">>,
                 <<"[", "]">>}}
  \cup {KeyLine(<<"a", "x">>, <<"v", " ", "w">>)}
Lengthy ==
  {SectionLine(<<"a">>), KeyLine(<<"x">>, <<"[", "v", ",">>),
   KeyLine(<<"x">>, <<"w", "]">>), Line("comment", <<>>, <<>>), Short,
   [Line("quotes", <<>>, <<>>) EXCEPT !.ends = "quotes", !.text = <<"t">>],
   StringLine(<<"t">>, "no"), StringLine(<<>>, "backslash"),
   StringLine(<<"t">>, "quotes")}

Opt(name, configurable, values) ==
  [name |-> name, configurable |-> configurable, values |-> values,
   raw |-> values, default |-> <<>>, min |-> 1, required |-> FALSE,
   forDefault |-> FALSE, flags |-> <<>>, fixed |-> FALSE, forced |-> FALSE,
   flagLike |-> FALSE]
TreeApp(name, configurable, got, options, subs) ==
  [name |-> name, configurable |-> configurable, got |-> got,
   parsed |-> IF got THEN 1 ELSE 0, options |-> options, subs |-> subs]
Trees ==
  { << TreeApp(NoSegment, TRUE, TRUE, <<Opt("x", TRUE, v)>>, <<2, 3>>),
       TreeApp(second, c2, got,
               <<Opt("y", TRUE, <<"v">>), Opt("h", FALSE, <<"v">>)>>, <<4>>),
       TreeApp("c", c3, got, <<Opt("z", TRUE, v)>>, <<>>),
       TreeApp(fourth, c4, TRUE, <<Opt("w", TRUE, <<"w">>)>>, <<>>) >> :
    v \in {<<>>, <<"v">>, <<"v", "w">>, <<"q">>, <<"v", "q">>},
    second \in {NoSegment, "a"}, fourth \in {NoSegment, "b"},
    c2, c3, c4, got \in BOOLEAN }

(* Options without values, and flags: with names that have no value of     *)
(* their own, that negate, that stand for numbers or for words; fixed ones *)
(* have the value of a name.                                               *)
Unset ==
  {[Opt("x", TRUE, <<>>) EXCEPT !.default = d, !.min = m, !.required = r,
                                !.forDefault = f] :
     d \in {<<>>, <<"v">>}, m \in {0, 1}, r, f \in BOOLEAN}
FlagName(name, given) == [name |-> name, given |-> given]
NotX == FlagName("no-x", "false")
FlagNames ==
  { <<>>, <<NotX>>, <<FlagName("x", "2")>>, <<FlagName("x", "v")>>,
    <<FlagName("x", "1"), FlagName("y", "2")>>,
    <<FlagName("x", "v"), FlagName("y", "w")>>,
    <<FlagName("y", "2"), NotX>>, <<NotX, FlagName("y", "true")>> }
FlagsOf(names, name, fixed) ==
  LET named == {names[i].name : i \in DOMAIN names}
      values == IF ~fixed THEN {"true", "false", "2", "-2", "v"}
                ELSE {names[i].given : i \in DOMAIN names}
                     \cup {t \in {"true"} : name \notin named}
  IN {[Opt(name, TRUE, v) EXCEPT
         !.min = 0, !.flags = names, !.fixed = fixed, !.flagLike = TRUE,
         !.forced = forced, !.default = d] :
        v \in {<<>>} \cup {<<x>> : x \in values}, forced \in BOOLEAN,
        d \in {<<>>, <<"2">>}}
Flags ==
  UNION {FlagsOf(names, name, fixed) :
           names \in FlagNames, name \in {"x", "no-x"}, fixed \in BOOLEAN}
FlagTrees ==
  {<<TreeApp(NoSegment, TRUE, TRUE, <<o>>, <<2>>),
     TreeApp("c", TRUE, TRUE, <<o>>, <<>>)>> : o \in Unset \cup Flags}

FileOf(format, lines) ==
  [format |-> format, lines |-> lines, tree |-> NoTree, all |-> FALSE]
MCConfigDrafts ==
  { FileOf(Toml, Sectioned), FileOf(Toml, Valued), FileOf(Toml, Lengthy),
    FileOf([Toml EXCEPT !.merge = TRUE, !.layers = 1], Valued),
    FileOf([Toml EXCEPT !.section = <<"a">>, !.index = 0], Valued),
    FileOf([Toml EXCEPT !.kind = "other"], Valued) }
  \cup [format : {Toml, Ini}, lines : {{}}, tree : Trees, all : BOOLEAN]
  \cup [format : {Toml, [Toml EXCEPT !.comments = TRUE]}, lines : {{}},
        tree : FlagTrees, all : BOOLEAN]
MCOpposites ==
  [x \in {"true", "false", "1", "2", "-2"} |->
     CASE x = "true" -> "false" [] x = "false" -> "true"
       [] x = "1" -> "false" [] x = "2" -> "-2" [] x = "-2" -> "2"]
MCQuoted == {"q"}

----------------------------------------------------------------------------
(* A UUID with each of its bytes at the ends of the digits and of the      *)
(* numbers, versions of one to four numbers, and lists of up to five       *)
(* numbers, some of which no float of three bits is equal to.              *)
BaseUuid == [i \in 1..16 |-> (i * 37) % 256]
MCUuidSamples ==
  {[BaseUuid EXCEPT ![i] = b] :
     i \in 1..16, b \in {0, 9, 10, 127, 160, 175, 255}}
MCVersions == UNION {[1..n -> 0..1] : n \in 1..4}
MCGarbage == {-1, 1, 5}
MCLists == UNION {[1..n -> {0, 1, 7, 9, 11}] : n \in 1..5}
=============================================================================
