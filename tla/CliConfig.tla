----------------------------- MODULE CliConfig -----------------------------
(***************************************************************************)
(* Configuration files: what ConfigBase::from_config() makes of the lines  *)
(* of a file, and the file that to_config() writes for a tree of apps.     *)
(*                                                                         *)
(* A line is a record (see Line).  The value of a key is a sequence of     *)
(* tokens: "[", "]", "," , " ", or a word of the user, which is in Quoted  *)
(* where it is written in quotes because a comma is in it.  Path is the    *)
(* sequence of the segments between dots; <<>> is the section [default].   *)
(***************************************************************************)
EXTENDS Integers, SequencesExt

CONSTANTS
  Quoted,          (* the tokens that are in quotes and have a comma       *)
  Opposites,       (* of the words that are written without quotes, true,  *)
                   (* false and numbers: what a negated flag makes of them *)
  ConfigDrafts,    (* what is read: [format, lines, tree, all], a file of    *)
                   (* such lines, or the one written for the tree, with    *)
                   (* all defaults or not                                  *)
  MaxLines,        (* bound: the lines of a file that is not written       *)
  NoTree

VARIABLES
  draft,           (* the draft that is read                               *)
  file,            (* the lines read so far                                *)
  reader           (* the local variables of from_config                   *)

configVars == <<draft, file, reader>>

(* The formats: arrays, TOML and INI split a value that has no brackets;   *)
(* defaults may be written as comments.                                    *)
Toml == [kind |-> "toml", merge |-> FALSE, section |-> <<>>, index |-> -1,
         layers |-> 255, comments |-> FALSE]
Ini == [Toml EXCEPT !.kind = "ini"]

(* A line: its kind, its path, the value (of a key), and what a reader     *)
(* inside a string or an array sees: the text and how it ends.             *)
Line(kind, path, value) ==
  [kind |-> kind, path |-> path, value |-> value, text |-> <<>>, ends |-> "no"]

Open == "++"
Close == "--"
Mark == "%%"
Newline == "newline"
Entry(parents, name, inputs) ==
  [parents |-> parents, name |-> name, inputs |-> inputs]
OpenItem(p) == Entry(p, Open, <<>>)
CloseItem(p) == Entry(p, Close, <<>>)

----------------------------------------------------------------------------
(* split_up: a quoted token at the beginning of a piece is the piece, with *)
(* what comes after it; elsewhere its comma splits it.                     *)
Broken == "half"
RECURSIVE SplitUp(_, _)
SplitUp(tokens, at) ==
  LET cuts == {i \in DOMAIN tokens :
                 tokens[i] = at \/ (tokens[i] \in Quoted /\ at = ",")}
      i == CHOOSE j \in cuts : \A k \in cuts : j <= k
      head == SubSeq(tokens, 1, i - 1)
      rest == SubSeq(tokens, i + 1, Len(tokens))
  IN IF tokens = <<>> THEN <<>>
     ELSE IF tokens[1] = " " THEN SplitUp(Tail(tokens), at)
     ELSE IF tokens[1] \in Quoted
     THEN <<<<tokens[1]>>>> \o SplitUp(SubSeq(tokens, 3, Len(tokens)), at)
     ELSE IF cuts = {} THEN <<tokens>>
     ELSE IF tokens[i] = at THEN <<head>> \o SplitUp(rest, at)
     ELSE <<Append(head, Broken)>> \o SplitUp(<<Broken>> \o rest, at)

(* The pieces of a value; a bracket that is not closed by the end of the   *)
(* file is as good as one that is.                                         *)
Pieces(format, value) ==
  LET splits == format.kind \in {"toml", "ini"}
      inner == SubSeq(value, 2,
                      Len(value) - IF Last(value) = "]" THEN 1 ELSE 0)
      Has(t) == t \in ToSet(value) \/ (t = "," /\ ToSet(value) \cap Quoted # {})
  IN IF Len(value) > 1 /\ value[1] = "[" THEN SplitUp(inner, ",")
     ELSE IF splits /\ Has(",") THEN SplitUp(value, ",")
     ELSE IF splits /\ Has(" ") THEN SplitUp(value, " ")
     ELSE <<value>>

(* checkParentSegments: from the section that was closed last to this one. *)
RECURSIVE Unwind(_, _)
Unwind(out, size) ==
  LET p == Last(out).parents
  IN IF Len(p) < size THEN out ELSE Unwind(Append(out, CloseItem(Front(p))), size)

OpenFrom(p, low) ==
  [i \in 1 .. Len(p) - 1 - low |-> OpenItem(SubSeq(p, 1, low + i))]
Common(p, q, most) ==
  CHOOSE n \in 0..most : /\ \A i \in 1..n : p[i] = q[i]
                         /\ n < most => p[n + 1] # q[n + 1]

(* Variant: the section above, which is to stay open, is closed.           *)
CheckParentSegmentsClosing(out, p) ==
  IF out = <<>> \/ Last(out).name # Close
  THEN out \o OpenFrom(p, 0) \o <<OpenItem(p)>>
  ELSE LET unwound == Unwind(out, IF Len(p) > 1 THEN Len(p) ELSE 2)
           q == Last(unwound).parents
           most == IF Len(q) < Len(p) - 1 THEN Len(q) ELSE Len(p) - 1
           n == Common(p, q, most)
       IN IF Len(p) = 1 THEN Append(unwound, OpenItem(p))
          ELSE Unwind(unwound, n + 2) \o OpenFrom(p, n) \o <<OpenItem(p)>>
CheckParentSegments(out, p) ==
  IF out = <<>> \/ Last(out).name # Close
  THEN out \o OpenFrom(p, 0) \o <<OpenItem(p)>>
  ELSE LET unwound == Unwind(out, IF Len(p) > 1 THEN Len(p) ELSE 2)
           q == Last(unwound).parents
           most == IF Len(q) < Len(p) - 1 THEN Len(q) ELSE Len(p) - 1
           n == Common(p, q, most)
           kept == IF n = most THEN Front(unwound) ELSE Unwind(unwound, n + 2)
       IN IF Len(p) = 1 THEN Append(unwound, OpenItem(p))
          ELSE kept \o OpenFrom(p, n) \o <<OpenItem(p)>>

(* find_matching_config: the last item, or any, that has the name.         *)
MatchingConfig(out, parents, name, all) ==
  LET hits == {i \in IF all THEN DOMAIN out ELSE DOMAIN out \cap {Len(out)} :
                 out[i].parents = parents /\ out[i].name = name}
  IN IF hits = {} THEN 0 ELSE CHOOSE i \in hits : \A j \in hits : j <= i

(* Merging reads the last input of the item and the first piece, which may *)
(* not be there.                                                           *)
Undefined == <<"undefined">>
Merged(format, inputs, pieces) ==
  LET marks == format.merge \/ (Len(inputs) > 1 /\ Len(pieces) > 1)
  IN IF marks /\ (inputs = <<>> \/ pieces = <<>>) THEN <<Undefined>>
     ELSE IF marks /\ {<<>>, <<Mark>>} \cap {Last(inputs), pieces[1]} = {}
     THEN inputs \o <<<<Mark>>>> \o pieces ELSE inputs \o pieces

(* generate_parents, with the segments before the last one of a name.      *)
GenerateParents(section, path) == section \o Front(path)

(* A key with its pieces: where it is entered.                             *)
Keep(format, r, path, pieces) ==
  LET parents == GenerateParents(r.section, path)
      name == Last(path)
      asked == format.section # <<>> /\ ~r.inSection
      ours == /\ parents # <<>> /\ <<Head(parents)>> = format.section
              /\ format.index < 0 \/ format.index = r.index
      at == IF asked THEN Tail(parents) ELSE parents
      i == MatchingConfig(r.out, at, name, format.merge)
  IN IF Len(parents) > format.layers \/ (asked /\ ~ours) THEN r
     ELSE [r EXCEPT !.inSection = @ \/ asked,
            !.out = IF i = 0 THEN Append(@, Entry(at, name, pieces))
                    ELSE [@ EXCEPT ![i].inputs = Merged(format, @, pieces)]]

----------------------------------------------------------------------------
(* Reading a line.  mode: where the reader is; pending: the key that is    *)
(* read over several lines, with its value so far.                         *)
Start ==
  [mode |-> "lines", section |-> <<>>, previous |-> <<>>, index |-> 0,
   inSection |-> FALSE, out |-> <<>>, key |-> <<>>, value |-> <<>>,
   joins |-> FALSE, first |-> FALSE, ends |-> FALSE]

Script == IF draft.tree = NoTree THEN <<>> ELSE draft.written
Upcoming ==
  IF reader.ends THEN {}
  ELSE IF draft.tree # NoTree
  THEN {Script[i] : i \in {Len(file) + 1} \cap DOMAIN Script}
  ELSE IF Len(file) < MaxLines THEN draft.lines ELSE {}

Reads(mode, kinds, Result(_)) ==
  /\ reader.mode = mode
  /\ \E line \in Upcoming :
       /\ line.kind \in kinds
       /\ file' = Append(file, line)
       /\ reader' = Result(line)
  /\ UNCHANGED draft

(* Lines of less than three characters, comments.                          *)
SkipLine == Reads("lines", {"short", "comment"}, LAMBDA line : reader)

(* A line that begins with three quotes opens a comment of several lines,  *)
(* and one that ends with them closes it.                                  *)
OpenComment ==
  Reads("lines", {"quotes"}, LAMBDA line : [reader EXCEPT !.mode = "comment"])
InComment ==
  \E kinds \in {{l.kind : l \in Upcoming}} :
    Reads("comment", kinds, LAMBDA line :
            IF line.ends = "quotes" THEN [reader EXCEPT !.mode = "lines"]
            ELSE reader)

ReadSection ==
  Reads("lines", {"section"}, LAMBDA line :
    LET r == reader
        closed == IF r.section = <<>> THEN r.out
                  ELSE Append(r.out, CloseItem(r.section))
        same == line.path = r.previous
    IN [r EXCEPT !.section = line.path, !.inSection = FALSE,
          !.out = IF line.path = <<>> THEN closed
                  ELSE CheckParentSegments(closed, line.path),
          !.index = IF same THEN @ + 1 ELSE 0,
          !.previous = line.path])

ReadFlag ==
  Reads("lines", {"flag"}, LAMBDA line :
          Keep(draft.format, reader, line.path, <<<<"true">>>>))

(* A value that opens a bracket goes on in the next lines until one ends   *)
(* with a bracket, whatever they are.                                      *)
Unclosed(value) == Len(value) > 1 /\ value[1] = "[" /\ Last(value) # "]"
ReadKey ==
  Reads("lines", {"key"}, LAMBDA line :
    IF Unclosed(line.value)
    THEN [reader EXCEPT !.mode = "array", !.key = line.path,
                        !.value = line.value]
    ELSE Keep(draft.format, reader, line.path,
              Pieces(draft.format, line.value)))
InArray ==
  \E kinds \in {{l.kind : l \in Upcoming}} :
    Reads("array", kinds, LAMBDA line :
      LET value == reader.value \o line.text
      IN IF line.ends = "]"
         THEN [Keep(draft.format, reader, reader.key,
                    Pieces(draft.format, value)) EXCEPT !.mode = "lines"]
         ELSE [reader EXCEPT !.value = value])

(* A value that opens with three quotes: the lines up to the next three,   *)
(* joined by newlines, but where a line ends with a backslash.             *)
ReadString ==
  Reads("lines", {"string"}, LAMBDA line :
    IF line.ends = "quotes"
    THEN Keep(draft.format, reader, line.path, <<line.value>>)
    ELSE [reader EXCEPT !.mode = "string", !.key = line.path,
                        !.value = line.value, !.first = TRUE,
                        !.joins = (line.ends = "backslash")])
InString ==
  \E kinds \in {{l.kind : l \in Upcoming}} :
    Reads("string", kinds, LAMBDA line :
      LET r == reader
          apart == ~r.joins /\ ~(r.first /\ r.value = <<>>)
          value == (IF apart THEN Append(r.value, Newline) ELSE r.value)
                   \o line.text
          ended == IF value # <<>> /\ Last(value) = Newline
                   THEN Front(value) ELSE value
      IN IF line.ends = "quotes"
         THEN [Keep(draft.format, r, r.key, <<ended>>) EXCEPT !.mode = "lines"]
         ELSE [r EXCEPT !.value = value, !.first = FALSE,
                        !.joins = (line.ends = "backslash")])

(* At the end of the file what is open is entered, and the section closed  *)
(* with those around it.                                                   *)
EndOfFile ==
  LET value == reader.value
      r == CASE reader.mode = "array" ->
                  Keep(draft.format, reader, reader.key,
                       Pieces(draft.format, value))
             [] reader.mode = "string" ->
                  Keep(draft.format, reader, reader.key, <<value>>)
             [] OTHER -> reader
  IN /\ ~reader.ends
     /\ draft.tree # NoTree => Len(file) = Len(Script)
     /\ reader' = [r EXCEPT !.ends = TRUE,
          !.out = IF r.section = <<>> THEN @
                  ELSE Unwind(Append(@, CloseItem(r.section)), 2)]
     /\ UNCHANGED <<draft, file>>

----------------------------------------------------------------------------
(* The writer.  A tree maps each app, 1 the main one, to                   *)
(* [name, configurable, got, parsed, options, subs].  An option has a      *)
(* name, the first of its names, values, those that the policy leaves (raw *)
(* are the others), a default or <<>>, and the least number of its values. *)
(* flags are those of its names that have a value of their own: given.     *)
NoSegment == ""
RECURSIVE CountAll(_, _)
CountAll(t, a) ==
  FoldLeft(+, IF t[a].name = NoSegment THEN 0 ELSE t[a].parsed,
           [i \in DOMAIN t[a].options |-> Len(t[a].options[i].values)]
           \o [i \in DOMAIN t[a].subs |-> CountAll(t, t[a].subs[i])])

(* ini_join.                                                               *)
Spread(values, sep) ==
  FlattenSeq([i \in DOMAIN values |->
                IF i = 1 THEN <<values[i]>> ELSE <<sep, values[i]>>])
IniJoin(format, values) ==
  IF Len(values) <= 1 THEN values
  ELSE IF format.kind = "ini" THEN Spread(values, " ")
  ELSE <<"[">> \o Spread(values, ",") \o <<"]">>

Parent(t, a) == CHOOSE p \in DOMAIN t : a \in ToSet(t[p].subs)
RECURSIVE PathOf(_, _)
PathOf(t, a) ==
  IF a = 1 THEN <<>> ELSE Append(PathOf(t, Parent(t, a)), t[a].name)

(* get_flag_value of an option for one of its names: a name that stands    *)
(* for false negates; an option may refuse any value but that of the name. *)
NoFlagValue == <<"refused">>
Opposite(x) ==
  IF Len(x) = 1 /\ x[1] \in DOMAIN Opposites THEN <<Opposites[x[1]]>> ELSE x
GivenFor(o, name) == {f.given : f \in {g \in ToSet(o.flags) : g.name = name}}
GetFlagValue(o, name, x) ==
  LET ours == GivenFor(o, name)
      own == <<IF ours = {} THEN "true" ELSE CHOOSE g \in ours : TRUE>>
      usual == ours # {} /\ o.forced /\ x = o.default
  IN IF x = <<>>
     THEN IF ours # {} \/ o.flagLike THEN own ELSE o.default
     ELSE IF o.fixed /\ x # own THEN IF usual THEN x ELSE NoFlagValue
     ELSE IF ours = {"false"} THEN Opposite(x) ELSE x

(* The names and the value that to_config tries, one after another, where  *)
(* an option refuses its value for its name; each that it does not refuse  *)
(* replaces the one before.  In quotes a word is no value of a name.       *)
InQuotes(x) ==
  IF Len(x) = 1 /\ x[1] \notin DOMAIN Opposites THEN <<"\"", x[1]>> ELSE x
OutOfQuotes(x) == IF Len(x) = 2 /\ x[1] = "\"" THEN Tail(x) ELSE x
Assigned(name, value, valid) ==
  [name |-> name, value |-> value, valid |-> valid]
TryNames(o, x) ==
  LET Try(r, f) ==
        LET y == GetFlagValue(o, f.name, r.value)
        IN IF y = NoFlagValue THEN r ELSE Assigned(f.name, y, TRUE)
      first == GetFlagValue(o, o.name, x)
  IN IF o.flags = <<>> THEN Assigned(o.name, x, TRUE)
     ELSE IF first # NoFlagValue THEN Assigned(o.name, first, TRUE)
     ELSE FoldLeft(Try, Assigned(o.name, x, FALSE), o.flags)

(* to_config: the options, then the groups, then the subcommands, each     *)
(* with a section header or with a prefix on its names.                    *)
DefaultText(o) ==
  IF o.default # <<>> THEN o.default
  ELSE IF o.min = 0 THEN <<"false">>
  ELSE IF o.forDefault \/ ~o.required THEN <<"\"\"">> ELSE <<"<REQUIRED>">>
OptionLine(format, o, prefix) ==
  LET isDefault == o.values = <<>>
      value == IF isDefault THEN DefaultText(o) ELSE IniJoin(format, o.values)
      r == TryNames(o, InQuotes(value))
      text == IF r.valid THEN OutOfQuotes(r.value) ELSE IniJoin(format, o.raw)
  IN IF format.comments /\ isDefault THEN Line("comment", <<>>, <<>>)
     ELSE Line("key", Append(prefix, r.name), text)
OptionLines(format, options, prefix, defaultAlso) ==
  LET written == SelectSeq(options, LAMBDA o :
                   o.configurable /\ (o.values # <<>> \/ defaultAlso))
  IN [i \in DOMAIN written |-> OptionLine(format, written[i], prefix)]

(* Which subcommands are written, and which of them with a header.         *)
Listed(t, a, defaultAlso) ==
  SelectSeq(t[a].subs, LAMBDA s : defaultAlso \/ CountAll(t, s) > 0)
Headed(t, s, defaultAlso) == t[s].configurable /\ (defaultAlso \/ t[s].got)

RECURSIVE ToConfig(_, _, _, _, _)
ToConfig(format, t, a, prefix, defaultAlso) ==
  LET subs == Listed(t, a, defaultAlso)
      groups == SelectSeq(subs, LAMBDA s : t[s].name = NoSegment)
      named == SelectSeq(subs, LAMBDA s : t[s].name # NoSegment)
      Path(s) == IF prefix # <<>> \/ a = 1 THEN Append(prefix, t[s].name)
                 ELSE PathOf(t, s)
      Below(s, before) == ToConfig(format, t, s, before, defaultAlso)
      Sub(s) == IF Headed(t, s, defaultAlso)
                THEN <<Line("section", Path(s), <<>>)>> \o Below(s, <<>>)
                ELSE Below(s, Append(prefix, t[s].name))
  IN OptionLines(format, t[a].options, prefix, defaultAlso)
     \o FlattenSeq([i \in DOMAIN groups |-> Below(groups[i], prefix)])
     \o FlattenSeq([i \in DOMAIN named |-> Sub(named[i])])

----------------------------------------------------------------------------
ConfigInit ==
  /\ \E d \in ConfigDrafts :
       draft = [format |-> d.format, lines |-> d.lines, tree |-> d.tree,
                written |-> IF d.tree = NoTree THEN <<>>
                            ELSE ToConfig(d.format, d.tree, 1, <<>>, d.all),
                all |-> d.all]
  /\ file = <<>> /\ reader = Start

ConfigNext ==
  \/ SkipLine \/ OpenComment \/ InComment \/ ReadSection \/ ReadFlag
  \/ ReadKey \/ InArray \/ ReadString \/ InString \/ EndOfFile

----------------------------------------------------------------------------
(* The stack of open sections after the items, or Undefined where an item  *)
(* does not fit: a section opens in the one above it, the innermost one    *)
(* closes, and a key belongs to the innermost one or to one named below.   *)
Nested(stack, item) ==
  LET top == IF stack = <<>> THEN <<>> ELSE Last(stack)
  IN IF stack = Undefined THEN stack
     ELSE IF item.name = Open
     THEN IF Front(item.parents) = top THEN Append(stack, item.parents)
          ELSE Undefined
     ELSE IF item.name = Close
     THEN IF item.parents = top THEN Front(stack) ELSE Undefined
     ELSE IF IsPrefix(top, item.parents) THEN stack ELSE Undefined

(* [default] after a nested section leaves those around it open.           *)
Sections == SelectSeq(file, LAMBDA l : l.kind = "section")
LeavesOpen ==
  \E i \in DOMAIN Sections \ {1} :
    Sections[i].path = <<>> /\ Len(Sections[i - 1].path) > 1

(* The sections that are entered and left are nested and all left at the   *)
(* end, so that each complete subcommand is called once for each time that *)
(* it is entered.                                                          *)
SectionsNest ==
  reader.ends /\ ~LeavesOpen /\ draft.format.section = <<>> =>
    FoldLeft(Nested, <<>>, reader.out) = <<>>

(* The values that a key was given in the file or by the reader.           *)
ValuesRead(parents, name) ==
  LET ours == SelectSeq(reader.out,
                        LAMBDA e : e.parents = parents /\ e.name = name)
  IN SelectSeq(FlattenSeq([i \in DOMAIN ours |-> ours[i].inputs]),
               LAMBDA v : v # <<Mark>>)

(* Where a line is found: between values, or inside one that goes on over  *)
(* lines, or a comment that does.                                          *)
Opens(line) ==
  CASE line.kind = "quotes" -> "comment"
    [] line.kind = "key" /\ Unclosed(line.value) -> "array"
    [] line.kind = "string" /\ line.ends # "quotes" -> "string"
    [] OTHER -> "lines"
PlaceOfLine ==
  LET place[i \in 1 .. Len(file) + 1] ==
        IF i = 1 THEN "lines"
        ELSE LET before == place[i - 1]
             IN IF before = "lines" THEN Opens(file[i - 1])
                ELSE IF file[i - 1].ends = IF before = "array" THEN "]"
                                           ELSE "quotes"
                THEN "lines" ELSE before
  IN place
LinesOf(kinds) ==
  {i \in DOMAIN file : file[i].kind \in kinds /\ PlaceOfLine[i] = "lines"}
ScopeOf(i) ==
  LET before == LinesOf({"section"}) \cap 1..i
  IN IF before = {} THEN <<>> ELSE file[Max(before)].path
FullName(i) == ScopeOf(i) \o file[i].path
(* The value of a key with the lines over which it goes on.                *)
WholeValue(i) ==
  LET last == CHOOSE k \in i .. Len(file) :
                /\ \A j \in i + 1 .. k : PlaceOfLine[j] = "array"
                /\ k = Len(file) \/ PlaceOfLine[k + 1] # "array"
  IN FoldLeft(\o, file[i].value, [n \in 1 .. last - i |-> file[i + n].text])
ValuesWritten(full) ==
  LET Of(i) == IF i \notin LinesOf({"key", "flag"}) \/ FullName(i) # full
               THEN <<>>
               ELSE IF file[i].kind = "flag" THEN <<<<"true">>>>
               ELSE Pieces(draft.format, WholeValue(i))
  IN FlattenSeq([i \in DOMAIN file |-> Of(i)])

(* Every key has the values of its lines, in the order of the file and in  *)
(* its section, also where values or comments go on over lines before it;  *)
(* but for keys with strings in three quotes, whose text is put together   *)
(* differently, and if no empty array is merged.                           *)
KeysKeepValues ==
  /\ reader.ends /\ draft.format.section = <<>>
  /\ draft.format.merge => \A l \in ToSet(file) : l.value # <<"[", "]">>
  => \A i \in LinesOf({"key", "flag"}) :
       LET full == FullName(i)
       IN /\ Len(full) - 1 <= draft.format.layers
          /\ full \notin {FullName(j) : j \in LinesOf({"string"})}
          => ValuesRead(Front(full), Last(full)) = ValuesWritten(full)

(* A tree whose file says where its options are: no subcommand is in a     *)
(* group, only a subcommand of the main app is without a header, and comes *)
(* before those that have one, and no value with a comma comes after       *)
(* another value where the format has no brackets.                         *)
Legible(t) ==
  \A a \in DOMAIN t :
    LET subs == Listed(t, a, draft.all)
        named == {i \in DOMAIN subs : t[subs[i]].name # NoSegment}
        Head1(s) == Headed(t, s, draft.all)
    IN /\ t[a].name = NoSegment /\ a # 1 => named = {}
       /\ \A i, j \in named : i < j /\ Head1(subs[i]) => Head1(subs[j])
       /\ \A i \in named : a # 1 /\ ~Head1(a) => ~Head1(subs[i])
       /\ \A o \in ToSet(t[a].options) : \A i \in DOMAIN o.values \ {1} :
            draft.format.kind = "ini" => o.values[i] \notin Quoted

(* What _parse_single_config makes of the inputs of a key for a flag.      *)
IsTrue(x) == x \in {<<"true">>, <<"1">>}
ConfigFlag(o, key, inputs) ==
  LET res == inputs[1]
  IN IF Len(inputs) # 1 \/ o.min # 0 THEN inputs
     ELSE <<GetFlagValue(o, key, IF o.fixed /\ IsTrue(res) THEN <<>> ELSE res)>>

PlaceOf(t, a) == SelectSeq(PathOf(t, a), LAMBDA s : s # NoSegment)
Defaulted(o) == draft.all /\ ~draft.format.comments /\ o.values = <<>>
Kept(o) == IF Defaulted(o) THEN DefaultText(o) ELSE o.values
ReadBack(o, place) ==
  LET names == {o.name} \cup {f.name : f \in ToSet(o.flags)}
      used == {n \in names : ValuesRead(place, n) # <<>>}
  IN FlattenSeq(SetToSeq(
       {ConfigFlag(o, n, ValuesRead(place, n)) : n \in used}))

(* A flag that refuses other values than those of its names is not always  *)
(* written with the name that has its value.  Its default is none of them, *)
(* and a word in quotes is taken for none, so that the first name is       *)
(* written; and a name that negates leaves its opposite to the next one.   *)
Tells(o) ==
  o.fixed =>
    /\ ~Defaulted(o)
    /\ \A i \in DOMAIN o.values :
         o.values[i] \in DOMAIN Opposites \cup GivenFor(o, o.name)
    /\ \A f \in ToSet(o.flags) :
         f.given = "false" => f.name = o.name \/ Len(o.flags) = 1

(* What to_config() wrote, an app that reads it with from_config() gives   *)
(* back: each option the values that it had, whichever of its names they   *)
(* were written with, or where defaults are written its default, false for *)
(* a flag, or the mark of an empty or of a required value.                 *)
WrittenIsRead ==
  reader.ends /\ draft.tree # NoTree /\ Legible(draft.tree) =>
    \A a \in DOMAIN draft.tree : \A o \in ToSet(draft.tree[a].options) :
      o.configurable /\ Tells(o) =>
        ReadBack(o, PlaceOf(draft.tree, a))
          = [i \in DOMAIN Kept(o) |-> <<Kept(o)[i]>>]

ConfigIsRead == SectionsNest /\ KeysKeepValues /\ WrittenIsRead
=============================================================================
