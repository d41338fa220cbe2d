------------------------------- MODULE Values -------------------------------
(***************************************************************************)
(* The parts of the library that one thread calls, one call after another: *)
(* an option of CLI11 and its values, the building of a tree of apps, the  *)
(* conversions, configuration files, and the functions on UUIDs, versions  *)
(* and lists.  They share no state.  A behaviour is a behaviour of one of  *)
(* them, the subject; the others rest as they begin.                       *)
(***************************************************************************)
EXTENDS CliOption, CliRegistry, CliNumbers, CliConfig, Identifiers

VARIABLE subject

vars == <<subject, optionVars, registryVars, numberVars, configVars,
          identifierVars>>

Subjects == {"option", "registry", "numbers", "config", "identifiers"}

Rests(name) == subject # name
AnOption == CHOOSE k \in OptionKinds : TRUE
AConfig == CHOOSE d \in ConfigDrafts : d.tree = NoTree

Init ==
  /\ subject \in Subjects
  /\ OptionInit /\ (Rests("option") => option = AnOption)
  /\ IF Rests("registry")
     THEN registry = Blank /\ calls = {} /\ registryCalls = 0
     ELSE RegistryInit
  /\ NumbersInit /\ IdentifiersInit
  /\ IF Rests("config")
     THEN draft = AConfig /\ file = <<>> /\ reader = Start
     ELSE ConfigInit

Only(name, all) == subject = name /\ UNCHANGED <<subject, all>>
OptionTurn ==
  Only("option", <<registryVars, numberVars, configVars, identifierVars>>)
RegistryTurn ==
  Only("registry", <<optionVars, numberVars, configVars, identifierVars>>)
NumbersTurn ==
  Only("numbers", <<optionVars, registryVars, configVars, identifierVars>>)
ConfigTurn ==
  Only("config", <<optionVars, registryVars, numberVars, identifierVars>>)
IdentifiersTurn ==
  Only("identifiers", <<optionVars, registryVars, numberVars, configVars>>)

Next ==
  \/ OptionTurn /\ OptionNext
  \/ RegistryTurn /\ RegistryNext
  \/ NumbersTurn /\ NumbersNext
  \/ ConfigTurn /\ ConfigNext
  \/ IdentifiersTurn /\ IdentifiersNext

Spec == Init /\ [][Next]_vars
=============================================================================
