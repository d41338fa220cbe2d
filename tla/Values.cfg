SPECIFICATION Spec
CONSTANTS
  OptionKinds <- MCOptionKinds
  Setters <- MCSetters
  OptionWords <- MCOptionWords
  Unreadable <- MCUnreadable
  MaxCalls = 4
  NoValue = NoValue
  Words <- MCWords
  Letters = {"a"}
  OptionShapes <- MCShapes
  AppNames <- MCAppNames
  Drafts <- MCDrafts
  MaxRegistryCalls = 3
  NoName = NoName
  LongBits = 5
  Widths = {3, 5}
  Magnitudes <- MCMagnitudes
  Kilo = 3
  Kibi = 4
  Levels = {1, 2}
  Quoted <- MCQuoted
  Opposites <- MCOpposites
  ConfigDrafts <- MCConfigDrafts
  MaxLines = 4
  NoTree = NoTree
  UuidSamples <- MCUuidSamples
  Versions <- MCVersions
  Garbage <- MCGarbage
  Lists <- MCLists
  FloatBits = 3
CHECK_DEADLOCK FALSE
INVARIANTS
  ValuesAreTrue
  RegistryIsSound
  SubcommandNamesAreUnique
  ConfigIsRead
  NumbersAreTrue
  IdentifiersAreTrue
