CONSTANTS
  Numbers <- MCNumbers
  maxNestingDepth = 2
  Durations <- MCDurations
  ComponentID <- MCComponentID
  Interfaces <- MCInterfaces
  Assignable <- MCAssignable
  Pointee <- MCPointee
  NoType = NoType
  Chars <- MCChars
  TimeUnits <- MCTimeUnits
  Width = 6
  Elem <- MCElem
  Structs <- MCStructs
  Scalars <- MCScalars
  Integers <- MCIntegers
  Letters <- MCLetters
  AppPackage = "app"
  MethodsOf <- MCMethodsOf
  Sources <- MCSources
SPECIFICATION FairSpec
INVARIANTS KeptConditionsHold ProxiesNotBypassed DependenciesPrecede CycleIsGenuine GrammarExact SiblingsKept  QueriesBound PluginsContained WrittenOnlyWithoutErrors Generates
PROPERTY Terminates
