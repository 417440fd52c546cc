SPECIFICATION FairSpec
CONSTANTS
  Typed <- MCTyped
  Bases <- MCBases
  TypedNames <- MCTypedNames
  Outputs <- MCOutputs
  TestOutput <- MCTestOutput
  Colors = {"red", "yellow", "green", "blue"}
  MaxEdits = 3
  RunWithin = 1
  Patience = 15
  MayFail = TRUE
INVARIANTS
  TypeOK
  NamesDiffer
  CardsShowModel
  GlobeShowsConfiguration
  PresetNamesItself
  PostedIsShown
  ChartMatchesGlobe
  OneTicker
PROPERTIES
  KeepsPromise
  RunEnds
  AnimationEnds
CHECK_DEADLOCK FALSE
