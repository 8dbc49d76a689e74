SPECIFICATION Spec
CONSTANTS
  Main = main
  Watchers = {}
  Colours <- MCColours
  Bits = {1, 2}
  LastLed = 3
  Groups <- MCGroups
  StrobeMode = "auto"
  StrobeList = {}
  Rates <- MCRates
  Stray = {0, 5}
  StageSleep = 2
  StrobeSleep = 1
  Word = 8
  Late = {0, 5}
  Lights <- MCLights
  Floor = 4
  None = none
INVARIANTS
  SleepBounded
