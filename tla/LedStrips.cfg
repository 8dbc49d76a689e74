SPECIFICATION FairSpec
CONSTANTS
  Main = main
  Watchers = {w1}
  Colours <- MCColours
  Bits = {1, 2}
  LastLed = 3
  Groups <- MCGroups
  StrobeMode = "auto"
  StrobeList = {}
  Rates <- MCRates
  Stray = {0, 5}
  StageSleep = 2
  StrobeSleep = 1
  Word = 8
  Late = {0, 1}
  Lights <- MCLights
  Floor = 4
  None = none
INVARIANTS
  TypeOK
  StripShows
  StrobeEnds
  SleepSound
PROPERTY
  StrobeFlashes
