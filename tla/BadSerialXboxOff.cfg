SPECIFICATION FairSpec
CONSTANTS
  SilenceLimit = 1
  Calm = TRUE
  Consoles <- MCPowerCuts
PROPERTY
  FindsLife
