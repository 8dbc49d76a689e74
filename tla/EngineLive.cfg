SPECIFICATION FairSpec
CONSTANTS
  Main = main
  Bad = bad
  Buttons <- SpazButton
  OffOf <- MCOffOf
  Inputs <- MCInputs
  GameEvents <- IdleEventsOfGame
  Slots <- MCSlots
  StageKitSlots <- MCStageKitSlots
  Priority <- MCPriority
  Outputs <- SlipOutputs
  Overrides <- MCOverrides
  IdleTime = 2
  ClockCap = 3
INVARIANTS
  TypeOK
  QueueAgrees
  IdleSceneAgrees
PROPERTIES
  GoesIdle
  FileNoticed
  QueueClears
