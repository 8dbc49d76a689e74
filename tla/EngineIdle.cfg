SPECIFICATION Spec
CONSTANTS
  Main = main
  Bad = bad
  Buttons <- NoButtons
  OffOf <- MCOffOf
  Inputs <- MCInputs
  GameEvents <- IdleEventsOfGame
  Slots <- MCSlots
  StageKitSlots <- MCStageKitSlots
  Priority <- MCPriority
  Outputs <- MCOutputs
  Overrides <- MCOverrides
  IdleTime = 2
  ClockCap = 3
INVARIANTS
  QueueDrained
PROPERTY
  IdleRefined
