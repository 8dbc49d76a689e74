SPECIFICATION Spec
CONSTANTS
  Main = main
  Bad = bad
  Buttons <- ThreeSceneButtons
  OffOf <- MCOffOf
  Inputs <- MCInputs
  GameEvents <- SceneEvents
  Slots <- MCSlots
  StageKitSlots <- MCStageKitSlots
  Priority <- MCPriority
  Outputs <- MCOutputs
  Overrides <- MCOverrides
  IdleTime = 0
  ClockCap = 0
INVARIANTS
  NoStaleOverride
  SupremeHolds
  OverridesBounded
PROPERTY
  SupremeRulesWidgets
