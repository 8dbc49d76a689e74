SPECIFICATION Spec
CONSTANTS
  Main = main
  Watchers = {}
  Pods = {p1, p2}
  MaxKits = 2
  LastConfig = 2
  Enabled <- MCEnabled
  InstanceMax <- ShortInstance
  TotalMax <- ShortTotal
  DefaultConfig = 1
  Senders = {FALSE, TRUE}
  Commands <- MCCommands
  SongGap = 2
  NoDataLimit = 2
  Garbage <- MCGarbage
  TimeCap = 3
  FogCap = 5
  None = none
  Gone = gone
  NoConfig = noconfig
INVARIANTS
  TypeOK
  NothingLeftOn
  ConfigObeyed
  TableSound
  FogLimited
SYMMETRY Twins
