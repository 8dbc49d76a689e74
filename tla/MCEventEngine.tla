---------------------------- MODULE MCEventEngine ----------------------------
(***************************************************************************)
(* The shipped mapping file (dmxified_mapping.xml) as constants of         *)
(* EventEngine.  setFunctionStatus and simpleDeskChannelSet are overridden *)
(* exactly where basicWidgetValueSet is and no input outputs to them, so   *)
(* Widget stands for the three; consecutive Widget outputs are one.        *)
(***************************************************************************)
EXTENDS EventEngine

Led == "Handle_LEDUpdate"
Strobe == "Handle_StrobeUpdate"
Fog == "Handle_FogUpdate"
Widget == "basicWidgetValueSet"
MCSlots == {Led, Strobe, Fog, Widget}
MCStageKitSlots == {Led, Strobe, Fog}

MCAllButtons == {"footFogButton", "footSpazButton", "blackLightButton", "soundModeButton"}
MCOff == [b \in MCAllButtons |->
  CASE b = "footFogButton" -> "footFogButtonOff"
    [] b = "footSpazButton" -> "footSpazButtonOff"
    [] b = "blackLightButton" -> "blackLightButtonOff"
    [] b = "soundModeButton" -> "soundModeButtonOff"]
MCOffOf == [b \in Buttons |-> MCOff[b]]

MCGameInputs == {"SK_LED_RED", "SK_STROBE_SPEED_1", "SK_STROBE_OFF", "SK_ALL_OFF",
  "SK_FOG_ON", "SK_FOG_OFF", "SERIAL_RESTART", "IDLE_ON", "IDLE_OFF"}
MCInputs == MCGameInputs \cup Buttons \cup {MCOff[b] : b \in Buttons}

Rank(b) ==
  CASE b = "footFogButton" -> 300 [] b = "blackLightButton" -> 200
    [] b = "footSpazButton" -> 150 [] b = "soundModeButton" -> 100
MCPriority == [i \in MCInputs |->
  IF \E b \in Buttons : i \in {b, MCOff[b]}
  THEN Rank(CHOOSE b \in Buttons : i \in {b, MCOff[b]}) ELSE 1]

Out(s, v) == [slot |-> s, value |-> v]
Widgets == Out(Widget, SK_NONE)

\* The game's own fog outputs are commented out in the shipped file; GameFog
\* gives them back, as its comment and the README offer.
FogOutputs(v) == <<Out(Fog, v)>>

ShippedOutputs(i) ==
  CASE i = "SK_LED_RED" -> <<Widgets, Out(Led, "SK_LED_RED")>>
    [] i = "SK_STROBE_SPEED_1" -> <<Widgets, Out(Strobe, "SK_STROBE_SPEED_1")>>
    [] i = "SK_STROBE_OFF" -> <<Widgets, Out(Strobe, "SK_STROBE_OFF")>>
    [] i = "SK_ALL_OFF" -> <<Widgets, Out(Led, "SK_ALL_OFF")>>
    [] i \in {"SK_FOG_ON", "SK_FOG_OFF"} -> <<>>
    [] i \in {"SERIAL_RESTART", "IDLE_OFF"} -> <<Widgets>>
    [] i = "IDLE_ON" -> <<Widgets, Out(Led, "SK_ALL_OFF")>>
    [] i = "footFogButton" -> <<Widgets, Out(Fog, "SK_FOG_ON")>>
    [] i = "footFogButtonOff" -> <<Widgets, Out(Fog, "SK_FOG_OFF")>>
    [] i = "footSpazButton" -> <<Widgets, Out(Led, "SK_ALL_OFF"), Widgets>>
    [] i = "blackLightButton" -> <<Widgets, Out(Led, "SK_ALL_OFF")>>
    [] OTHER -> <<Widgets>>
MCOutputs == [i \in MCInputs |-> ShippedOutputs(i)]

\* The shipped file with the game in charge of the fog.
GameFogOutputs == [i \in MCInputs |->
  IF i \in {"SK_FOG_ON", "SK_FOG_OFF"} THEN FogOutputs(i) ELSE ShippedOutputs(i)]

MCOverrides == [i \in MCInputs |->
  CASE i = "footFogButton" -> {Fog}
    [] i \in {"footSpazButton", "blackLightButton"} -> {Led, Strobe, Widget}
    [] i = "soundModeButton" -> {Widget}
    [] OTHER -> {}]

\* The shipped file with a slip in one <value>: the engine cannot convert it.
SlipOutputs == [i \in MCInputs |->
  IF i = "footSpazButton" THEN <<Widgets, Out(Led, Bad), Widgets>> ELSE ShippedOutputs(i)]

ThreeSceneButtons == {"footSpazButton", "blackLightButton", "soundModeButton"}
SpazButton == {"footSpazButton"}
OneButton == {"soundModeButton"}
NoButtons == {}

\* "Unknown": a right_weight that is none of the console's.
SceneEvents == {"SK_LED_RED", "SK_ALL_OFF", "SK_FOG_OFF"}
FogEvents == {"SK_FOG_ON", "SK_FOG_OFF", "SK_ALL_OFF"}
IdleEventsOfGame == {"SK_LED_RED", "SK_FOG_OFF", "SERIAL_RESTART", "Unknown"}

ASSUME ShippedMappingIsWellNested == WellNested /\ OnlyButtonsOverride /\ Chained
ASSUME ShippedMappingShowsIdle == ShowsIdle
ASSUME ShippedMappingConverts == Outputs = MCOutputs => NothingThrows
==============================================================================
