---------------------------- MODULE MCStageKits ----------------------------
(***************************************************************************)
(* Small instances of StageKits.  Configuration 1 enables everything, 2    *)
(* all but the strobe, 0 nothing, as in the code.                          *)
(***************************************************************************)
EXTENDS StageKits

MCEnabled == [lamp \in Lamps |-> IF lamp = "strobe" THEN {1} ELSE 1..LastConfig]

ShortInstance == [c \in Configs |-> IF c = 1 THEN SongGap ELSE 0]
ShortTotal == [c \in Configs |-> IF c = 2 THEN SongGap ELSE 0]

\* A fog time that was never set may be anything.  One below 0 is left out: see FogLimited.
MCGarbage == {0, TimeCap}

ASSUME InstanceHasFogHypothesis == FogHypothesis

\* SK_ALL_OFF is sent by Restart.
MCCommands == {"SK_FOG_ON", "SK_FOG_OFF", "SK_LED_RED", "SK_STROBE_SPEED_1", "IDLE"}

\* The pods are alike; which of them a scan finds first is chosen anew each time.
Twins == Permutations(Pods)
=============================================================================
